------------------------------- MODULE Colour -------------------------------
(***************************************************************************)
(* ARGBToI420 of cip_window.c: what frame_send makes of the X server's     *)
(* image before it is encoded.                                             *)
(*                                                                         *)
(* An image is a function from rows to functions from columns to pixels, a *)
(* plane one to samples, and "missing" says that one of the four pointers  *)
(* is null.  frame_send passes even, positive extents.                     *)
(***************************************************************************)
EXTENDS Integers

Byte == 0..255
Pixel == [r : Byte, g : Byte, b : Byte]
Image(width, height) == [0..(height - 1) -> [0..(width - 1) -> Pixel]]

RGBToY(p) == (66 * p.r + 129 * p.g + 25 * p.b + 4224) \div 256
RGBToU(p) == (112 * p.b - 74 * p.g - 38 * p.r + 32896) \div 256
RGBToV(p) == (112 * p.r - 94 * p.g - 18 * p.b + 32896) \div 256

\* ">> 2" over a square of four pixels, ">> 1" over a column of two.
Mean4(a, b, c, d) ==
  [r |-> (a.r + b.r + c.r + d.r) \div 4,
   g |-> (a.g + b.g + c.g + d.g) \div 4,
   b |-> (a.b + b.b + c.b + d.b) \div 4]
Mean2(a, b) ==
  [r |-> (a.r + b.r) \div 2, g |-> (a.g + b.g) \div 2, b |-> (a.b + b.b) \div 2]

ARGBToYRow(row, width) == [x \in 0..(width - 1) |-> RGBToY(row[x])]

\* The pixel a chroma sample is made from; the last column of an odd width
\* has no neighbour.
Sampled(row0, row1, width, k) ==
  IF 2 * k < width - 1
  THEN Mean4(row0[2 * k], row0[2 * k + 1], row1[2 * k], row1[2 * k + 1])
  ELSE Mean2(row0[2 * k], row1[2 * k])
ARGBToUVRow(row0, row1, width) ==
  LET half == (width + 1) \div 2 IN
    [u |-> [k \in 0..(half - 1) |-> RGBToU(Sampled(row0, row1, width, k))],
     v |-> [k \in 0..(half - 1) |-> RGBToV(Sampled(row0, row1, width, k))]]

\* Nothing is written when a pointer is missing or an extent is void.
Refused == [result |-> -1, y |-> <<>>, u |-> <<>>, v |-> <<>>]

\* The pairs of rows, the last of an odd height being a pair with itself; a
\* negative height turns the image upside down.
ARGBToI420(image, missing, width, height) ==
  LET rows == IF height < 0 THEN -height ELSE height
      row(k) == IF height < 0 THEN image[rows - 1 - k] ELSE image[k]
      half == (rows + 1) \div 2
      under(k) == IF 2 * k < rows - 1 THEN 2 * k + 1 ELSE 2 * k
      uv(k) == ARGBToUVRow(row(2 * k), row(under(k)), width)
  IN  IF missing \/ width <= 0 \/ height = 0
      THEN Refused
      ELSE [result |-> 0,
            y |-> [k \in 0..(rows - 1) |-> ARGBToYRow(row(k), width)],
            u |-> [k \in 0..(half - 1) |-> uv(k).u],
            v |-> [k \in 0..(half - 1) |-> uv(k).v]]
=============================================================================
