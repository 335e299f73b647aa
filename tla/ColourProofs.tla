---------------------------- MODULE ColourProofs ----------------------------
(* What ARGBToI420 returns, for images of every even size. *)
EXTENDS Colour, TLAPS

Luma == 16..235
Chroma == 16..240

Even(n) == n % 2 = 0

\* ">> 8" of a sum.
LEMMA Shift8 ==
  ASSUME NEW n \in Int, NEW low \in Int, NEW high \in Int,
         256 * low <= n, n < 256 * (high + 1)
  PROVE  n \div 256 \in low..high
BY SMTT(30)

\* The sums of cip_window.c:31-40 neither go below 0 nor exceed a byte: the
\* uint8 they are stored in takes them as they are.
LEMMA Samples ==
  ASSUME NEW p \in Pixel
  PROVE  RGBToY(p) \in Luma /\ RGBToU(p) \in Chroma /\ RGBToV(p) \in Chroma
<1> DEFINE r == p.r
           g == p.g
           b == p.b
<1>1. r \in 0..255 /\ g \in 0..255 /\ b \in 0..255
  BY DEF Pixel, Byte
<1> HIDE DEF r, g, b
<1>2. (66 * r + 129 * g + 25 * b + 4224) \div 256 \in 16..235
  BY <1>1, Shift8
<1>3. (112 * b - 74 * g - 38 * r + 32896) \div 256 \in 16..240
  BY <1>1, Shift8
<1>4. (112 * r - 94 * g - 18 * b + 32896) \div 256 \in 16..240
  BY <1>1, Shift8, SMTT(30)
<1> QED BY <1>2, <1>3, <1>4 DEF r, g, b, RGBToY, RGBToU, RGBToV, Luma, Chroma

\* Averages of four pixels are pixels.
LEMMA Means ==
  ASSUME NEW a \in Pixel, NEW b \in Pixel, NEW c \in Pixel, NEW d \in Pixel
  PROVE  Mean4(a, b, c, d) \in Pixel
<1>1. \A i, j, k, l \in 0..255 : (i + j + k + l) \div 4 \in 0..255
  OBVIOUS
<1>2. \A q \in Pixel : q.r \in 0..255 /\ q.g \in 0..255 /\ q.b \in 0..255
  BY DEF Pixel, Byte
<1>3. (a.r + b.r + c.r + d.r) \div 4 \in 0..255
  BY <1>1, <1>2, ZenonT(30)
<1>4. (a.g + b.g + c.g + d.g) \div 4 \in 0..255
  BY <1>1, <1>2, ZenonT(30)
<1>5. (a.b + b.b + c.b + d.b) \div 4 \in 0..255
  BY <1>1, <1>2, ZenonT(30)
<1> QED BY <1>3, <1>4, <1>5 DEF Mean4, Pixel, Byte

\* Grey has no colour, whatever its brightness: ARGBToI420 keeps black and
\* white windows free of a tint.
THEOREM GreyIsNeutral ==
  ASSUME NEW p \in Pixel, p.r = p.g, p.g = p.b
  PROVE  RGBToU(p) = 128 /\ RGBToV(p) = 128
<1>1. p.r \in 0..255 /\ p.g \in 0..255 /\ p.b \in 0..255
  BY DEF Pixel, Byte
<1>2. RGBToU(p) = 32896 \div 256 /\ RGBToV(p) = 32896 \div 256
  BY <1>1 DEF RGBToU, RGBToV
<1> QED BY <1>2

\* One row of chroma samples: only pixels of the two rows are read.
LEMMA UVRow ==
  ASSUME NEW width \in Nat \ {0}, Even(width),
         NEW row0 \in [0..(width - 1) -> Pixel], NEW row1 \in [0..(width - 1) -> Pixel]
  PROVE  /\ ARGBToUVRow(row0, row1, width).u \in [0..(width \div 2 - 1) -> Chroma]
         /\ ARGBToUVRow(row0, row1, width).v \in [0..(width \div 2 - 1) -> Chroma]
<1>1. (width + 1) \div 2 = width \div 2
  BY DEF Even
<1>2. ASSUME NEW k \in 0..(width \div 2 - 1)
      PROVE  Sampled(row0, row1, width, k) \in Pixel
  <2>1. 2 * k \in 0..(width - 1) /\ 2 * k + 1 \in 0..(width - 1) /\ 2 * k < width - 1
    BY DEF Even
  <2>2. /\ row0[2 * k] \in Pixel /\ row0[2 * k + 1] \in Pixel
        /\ row1[2 * k] \in Pixel /\ row1[2 * k + 1] \in Pixel
    BY <2>1
  <2> QED BY <2>1, <2>2, Means DEF Sampled
<1>3. ASSUME NEW k \in 0..(width \div 2 - 1)
      PROVE  /\ RGBToU(Sampled(row0, row1, width, k)) \in Chroma
             /\ RGBToV(Sampled(row0, row1, width, k)) \in Chroma
  BY <1>2, Samples
<1> QED BY <1>1, <1>3 DEF ARGBToUVRow

\* For a stream's extents, which are even, the conversion of an image at
\* hand succeeds, reads no pixel outside the image, yields a luma sample for
\* every pixel and a chroma sample for every square of four, all of them in
\* the encoder's range.
THEOREM ConversionCorrect ==
  ASSUME NEW width \in Nat \ {0}, NEW height \in Nat \ {0}, Even(width), Even(height),
         NEW image \in Image(width, height)
  PROVE  LET planes == ARGBToI420(image, FALSE, width, height) IN
           /\ planes.result = 0
           /\ planes.y \in [0..(height - 1) -> [0..(width - 1) -> Luma]]
           /\ planes.u \in [0..(height \div 2 - 1) -> [0..(width \div 2 - 1) -> Chroma]]
           /\ planes.v \in [0..(height \div 2 - 1) -> [0..(width \div 2 - 1) -> Chroma]]
<1>1. (height + 1) \div 2 = height \div 2 /\ width > 0 /\ height > 0
  BY DEF Even
<1>2. ASSUME NEW k \in 0..(height - 1)
      PROVE  ARGBToYRow(image[k], width) \in [0..(width - 1) -> Luma]
  <2>1. image[k] \in [0..(width - 1) -> Pixel]
    BY DEF Image
  <2>2. \A x \in 0..(width - 1) : RGBToY(image[k][x]) \in Luma
    BY <2>1, Samples
  <2> QED BY <2>2 DEF ARGBToYRow
<1>3. ASSUME NEW k \in 0..(height \div 2 - 1)
      PROVE  /\ 2 * k < height - 1
             /\ ARGBToUVRow(image[2 * k], image[2 * k + 1], width).u
                  \in [0..(width \div 2 - 1) -> Chroma]
             /\ ARGBToUVRow(image[2 * k], image[2 * k + 1], width).v
                  \in [0..(width \div 2 - 1) -> Chroma]
  <2>1. 2 * k \in 0..(height - 1) /\ 2 * k + 1 \in 0..(height - 1) /\ 2 * k < height - 1
    BY DEF Even
  <2>2. image[2 * k] \in [0..(width - 1) -> Pixel] /\ image[2 * k + 1] \in [0..(width - 1) -> Pixel]
    BY <2>1 DEF Image
  <2> QED BY <2>1, <2>2, UVRow
<1> QED BY <1>1, <1>2, <1>3 DEF ARGBToI420
=============================================================================
