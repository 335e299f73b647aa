---------------------------- MODULE StreamProofs ----------------------------
(* What is proved of WindowStream, for every value of the constants: first *)
(* that the two threads never work on one stream and no wake-up is lost,   *)
(* then what holds of streams, requests and frames.                        *)
EXTENDS WindowStream, TLAPS

-----------------------------------------------------------------------------
(* The inductive invariant, in parts. *)

IsJob(j) == j = [does |-> j.does, at |-> j.at, win |-> j.win, arg |-> j.arg, nals |-> j.nals]

JobsOK == job = [t \in Thread |-> job[t]] /\ \A t \in Thread : IsJob(job[t])

LocksOK == lock = [w \in Window |-> lock[w]]

\* A window is made without the lock, so nothing but stream_init may go on.
MakesOnlyInit == \A t \in Thread : job[t].does = "make" => job[t].at = "init"

LockIsUse == \A w \in Window, t \in Thread : lock[w] = t <=> Critical(t, w)

LInv == JobsOK /\ LocksOK /\ MakesOnlyInit /\ LockIsUse

-----------------------------------------------------------------------------
(* What the ways to go on with a job do. *)

Others(t) == \A u \in Thread \ {t} : job'[u] = job[u]

\* Assigning the place of a job.
LEMMA PlaceSet ==
  ASSUME NEW j, IsJob(j), NEW p
  PROVE  [j EXCEPT !.at = p] = [does |-> j.does, at |-> p, win |-> j.win, arg |-> j.arg, nals |-> j.nals]
BY DEF IsJob

LEMMA GotoMoves ==
  ASSUME JobsOK, NEW t \in Thread, NEW p, Goto(t, p)
  PROVE  /\ JobsOK' /\ Others(t)
         /\ job'[t].at = p /\ job'[t].win = job[t].win /\ job'[t].does = job[t].does
<1>1. IsJob(job[t])
  BY DEF JobsOK
<1>2. job' = [job EXCEPT ![t] = [job[t] EXCEPT !.at = p]]
  BY DEF Goto
<1>3. job'[t] = [job[t] EXCEPT !.at = p] /\ \A u \in Thread \ {t} : job'[u] = job[u]
  BY <1>2 DEF JobsOK
<1>4. job'[t] = [does |-> job[t].does, at |-> p, win |-> job[t].win, arg |-> job[t].arg,
                 nals |-> job[t].nals]
  BY <1>1, <1>3, PlaceSet
<1>5. job' = [u \in Thread |-> job'[u]]
  BY <1>2 DEF JobsOK
<1> QED
  BY <1>3, <1>4, <1>5 DEF JobsOK, IsJob, Others

LEMMA StartMoves ==
  ASSUME JobsOK, NEW t \in Thread, NEW does, NEW at, NEW win, NEW arg, Start(t, does, at, win, arg)
  PROVE  JobsOK' /\ Others(t) /\ job'[t].at = at /\ job'[t].does = does
<1>1. /\ job'[t] = [does |-> does, at |-> at, win |-> win, arg |-> arg, nals |-> <<>>]
      /\ \A u \in Thread \ {t} : job'[u] = job[u]
      /\ job' = [u \in Thread |-> job'[u]]
  BY DEF Start, JobsOK
<1> QED
  BY <1>1 DEF JobsOK, IsJob, Others

LEMMA ReturnMoves ==
  ASSUME JobsOK, NEW t \in Thread, Return(t)
  PROVE  JobsOK' /\ Others(t) /\ job'[t].at = "done" /\ job'[t].does = "nothing"
<1>1. /\ job'[t] = NoJob
      /\ \A u \in Thread \ {t} : job'[u] = job[u]
      /\ job' = [u \in Thread |-> job'[u]]
  BY DEF Return, JobsOK
<1> QED
  BY <1>1 DEF JobsOK, IsJob, Others, NoJob

LEMMA NalsMove ==
  ASSUME JobsOK, NEW t \in Thread, NEW p, NEW ns,
         job' = [job EXCEPT ![t].at = p, ![t].nals = ns]
  PROVE  /\ JobsOK' /\ Others(t)
         /\ job'[t].at = p /\ job'[t].win = job[t].win /\ job'[t].does = job[t].does
<1>1. IsJob(job[t])
  BY DEF JobsOK
<1>2. /\ job'[t] = [job[t] EXCEPT !.at = p, !.nals = ns]
      /\ \A u \in Thread \ {t} : job'[u] = job[u]
      /\ job' = [u \in Thread |-> job'[u]]
  BY DEF JobsOK
<1>3. job'[t] = [does |-> job[t].does, at |-> p, win |-> job[t].win, arg |-> job[t].arg,
                 nals |-> ns]
  BY <1>1, <1>2 DEF IsJob
<1> QED
  BY <1>2, <1>3 DEF JobsOK, IsJob, Others

-----------------------------------------------------------------------------
(* Steps by what they do to a job and its lock. *)

\* A step that leaves jobs and locks alone.
LEMMA LInvSame ==
  ASSUME LInv, UNCHANGED <<job, lock>>
  PROVE  LInv'
BY DEF LInv, JobsOK, LocksOK, MakesOnlyInit, LockIsUse, Critical, Uses

\* A step after which t is in the same call of cip_window.c, or in none.
LEMMA LInvMove ==
  ASSUME LInv, NEW t \in Thread, JobsOK', Others(t), lock' = lock,
         job'[t].does = "make" => job'[t].at = "init",
         \A w \in Window : Critical(t, w)' <=> Critical(t, w)
  PROVE  LInv'
<1>1. MakesOnlyInit'
  BY DEF LInv, MakesOnlyInit, Others
<1>2. \A u \in Thread \ {t}, w \in Window : Critical(u, w)' <=> Critical(u, w)
  BY DEF Others, Critical, Uses
<1>3. LockIsUse'
  BY <1>2 DEF LInv, LockIsUse
<1> QED
  BY <1>1, <1>3 DEF LInv, LocksOK

Outside(p) == p \notin {"work", "nal", "ring", "clean", "init", "give"}
Inside(p) == p \in {"work", "nal", "ring", "clean", "init", "give"}

\* A job starts, goes on or ends before it takes the lock.
LEMMA LInvOutside ==
  ASSUME LInv, NEW t \in Thread, JobsOK', Others(t), lock' = lock,
         Outside(job[t].at), Outside(job'[t].at), job'[t].does # "make"
  PROVE  LInv'
<1>1. \A w \in Window : Critical(t, w)' <=> Critical(t, w)
  BY DEF Critical, Uses, Outside
<1> QED
  BY <1>1, LInvMove

\* A job goes on while it has the lock.
LEMMA LInvInside ==
  ASSUME LInv, NEW t \in Thread, JobsOK', Others(t), lock' = lock,
         Inside(job[t].at), Inside(job'[t].at), job[t].at # "init" \/ job[t].does # "make",
         job'[t].does = job[t].does, job'[t].win = job[t].win
  PROVE  LInv'
<1>1. job[t].does # "make"
  BY DEF LInv, MakesOnlyInit
<1>2. \A w \in Window : Critical(t, w)' <=> Critical(t, w)
  BY <1>1 DEF Critical, Uses, Inside
<1> QED
  BY <1>1, <1>2, LInvMove

-----------------------------------------------------------------------------
LEMMA LInvInit == StreamInit => LInv
<1> SUFFICES ASSUME StreamInit PROVE LInv
  OBVIOUS
<1>1. \A t \in Thread : job[t] = NoJob
  BY DEF StreamInit
<1>2. JobsOK /\ LocksOK
  BY <1>1 DEF StreamInit, JobsOK, LocksOK, IsJob, NoJob
<1>3. \A t \in Thread, w \in Window : ~Critical(t, w)
  BY <1>1 DEF Critical, Uses, NoJob
<1>4. LockIsUse
  BY <1>3, StreamAssumption DEF StreamInit, LockIsUse
<1> QED
  BY <1>1, <1>2, <1>4 DEF LInv, MakesOnlyInit, NoJob

\* A job that has no lock moves to a place where it needs none.
LEMMA LInvGo ==
  ASSUME LInv, NEW t \in Thread, lock' = lock, Outside(job[t].at),
         Return(t) \/ (\E p : Outside(p) /\ Goto(t, p))
  PROVE  LInv'
<1>1. JobsOK /\ job[t].does # "make"
  BY DEF LInv, MakesOnlyInit, Outside
<1>2. CASE Return(t)
  <2>1. JobsOK' /\ Others(t) /\ job'[t].at = "done" /\ job'[t].does = "nothing"
    BY <1>1, <1>2, ReturnMoves
  <2> QED
    BY <2>1, LInvOutside DEF Outside
<1>3. ASSUME NEW p, Outside(p), Goto(t, p) PROVE LInv'
  <2>1. JobsOK' /\ Others(t) /\ job'[t].at = p /\ job'[t].does = job[t].does
    BY <1>1, <1>3, GotoMoves
  <2> QED
    BY <1>1, <1>3, <2>1, LInvOutside DEF Outside
<1> QED
  BY <1>2, <1>3

\* A job that has no lock makes way for another.
LEMMA LInvStart ==
  ASSUME LInv, NEW t \in Thread, lock' = lock, Outside(job[t].at),
         NEW does, NEW at, NEW win, does # "make", Outside(at), Start(t, does, at, win, None)
  PROVE  LInv'
<1>1. JobsOK
  BY DEF LInv
<1>2. JobsOK' /\ Others(t) /\ job'[t].at = at /\ job'[t].does = does
  BY <1>1, StartMoves
<1> QED
  BY <1>2, LInvOutside DEF Outside

\* The free of a node takes its lock and the uv thread's job with it.
LEMMA LInvDestroy == LInv /\ Idle("xorg") /\ DestroyStream => LInv'
<1> SUFFICES ASSUME LInv, Idle("xorg"), DestroyStream PROVE LInv'
  OBVIOUS
<1> USE DEF Thread
<1>1. /\ lock' = [lock EXCEPT ![ev.wid] = None]
      /\ \/ /\ job["uv"].at \in {"seek", "find"} \/ job["uv"].win = ev.wid
            /\ job' = [job EXCEPT !["uv"].win = Freed]
         \/ /\ job["uv"].at \in {"seek", "find"} \/ job["uv"].win # ev.wid
            /\ UNCHANGED job
  BY DEF DestroyStream
<1>2. Freed \notin Window /\ None \notin Thread
  BY ConstantsAssumption, StreamAssumption
<1>3. \A w \in Window : ~Critical("xorg", w)
  BY DEF Idle, NoJob, Critical, Uses
<1>4. LocksOK' /\ \A w \in Window : lock'[w] = IF w = ev.wid THEN None ELSE lock[w]
  BY <1>1 DEF LInv, LocksOK
<1>5. ASSUME UNCHANGED job, job["uv"].at \in {"seek", "find"} \/ job["uv"].win # ev.wid
      PROVE  LInv'
  <2>1. \A w \in Window, t \in Thread : Critical(t, w)' <=> Critical(t, w)
    BY <1>5 DEF Critical, Uses
  <2>2. \A t \in Thread, w \in Window : w = ev.wid => ~Critical(t, w)
    BY <1>3, <1>5 DEF Critical, Uses
  <2>3. LockIsUse'
    BY <1>2, <1>4, <2>1, <2>2 DEF LInv, LockIsUse
  <2> QED
    BY <1>4, <1>5, <2>3 DEF LInv, JobsOK, MakesOnlyInit
<1>6. ASSUME job' = [job EXCEPT !["uv"].win = Freed],
             job["uv"].at \in {"seek", "find"} \/ job["uv"].win = ev.wid
      PROVE  LInv'
  <2>1. job' = [job EXCEPT !["uv"] = [job["uv"] EXCEPT !.win = Freed]]
    BY <1>6
  <2>2. /\ job' = [u \in Thread |-> job'[u]] /\ job'["xorg"] = job["xorg"]
        /\ job'["uv"] = [job["uv"] EXCEPT !.win = Freed]
    BY <2>1 DEF LInv, JobsOK
  <2>3. IsJob(job["uv"]) /\ IsJob(job["xorg"])
    BY DEF LInv, JobsOK
  <2>4. job'["uv"] = [does |-> job["uv"].does, at |-> job["uv"].at, win |-> Freed,
                      arg |-> job["uv"].arg, nals |-> job["uv"].nals]
    BY <2>2, <2>3 DEF IsJob
  <2>5. JobsOK' /\ MakesOnlyInit'
    BY <2>2, <2>3, <2>4 DEF LInv, JobsOK, MakesOnlyInit, IsJob
  <2>6. \A w \in Window, t \in Thread : ~Critical(t, w)'
    BY <1>2, <1>3, <2>2, <2>4 DEF Critical, Uses
  <2>7. \A w \in Window, t \in Thread : w # ev.wid => ~Critical(t, w)
    BY <1>3, <1>6 DEF Critical, Uses
  <2>8. LockIsUse'
    BY <1>2, <1>4, <2>6, <2>7 DEF LInv, LockIsUse
  <2> QED
    BY <1>4, <2>5, <2>8 DEF LInv
<1> QED
  BY <1>1, <1>5, <1>6

\* The handlers of the xorg thread, which start a job when it has none.
LEMMA LInvXorg == LInv /\ (XTakes \/ XGoesOn) => LInv'
<1> SUFFICES ASSUME LInv, XTakes \/ XGoesOn PROVE LInv'
  OBVIOUS
<1> USE DEF Thread
<1>1. JobsOK /\ job["xorg"].at = "done" /\ Outside("done") /\ Idle("xorg")
  BY DEF LInv, XTakes, XGoesOn, Idle, NoJob, Outside
<1>2. CASE \/ Plain(XEvent) \/ XApply
           \/ Plain(CreateLink \/ MapViewable \/ Enqueue \/ ConfigureMove \/ AsyncSend)
  BY <1>2, LInvSame DEF Plain, XApply, svars
<1>3. ASSUME NEW w \in Window, Damage(w) PROVE LInv'
  <2>1. Start("xorg", "frame", "find", w, None) /\ lock' = lock
    BY <1>3 DEF Damage
  <2>2. JobsOK' /\ Others("xorg") /\ job'["xorg"].at = "find" /\ job'["xorg"].does = "frame"
    BY <1>1, <2>1, StartMoves
  <2> QED
    BY <1>1, <2>1, <2>2, LInvOutside DEF Outside
<1>4. CASE CreateStream
  <2>1. Start("xorg", "make", "init", ev.wid, None) /\ lock' = lock
    BY <1>4 DEF CreateStream
  <2>2. JobsOK' /\ Others("xorg") /\ job'["xorg"].at = "init" /\ job'["xorg"].does = "make"
    BY <1>1, <2>1, StartMoves
  <2>3. \A w \in Window : ~Critical("xorg", w) /\ ~Critical("xorg", w)'
    BY <1>1, <2>2 DEF Critical, Uses
  <2> QED
    BY <2>1, <2>2, <2>3, LInvMove
<1>5. CASE ResizeStream
  <2>1. lock' = lock /\ (Start("xorg", "reset", "take", ev.wid, None) \/ UNCHANGED job)
    BY <1>5 DEF ResizeStream
  <2>2. CASE Start("xorg", "reset", "take", ev.wid, None)
    <3>1. JobsOK' /\ Others("xorg") /\ job'["xorg"].at = "take" /\ job'["xorg"].does = "reset"
      BY <1>1, <2>2, StartMoves
    <3> QED
      BY <1>1, <2>1, <3>1, LInvOutside DEF Outside
  <2> QED
    BY <2>1, <2>2, LInvSame
<1>6. CASE DestroyStream
  BY <1>1, <1>6, LInvDestroy
<1> QED
  BY <1>2, <1>3, <1>4, <1>5, <1>6 DEF XTakes, XGoesOn, Plain

\* The handlers of the uv thread.
LEMMA LInvUv == LInv /\ (Input \/ UvGoesOn \/ Wake) => LInv'
<1> SUFFICES ASSUME LInv, Input \/ UvGoesOn \/ Wake PROVE LInv'
  OBVIOUS
<1> USE DEF Thread
<1>1. JobsOK /\ "uv" \in Thread
  BY DEF LInv
<1>2. CASE Plain(EmitNext) \/ EmitFrame \/ Plain(EmitEnd) \/ Plain(EmitBegin) \/ UvFault
           \/ ConnectDisplay \/ GreetNext
  BY <1>2, LInvSame DEF Plain, EmitFrame, UvFault, ConnectDisplay, GreetNext, svars
<1>3. ASSUME NEW does \in {"move", "resize", "ready"}, NEW w \in Window, NEW arg,
             AtLoop, Start("uv", does, "seek", w, arg), lock' = lock
      PROVE  LInv'
  <2>1. Outside(job["uv"].at)
    BY <1>3 DEF AtLoop, Idle, NoJob, Outside
  <2>2. JobsOK' /\ Others("uv") /\ job'["uv"].at = "seek" /\ job'["uv"].does = does
    BY <1>1, <1>3, StartMoves
  <2> QED
    BY <1>1, <1>3, <2>1, <2>2, LInvOutside DEF Outside
<1>4. CASE Input
  BY <1>2, <1>3, <1>4 DEF Input, InputMove, InputResize, InputShowReady
<1>5. CASE Seek
  <2>1. /\ job["uv"].at = "seek" /\ lock' = lock
        /\ Return("uv") \/ Goto("uv", "spin") \/ Goto("uv", "store")
    BY <1>5 DEF Seek
  <2> QED
    BY <1>1, <2>1, LInvGo DEF Outside
<1>6. CASE StoreGeometry
  <2>1. job["uv"].at = "store" /\ lock' = lock /\ Goto("uv", "tell")
    BY <1>6 DEF StoreGeometry
  <2> QED
    BY <1>1, <2>1, LInvGo DEF Outside
<1>7. CASE TellX
  <2>1. /\ job["uv"].at = "tell" /\ lock' = lock
        /\ Return("uv") \/ Start("uv", "reset", "take", job["uv"].win, None)
    BY <1>7 DEF TellX
  <2> QED
    BY <1>1, <2>1, LInvGo, LInvStart DEF Outside
<1>8. CASE Spin
  <2>1. /\ job["uv"].at = "spin" /\ lock' = lock
        /\ Start("uv", "frame", "find", job["uv"].win, None)
    BY <1>8 DEF Spin
  <2> QED
    BY <1>1, <2>1, LInvStart DEF Outside
<1>9. CASE GreetOne
  <2>1. /\ lock' = lock /\ job["uv"].at = "done"
        /\ Start("uv", "frame", "find", cur, None) \/ UNCHANGED job
    BY <1>9 DEF GreetOne, Idle, NoJob
  <2> QED
    BY <1>1, <1>9, <2>1, LInvStart, LInvSame DEF Outside
<1> QED
  BY <1>2, <1>4, <1>5, <1>6, <1>7, <1>8, <1>9 DEF UvGoesOn, Wake
\* A call of cip_window.c, on either thread.
LEMMA LInvJob == \A t \in Thread : LInv /\ JobStep(t) => LInv'
<1> SUFFICES ASSUME NEW t \in Thread, LInv, JobStep(t) PROVE LInv'
  OBVIOUS
<1>1. JobsOK /\ MakesOnlyInit /\ LockIsUse
  BY DEF LInv
<1>2. CASE Find(t)
  <2>1. job[t].at = "find" /\ lock' = lock /\ (Return(t) \/ Goto(t, "take"))
    BY <1>2 DEF Find, At
  <2> QED
    BY <2>1, LInvGo DEF Outside
<1>3. CASE TakeLock(t)
  <2>1. /\ job[t].at = "take" /\ lock[job[t].win] = None
        /\ lock' = [lock EXCEPT ![job[t].win] = t]
        /\ Goto(t, "work") \/ Goto(t, "clean")
    BY <1>3 DEF TakeLock, At
  <2>2. /\ JobsOK' /\ Others(t) /\ job'[t].at \in {"work", "clean"}
        /\ job'[t].win = job[t].win /\ job'[t].does = job[t].does
    BY <1>1, <2>1, GotoMoves
  <2>3. job[t].does # "make"
    BY <1>1, <2>1 DEF MakesOnlyInit
  <2>4. \A w \in Window : ~Critical(t, w) /\ (Critical(t, w)' <=> w = job[t].win)
    BY <2>1, <2>2, <2>3 DEF Critical, Uses
  <2>5. \A u \in Thread \ {t}, w \in Window : Critical(u, w)' <=> Critical(u, w)
    BY <2>2 DEF Others, Critical, Uses
  <2>6. LocksOK' /\ \A w \in Window : lock'[w] = IF w = job[t].win THEN t ELSE lock[w]
    BY <2>1 DEF LInv, LocksOK
  <2>7. LockIsUse'
    BY <1>1, <2>1, <2>4, <2>5, <2>6, StreamAssumption DEF LockIsUse
  <2>8. MakesOnlyInit'
    BY <1>1, <2>2, <2>3 DEF MakesOnlyInit, Others
  <2> QED
    BY <2>2, <2>6, <2>7, <2>8 DEF LInv
<1>4. CASE Encode(t)
  <2>1. CASE Misuse(t)
    BY <2>1, LInvSame DEF Misuse
  <2>2. CASE Goto(t, "give") /\ lock' = lock
    BY <1>1, <1>4, <2>2, GotoMoves, LInvInside DEF Encode, At, Inside
  <2>3. ASSUME NEW n,
               job' = [job EXCEPT ![t].at = "nal",
                 ![t].nals = [k \in 1..n |-> [wid |-> job[t].win, nal |-> k, of |-> n]]],
               lock' = lock
        PROVE  LInv'
    BY <1>1, <1>4, <2>3, NalsMove, LInvInside DEF Encode, At, Inside
  <2> QED
    BY <1>4, <2>1, <2>2, <2>3 DEF Encode
<1>5. CASE QueueNal(t)
  BY <1>1, <1>5, GotoMoves, LInvInside DEF QueueNal, At, Inside
<1>6. CASE Ring(t)
  <2>1. /\ job[t].at = "ring" /\ lock' = lock
        /\ job' = [job EXCEPT ![t].at = IF Len(job[t].nals) = 1 THEN "give" ELSE "nal",
                              ![t].nals = Tail(job[t].nals)]
    BY <1>6 DEF Ring, Rung, At
  <2>2. /\ JobsOK' /\ Others(t) /\ job'[t].at \in {"give", "nal"}
        /\ job'[t].win = job[t].win /\ job'[t].does = job[t].does
    BY <1>1, <2>1, NalsMove
  <2> QED
    BY <2>1, <2>2, LInvInside DEF Inside
<1>7. CASE Clean(t)
  <2>1. CASE Misuse(t)
    BY <2>1, LInvSame DEF Misuse
  <2>2. CASE Goto(t, "init") /\ lock' = lock
    BY <1>1, <1>7, <2>2, GotoMoves, LInvInside DEF Clean, At, Inside
  <2> QED
    BY <1>7, <2>1, <2>2 DEF Clean
<1>8. CASE InitStream(t)
  <2>1. job[t].at = "init" /\ lock' = lock
    BY <1>8 DEF InitStream, At
  <2>2. CASE job[t].does = "make" /\ Return(t)
    <3>1. JobsOK' /\ Others(t) /\ job'[t].at = "done" /\ job'[t].does = "nothing"
      BY <1>1, <2>2, ReturnMoves
    <3>2. \A w \in Window : ~Critical(t, w) /\ ~Critical(t, w)'
      BY <2>2, <3>1 DEF Critical, Uses
    <3> QED
      BY <2>1, <3>1, <3>2, LInvMove
  <2>3. CASE job[t].does # "make" /\ Goto(t, "give")
    BY <1>1, <2>1, <2>3, GotoMoves, LInvInside DEF Inside
  <2> QED
    BY <1>8, <2>2, <2>3 DEF InitStream
<1>9. CASE GiveLock(t)
  <2>1. job[t].at = "give" /\ lock' = [lock EXCEPT ![job[t].win] = None] /\ Return(t)
    BY <1>9 DEF GiveLock, At
  <2>2. JobsOK' /\ Others(t) /\ job'[t].at = "done" /\ job'[t].does = "nothing"
    BY <1>1, <2>1, ReturnMoves
  <2>3. job[t].does # "make"
    BY <1>1, <2>1 DEF MakesOnlyInit
  <2>4. \A w \in Window : ~Critical(t, w)' /\ (Critical(t, w) <=> w = job[t].win)
    BY <2>1, <2>2, <2>3 DEF Critical, Uses
  <2>5. \A u \in Thread \ {t}, w \in Window : Critical(u, w)' <=> Critical(u, w)
    BY <2>2 DEF Others, Critical, Uses
  <2>6. LocksOK' /\ \A w \in Window : lock'[w] = IF w = job[t].win THEN None ELSE lock[w]
    BY <2>1 DEF LInv, LocksOK
  <2>7. LockIsUse'
    BY <1>1, <2>4, <2>5, <2>6, StreamAssumption DEF LockIsUse
  <2>8. MakesOnlyInit'
    BY <1>1, <2>2 DEF MakesOnlyInit, Others
  <2> QED
    BY <2>2, <2>6, <2>7, <2>8 DEF LInv
<1> QED
  BY <1>2, <1>3, <1>4, <1>5, <1>6, <1>7, <1>8, <1>9 DEF JobStep

LEMMA LInvStep == LInv /\ [StreamNext]_allvars => LInv'
<1> SUFFICES ASSUME LInv, [StreamNext]_allvars PROVE LInv'
  OBVIOUS
<1>1. CASE Stopped \/ UNCHANGED allvars
  BY <1>1, LInvSame DEF Stopped, allvars, svars
<1> QED
  BY <1>1, LInvXorg, LInvUv, LInvJob DEF StreamNext

-----------------------------------------------------------------------------
\* streamlock is held by the thread that works on a window's stream, and by
\* nobody when none does: remaking a stream and encoding with it never
\* overlap, and no way out of cip_window.c keeps the lock.
THEOREM LockCorrect == StreamSpec => []LockFollowsUse
<1>1. StreamInit => LInv
  BY LInvInit
<1>2. LInv /\ [StreamNext]_allvars => LInv'
  BY LInvStep
<1>3. LInv => LockFollowsUse
  BY DEF LInv, LockIsUse, LockFollowsUse
<1> QED
  BY <1>1, <1>2, <1>3, PTL DEF StreamSpec

\* A window's stream is never used by both threads at once.
THEOREM OneUser == StreamSpec => [](Running => \A w \in Window : ~(Critical("xorg", w) /\ Critical("uv", w)))
<1>1. LockFollowsUse => (Running => \A w \in Window : ~(Critical("xorg", w) /\ Critical("uv", w)))
  BY DEF LockFollowsUse, Thread
<1> QED
  BY <1>1, LockCorrect, PTL

-----------------------------------------------------------------------------
(* What is queued is heard of. *)

\* What a call of cip_window.c may do besides.
LEMMA JobFacts ==
  ASSUME LInv, NEW t \in Thread, JobStep(t)
  PROVE  /\ Others(t)
         /\ job[t].at \in {"find", "take", "work", "nal", "ring", "clean", "init", "give"}
         /\ job'[t].at \in {"done", "take", "work", "nal", "ring", "clean", "init", "give"}
         /\ UNCHANGED <<xvars, ev, xpc, windows, entry, uvpc>>
         /\ frames' = frames \/ job'[t].at = "ring"
         /\ asyncPending' \/ (asyncPending' = asyncPending /\ job[t].at # "ring")
<1> USE DEF vars, uvvars, xvars
<1>1. JobsOK
  BY DEF LInv
<1>2. CASE Find(t)
  <2>1. job[t].at = "find" /\ (Return(t) \/ Goto(t, "take"))
    BY <1>2 DEF Find, At
  <2>2. Others(t) /\ job'[t].at \in {"done", "take"}
    BY <1>1, <2>1, GotoMoves, ReturnMoves
  <2> QED
    BY <1>2, <2>1, <2>2 DEF Find
<1>3. CASE TakeLock(t)
  <2>1. job[t].at = "take" /\ (Goto(t, "work") \/ Goto(t, "clean"))
    BY <1>3 DEF TakeLock, At
  <2>2. Others(t) /\ job'[t].at \in {"work", "clean"}
    BY <1>1, <2>1, GotoMoves
  <2> QED
    BY <1>3, <2>1, <2>2 DEF TakeLock
<1>4. CASE Encode(t)
  <2>1. job[t].at = "work" /\ UNCHANGED <<vars, frames>>
    BY <1>4 DEF Encode, At, Misuse
  <2>2. Others(t) /\ job'[t].at \in {"work", "nal", "give"}
    <3>1. CASE Goto(t, "give")
      BY <1>1, <3>1, GotoMoves
    <3>2. ASSUME NEW n,
                 job' = [job EXCEPT ![t].at = "nal",
                   ![t].nals = [k \in 1..n |-> [wid |-> job[t].win, nal |-> k, of |-> n]]]
          PROVE  Others(t) /\ job'[t].at = "nal"
      BY <1>1, <3>2, NalsMove
    <3>3. CASE UNCHANGED job
      BY <2>1, <3>3 DEF Others
    <3> QED
      BY <1>4, <3>1, <3>2, <3>3 DEF Encode, Misuse
  <2> QED
    BY <2>1, <2>2
<1>5. CASE QueueNal(t)
  <2>1. job[t].at = "nal" /\ Goto(t, "ring")
    BY <1>5 DEF QueueNal, At
  <2>2. Others(t) /\ job'[t].at = "ring"
    BY <1>1, <2>1, GotoMoves
  <2> QED
    BY <1>5, <2>1, <2>2 DEF QueueNal
<1>6. CASE Ring(t)
  <2>1. /\ job[t].at = "ring"
        /\ job' = [job EXCEPT ![t].at = IF Len(job[t].nals) = 1 THEN "give" ELSE "nal",
                              ![t].nals = Tail(job[t].nals)]
    BY <1>6 DEF Ring, Rung, At
  <2>2. Others(t) /\ job'[t].at \in {"give", "nal"}
    BY <1>1, <2>1, NalsMove
  <2> QED
    BY <1>6, <2>1, <2>2 DEF Ring
<1>7. CASE Clean(t)
  <2>1. job[t].at = "clean" /\ UNCHANGED <<vars, frames>> /\ (Goto(t, "init") \/ UNCHANGED job)
    BY <1>7 DEF Clean, At, Misuse
  <2>2. Others(t) /\ job'[t].at \in {"clean", "init"}
    BY <1>1, <2>1, GotoMoves DEF Others
  <2> QED
    BY <2>1, <2>2
<1>8. CASE InitStream(t)
  <2>1. job[t].at = "init" /\ UNCHANGED <<vars, frames>> /\ (Return(t) \/ Goto(t, "give"))
    BY <1>8 DEF InitStream, At
  <2>2. Others(t) /\ job'[t].at \in {"done", "give"}
    BY <1>1, <2>1, GotoMoves, ReturnMoves
  <2> QED
    BY <2>1, <2>2
<1>9. CASE GiveLock(t)
  <2>1. job[t].at = "give" /\ UNCHANGED <<vars, frames>> /\ Return(t)
    BY <1>9 DEF GiveLock, At
  <2>2. Others(t) /\ job'[t].at = "done"
    BY <1>1, <2>1, ReturnMoves
  <2> QED
    BY <2>1, <2>2
<1> QED
  BY <1>2, <1>3, <1>4, <1>5, <1>6, <1>7, <1>8, <1>9 DEF JobStep

FramesHeard ==
  frames # <<>> /\ uvpc # "drain" => asyncPending \/ \E t \in Thread : job[t].at = "ring"

\* What the handlers of the xorg thread do to jobs.
LEMMA XorgJobs ==
  ASSUME LInv, XTakes \/ XGoesOn
  PROVE  /\ Idle("xorg") /\ job'["uv"].at = job["uv"].at
         /\ job'["uv"] = job["uv"] \/ (DestroyStream /\ job'["uv"].win = Freed)
<1> USE DEF Thread
<1>1. JobsOK /\ Idle("xorg")
  BY DEF LInv, XTakes, XGoesOn
<1>2. ASSUME NEW does, NEW at, NEW win, Start("xorg", does, at, win, None)
      PROVE  job'["uv"] = job["uv"]
  BY <1>1, <1>2, StartMoves DEF Others
<1>3. CASE DestroyStream
  <2>1. UNCHANGED job \/ job' = [job EXCEPT !["uv"].win = Freed]
    BY <1>3 DEF DestroyStream
  <2>2. CASE job' = [job EXCEPT !["uv"].win = Freed]
    <3>1. IsJob(job["uv"]) /\ job'["uv"] = [job["uv"] EXCEPT !.win = Freed]
      BY <1>1, <2>2 DEF JobsOK
    <3>2. job'["uv"] = [does |-> job["uv"].does, at |-> job["uv"].at, win |-> Freed,
                        arg |-> job["uv"].arg, nals |-> job["uv"].nals]
      BY <3>1 DEF IsJob
    <3> QED
      BY <1>1, <1>3, <3>2
  <2> QED
    BY <1>1, <2>1, <2>2
<1> QED
  BY <1>1, <1>2, <1>3 DEF XTakes, XGoesOn, Plain, svars, XApply, Damage, CreateStream, ResizeStream

\* What the handlers of the uv thread do to jobs.
LEMMA UvJobs ==
  ASSUME LInv, Input \/ UvGoesOn \/ Wake
  PROVE  Others("uv") /\ (UNCHANGED job \/ job["uv"].at \in {"done", "seek", "store", "tell", "spin"})
<1> USE DEF Thread
<1>1. JobsOK
  BY DEF LInv
<1>2. CASE UNCHANGED job
  BY <1>2 DEF Others
<1>3. ASSUME NEW does, NEW at, NEW win, NEW arg, Start("uv", does, at, win, arg)
      PROVE  Others("uv")
  BY <1>1, <1>3, StartMoves
<1>4. ASSUME Return("uv") \/ \E p : Goto("uv", p)
      PROVE  Others("uv")
  BY <1>1, <1>4, ReturnMoves, GotoMoves
<1>5. CASE Input
  BY <1>2, <1>3, <1>5 DEF Input, InputShowReady, InputMove, InputResize, ConnectDisplay, AtLoop,
                          Idle, NoJob, svars
<1>6. CASE Seek \/ StoreGeometry \/ TellX \/ Spin
  BY <1>3, <1>4, <1>6 DEF Seek, StoreGeometry, TellX, Spin
<1>7. CASE GreetOne
  BY <1>2, <1>3, <1>7 DEF GreetOne, Idle, NoJob
<1> QED
  BY <1>2, <1>5, <1>6, <1>7 DEF UvGoesOn, Wake, Plain, svars, EmitFrame, GreetNext, UvFault

LEMMA HeardStep == LInv /\ FramesHeard /\ [StreamNext]_allvars => FramesHeard'
<1> SUFFICES ASSUME LInv, FramesHeard, [StreamNext]_allvars PROVE FramesHeard'
  OBVIOUS
<1> USE DEF FramesHeard
<1>1. CASE Stopped \/ UNCHANGED allvars
  BY <1>1 DEF Stopped, allvars, svars, vars, uvvars
<1>2. CASE XTakes \/ XGoesOn
  <2>1. \A t \in Thread : job[t].at = "ring" => job'[t].at = "ring"
    BY <1>2, XorgJobs DEF Idle, NoJob, Thread
  <2>2. UNCHANGED <<frames, uvpc>> /\ (asyncPending' = asyncPending \/ asyncPending')
    <3>1. CASE XTakes
      BY <3>1 DEF XTakes, Plain, svars, XApply, Damage, XEvent, XCreate, XDestroy, XMap, XUnmap,
                  XConfigure, Take, vars, uvvars
    <3>2. CASE XGoesOn
      BY <3>2 DEF XGoesOn, Plain, svars, CreateStream, DestroyStream, ResizeStream, CreateLink,
                  CreateInit, DestroyUnlink, MapViewable, Enqueue, ConfigureMove,
                  ConfigureResize, AsyncSend, uvvars
    <3> QED
      BY <1>2, <3>1, <3>2
  <2> QED
    BY <2>1, <2>2
<1>3. CASE Input \/ UvGoesOn \/ Wake
  <2>1. \A t \in Thread : job[t].at = "ring" => job'[t].at = "ring"
    BY <1>3, UvJobs DEF Others, Thread
  <2>2. CASE Wake \/ Plain(EmitNext) \/ EmitFrame
    BY <2>2 DEF Wake, Plain, EmitBegin, EmitNext, EmitFrame, AtUv, vars, uvvars
  <2>3. CASE frames = <<>> /\ Plain(EmitEnd)
    BY <2>3 DEF Plain, svars
  <2>4. CASE Input \/ Seek \/ StoreGeometry \/ TellX \/ Spin \/ GreetOne \/ GreetNext \/ UvFault
    <3>1. UNCHANGED <<frames, asyncPending>> /\ (uvpc' = uvpc \/ uvpc # "drain")
      BY <2>4 DEF Input, InputShowReady, InputMove, InputResize, ConnectDisplay, AtLoop, AtUv, Seek,
                  StoreGeometry, TellX, Spin, GreetOne, GreetNext, UvFault, vars, svars, uvvars
    <3> QED
      BY <2>1, <3>1
  <2> QED
    BY <1>3, <2>2, <2>3, <2>4 DEF UvGoesOn
<1>4. ASSUME NEW t \in Thread, JobStep(t) PROVE FramesHeard'
  BY <1>4, JobFacts DEF Others
<1> QED
  BY <1>1, <1>2, <1>3, <1>4 DEF StreamNext

\* No frame waits in the queue of an idle uv thread without a wake-up: the
\* sends that libuv merges, and those the uv thread makes itself, are enough.
THEOREM FrameWakeup == StreamSpec => []NoLostFrame
<1>1. StreamInit => LInv /\ FramesHeard
  BY LInvInit DEF StreamInit, FramesHeard
<1>2. LInv /\ FramesHeard /\ [StreamNext]_allvars => (LInv /\ FramesHeard)'
  BY LInvStep, HeardStep
<1>3. FramesHeard => NoLostFrame
  BY DEF FramesHeard, NoLostFrame
<1> QED
  BY <1>1, <1>2, <1>3, PTL DEF StreamSpec

-----------------------------------------------------------------------------
(* SHOW_READY does not spin in vain. *)

IsStream(r) == r = [even |-> r.even, pic |-> r.pic, encoder |-> r.encoder, made |-> r.made,
                    ready |-> r.ready]

StreamsOK == stream = [w \in Window |-> stream[w]] /\ \A w \in Window : IsStream(stream[w])

\* The list has windows of the X server, but for the one being destroyed.
ListOK ==
  /\ windows \subseteq Window /\ xlive \subseteq Window
  /\ \A w \in windows : w \in xlive \/ (xpc = "unlink" /\ ev.wid = w)
  /\ xpc = "link" => ev.wid \in xlive \ windows
  /\ xpc \in {"init", "move", "resize"} => ev.wid \in windows

\* A node is raw until CREATE_NOTIFY assigned its fields.
RawOK ==
  /\ entry = [w \in Window |-> entry[w]]
  /\ \A w \in Window \ windows : Raw(w)
  /\ xpc = "init" => Raw(ev.wid)

Making(w) == job["xorg"].does = "make" /\ job["xorg"].win = w
Linked(w) == xpc = "init" /\ ev.wid = w

\* A stream that is not ready is about to be made by the xorg thread.
MakerOK == \A w \in windows : stream[w].ready \/ Linked(w) \/ Making(w)

\* The uv thread found its window when the node was no longer raw.
FoundOK ==
  job["uv"].at \in {"store", "spin"} =>
    job["uv"].win = Freed \/ (job["uv"].win \in windows /\ ~Linked(job["uv"].win))

MInv == ListOK /\ RawOK /\ StreamsOK /\ MakerOK /\ FoundOK

LEMMA MInvInit == StreamInit => MInv
<1> SUFFICES ASSUME StreamInit PROVE MInv
  OBVIOUS
<1>1. ListOK /\ RawOK /\ MakerOK
  BY ConstantsAssumption DEF StreamInit, Init, ListOK, RawOK, MakerOK, Raw
<1>2. StreamsOK
  BY DEF StreamInit, StreamsOK, IsStream, Wild
<1>3. FoundOK
  BY DEF StreamInit, FoundOK, NoJob, Thread
<1> QED
  BY <1>1, <1>2, <1>3 DEF MInv

\* Assigning other fields of a stream keeps stream_ready.
LEMMA EvenSet ==
  ASSUME NEW r, IsStream(r), NEW e, NEW s, s = [r EXCEPT !.even = e]
  PROVE  IsStream(s) /\ s.ready = r.ready
<1>1. s = [even |-> e, pic |-> r.pic, encoder |-> r.encoder, made |-> r.made, ready |-> r.ready]
  BY DEF IsStream
<1> QED
  BY <1>1 DEF IsStream

LEMMA ReadySet ==
  ASSUME NEW r, IsStream(r), NEW b, NEW s, s = [r EXCEPT !.ready = b]
  PROVE  IsStream(s) /\ s.ready = b
<1>1. s = [even |-> r.even, pic |-> r.pic, encoder |-> r.encoder, made |-> r.made, ready |-> b]
  BY DEF IsStream
<1> QED
  BY <1>1 DEF IsStream

LEMMA InitialisedKeeps ==
  ASSUME StreamsOK, NEW w \in Window
  PROVE  IsStream(Initialised(w)) /\ Initialised(w).ready = stream[w].ready
<1> DEFINE e == Even(entry[w].size)
<1>1. IsStream(stream[w])
  BY DEF StreamsOK
<1>2. \/ Initialised(w) = [stream[w] EXCEPT !.even = e]
      \/ Initialised(w) = [stream[w] EXCEPT !.even = e, !.pic = "clean", !.encoder = "null", !.made = None]
      \/ Initialised(w) = [stream[w] EXCEPT !.even = e, !.pic = "made", !.encoder = "open", !.made = e]
  BY DEF Initialised
<1> HIDE DEF e
<1>3. CASE Initialised(w) = [stream[w] EXCEPT !.even = e]
  BY <1>1, <1>3, EvenSet
<1>4. CASE Initialised(w) = [stream[w] EXCEPT !.even = e, !.pic = "clean", !.encoder = "null", !.made = None]
  <2>1. Initialised(w) = [even |-> e, pic |-> "clean", encoder |-> "null", made |-> None,
                          ready |-> stream[w].ready]
    BY <1>1, <1>4 DEF IsStream
  <2> QED
    BY <2>1 DEF IsStream
<1>5. CASE Initialised(w) = [stream[w] EXCEPT !.even = e, !.pic = "made", !.encoder = "open", !.made = e]
  <2>1. Initialised(w) = [even |-> e, pic |-> "made", encoder |-> "open", made |-> e,
                          ready |-> stream[w].ready]
    BY <1>1, <1>5 DEF IsStream
  <2> QED
    BY <2>1 DEF IsStream
<1> QED
  BY <1>2, <1>3, <1>4, <1>5

\* What a call of cip_window.c does to the streams.
LEMMA JobStreams ==
  ASSUME LInv, StreamsOK, windows \subseteq Window, NEW t \in Thread, JobStep(t)
  PROVE  /\ StreamsOK'
         /\ \A w \in windows : stream[w].ready => stream'[w].ready
         /\ t = "xorg" => \A w \in windows : Making(w) => stream'[w].ready
<1>1. MakesOnlyInit
  BY DEF LInv
<1>2. CASE UNCHANGED stream /\ job[t].at # "init"
  BY <1>1, <1>2 DEF StreamsOK, Making, MakesOnlyInit
<1>3. ASSUME job[t].at = "clean",
             stream' = [stream EXCEPT ![job[t].win].pic = "clean", ![job[t].win].encoder = "closed",
                                      ![job[t].win].made = None]
      PROVE  StreamsOK' /\ \A w \in Window : stream'[w].ready = stream[w].ready
  <2>1. CASE job[t].win \notin Window
    BY <1>3, <2>1 DEF StreamsOK
  <2>2. CASE job[t].win \in Window
    <3>1. IsStream(stream[job[t].win])
      BY <2>2, SMTT(30) DEF StreamsOK
    <3>2. /\ stream' = [w \in Window |-> stream'[w]]
          /\ \A w \in Window \ {job[t].win} : stream'[w] = stream[w]
          /\ stream'[job[t].win] =
               [stream[job[t].win] EXCEPT !.pic = "clean", !.encoder = "closed", !.made = None]
      BY <1>3, <2>2, ZenonT(30) DEF StreamsOK
    <3>3. IsStream(stream'[job[t].win]) /\ stream'[job[t].win].ready = stream[job[t].win].ready
      <4>1. stream'[job[t].win] =
              [even |-> stream[job[t].win].even, pic |-> "clean", encoder |-> "closed", made |-> None,
               ready |-> stream[job[t].win].ready]
        BY <3>1, <3>2 DEF IsStream
      <4> QED
        BY <4>1 DEF IsStream
    <3> QED
      BY <3>2, <3>3 DEF StreamsOK
  <2> QED
    BY <2>1, <2>2, SMTT(30)
<1>4. CASE Clean(t)
  BY <1>1, <1>2, <1>3, <1>4 DEF Clean, Misuse, At, Making, MakesOnlyInit
<1>5. CASE InitStream(t)
  <2> DEFINE w == job[t].win
  <2>1. CASE w \notin Window
    BY <1>5, <2>1 DEF InitStream, StreamsOK, Making
  <2>2. CASE w \in Window
    <3>1. IsStream(Initialised(w)) /\ Initialised(w).ready = stream[w].ready
      BY <2>2, InitialisedKeeps
    <3>2. /\ IsStream([Initialised(w) EXCEPT !.ready = TRUE])
          /\ [Initialised(w) EXCEPT !.ready = TRUE].ready = TRUE
      BY <3>1, ReadySet
    <3>3. /\ stream' = [v \in Window |-> stream'[v]]
          /\ \A v \in Window \ {w} : stream'[v] = stream[v]
          /\ stream'[w] = IF job[t].does = "make" THEN [Initialised(w) EXCEPT !.ready = TRUE]
                                                  ELSE Initialised(w)
      BY <1>5, <2>2 DEF InitStream, StreamsOK
    <3> QED
      BY <2>2, <3>1, <3>2, <3>3 DEF StreamsOK, Making
  <2> QED
    BY <2>1, <2>2
<1> QED
  BY <1>2, <1>4, <1>5 DEF JobStep, Find, TakeLock, Encode, Misuse, QueueNal, Ring, GiveLock, At

LEMMA MInvXorg == LInv /\ MInv /\ (XTakes \/ XGoesOn) => MInv'
<1> SUFFICES ASSUME LInv, MInv, XTakes \/ XGoesOn PROVE MInv'
  OBVIOUS
<1> USE DEF Raw, Linked, Making
<1>1. /\ Idle("xorg") /\ job'["uv"].at = job["uv"].at
      /\ job'["uv"] = job["uv"] \/ (DestroyStream /\ job'["uv"].win = Freed)
  BY XorgJobs
<1>2. Freed \notin Window /\ job["xorg"].does = "nothing"
  BY <1>1, ConstantsAssumption DEF Idle, NoJob
<1>3. CASE XTakes
  <2>1. /\ UNCHANGED <<windows, entry, stream>> /\ xpc = "wait"
        /\ xpc' \in {"wait", "link", "unlink", "viewable", "queue"}
        /\ \/ xlive' = xlive /\ xpc' # "link"
           \/ \E w \in Window \ xlive : xlive' = xlive \union {w} /\ ev'.wid = w /\ xpc' = "link"
           \/ \E w \in xlive : xlive' = xlive \ {w} /\ ev'.wid = w /\ xpc' = "unlink"
    BY <1>3 DEF XTakes, Plain, svars, XApply, Damage, AtX, XEvent, XCreate, XDestroy, XMap, XUnmap,
                XConfigure, Take, vars, xvars
  <2>2. ListOK'
    BY <2>1 DEF MInv, ListOK
  <2>3. RawOK' /\ StreamsOK' /\ MakerOK'
    BY <1>2, <2>1 DEF MInv, RawOK, StreamsOK, MakerOK
  <2>4. ~DestroyStream
    BY <2>1 DEF DestroyStream, DestroyUnlink, AtX
  <2> QED
    BY <1>1, <2>1, <2>2, <2>3, <2>4 DEF MInv, FoundOK
<1>4. CASE CreateStream
  <2>1. /\ xpc = "init" /\ xpc' = "queue" /\ UNCHANGED <<windows, xlive, ev, stream>>
        /\ \E e : entry' = [entry EXCEPT ![ev.wid] = e]
        /\ Start("xorg", "make", "init", ev.wid, None)
    BY <1>4 DEF CreateStream, CreateInit, AtX, xvars
  <2>2. job' = [job EXCEPT !["xorg"] = [does |-> "make", at |-> "init", win |-> ev.wid,
                                       arg |-> None, nals |-> <<>>]]
    BY <2>1 DEF Start
  <2>3. job'["xorg"].does = "make" /\ job'["xorg"].win = ev.wid
    BY <2>2 DEF LInv, JobsOK, Thread
  <2>4. ListOK' /\ StreamsOK'
    BY <2>1 DEF MInv, ListOK, StreamsOK
  <2>5. RawOK'
    BY <2>1 DEF MInv, RawOK, ListOK
  <2>6. MakerOK'
    BY <1>2, <2>1, <2>3 DEF MInv, MakerOK
  <2>7. ~DestroyStream
    BY <2>1 DEF DestroyStream, DestroyUnlink, AtX
  <2> QED
    BY <1>1, <2>1, <2>4, <2>5, <2>6, <2>7 DEF MInv, FoundOK
<1>5. CASE DestroyStream
  <2>1. /\ xpc = "unlink" /\ xpc' = "queue" /\ UNCHANGED <<xlive, ev>>
        /\ windows' = windows \ {ev.wid} /\ entry' = [entry EXCEPT ![ev.wid] = Unset]
        /\ stream' = [stream EXCEPT ![ev.wid] = Wild]
        /\ \/ job["uv"].at \in {"seek", "find"} \/ job["uv"].win # ev.wid
           \/ job'["uv"].win = Freed
    <3>1. ASSUME job["uv"].win = ev.wid, job["uv"].at \notin {"seek", "find"}
          PROVE  job'["uv"].win = Freed
      <4>1. job' = [job EXCEPT !["uv"].win = Freed]
        BY <1>5, <3>1 DEF DestroyStream
      <4>2. job'["uv"] = [job["uv"] EXCEPT !.win = Freed] /\ IsJob(job["uv"])
        BY <4>1 DEF LInv, JobsOK, Thread
      <4>3. job'["uv"] = [does |-> job["uv"].does, at |-> job["uv"].at, win |-> Freed,
                          arg |-> job["uv"].arg, nals |-> job["uv"].nals]
        BY <4>2 DEF IsJob
      <4> QED
        BY <4>3
    <3> QED
      BY <1>1, <1>5, <3>1 DEF DestroyStream, DestroyUnlink, AtX, xvars
  <2>2. ListOK'
    BY <2>1 DEF MInv, ListOK
  <2>3. RawOK'
    BY <2>1 DEF MInv, RawOK
  <2>4. StreamsOK' /\ \A w \in Window \ {ev.wid} : stream'[w] = stream[w]
    BY <2>1 DEF MInv, StreamsOK, IsStream, Wild
  <2>5. MakerOK'
    BY <1>2, <2>1, <2>4 DEF MInv, MakerOK, ListOK
  <2>6. FoundOK'
    BY <1>1, <2>1 DEF MInv, FoundOK
  <2> QED
    BY <2>2, <2>3, <2>4, <2>5, <2>6 DEF MInv
<1>6. CASE Plain(CreateLink)
  <2>1. /\ xpc = "link" /\ xpc' = "init" /\ UNCHANGED <<xlive, ev, entry, stream>>
        /\ windows' = windows \union {ev.wid}
    BY <1>6 DEF Plain, CreateLink, AtX, xvars, svars
  <2>2. ListOK' /\ RawOK' /\ StreamsOK' /\ MakerOK'
    BY <1>2, <2>1 DEF MInv, ListOK, RawOK, StreamsOK, MakerOK
  <2>3. job' = job
    BY <1>6 DEF Plain, svars
  <2> QED
    BY <2>1, <2>2, <2>3 DEF MInv, FoundOK, ListOK
<1>7. CASE ResizeStream \/ Plain(MapViewable \/ Enqueue \/ ConfigureMove \/ AsyncSend)
  <2>1. /\ xpc \in {"viewable", "queue", "move", "resize", "async"}
        /\ xpc' \in {"queue", "move", "resize", "async", "wait"}
        /\ xpc' \in {"move", "resize"} => ev.wid \in windows /\ ev' = ev
        /\ UNCHANGED <<xlive, windows, stream>>
    BY <1>7 DEF MInv, ListOK, ResizeStream, ConfigureResize, Plain, MapViewable, Enqueue, ConfigureMove,
                AsyncSend, AtX, xvars, svars
  <2>2. entry' = entry \/ (ev.wid \in windows /\ \E e : entry' = [entry EXCEPT ![ev.wid] = e])
    BY <1>7 DEF MInv, ListOK, ResizeStream, ConfigureResize, Plain, MapViewable, Enqueue, ConfigureMove,
                AsyncSend, AtX
  <2>3. ListOK' /\ StreamsOK' /\ MakerOK'
    BY <1>2, <2>1 DEF MInv, ListOK, StreamsOK, MakerOK
  <2>4. RawOK'
    BY <2>1, <2>2 DEF MInv, RawOK, ListOK
  <2>5. ~DestroyStream
    BY <2>1 DEF DestroyStream, DestroyUnlink, AtX
  <2> QED
    BY <1>1, <2>1, <2>3, <2>4, <2>5 DEF MInv, FoundOK
<1> QED
  BY <1>3, <1>4, <1>5, <1>6, <1>7 DEF XGoesOn, Plain

LEMMA MInvJob == \A t \in Thread : LInv /\ MInv /\ JobStep(t) => MInv'
<1> SUFFICES ASSUME NEW t \in Thread, LInv, MInv, JobStep(t) PROVE MInv'
  OBVIOUS
<1> USE DEF Linked, Making, Thread
<1>1. /\ Others(t) /\ UNCHANGED <<xvars, ev, xpc, windows, entry>>
      /\ job'[t].at \notin {"store", "spin"}
  BY JobFacts
<1>2. /\ StreamsOK' /\ \A w \in windows : stream[w].ready => stream'[w].ready
      /\ t = "xorg" => \A w \in windows : Making(w) => stream'[w].ready
  BY JobStreams DEF MInv, ListOK
<1>3. ListOK' /\ RawOK'
  BY <1>1 DEF MInv, ListOK, RawOK, Raw, xvars
<1>4. MakerOK'
  BY <1>1, <1>2 DEF MInv, MakerOK, Others
<1>5. FoundOK'
  BY <1>1 DEF MInv, FoundOK, Others
<1> QED
  BY <1>2, <1>3, <1>4, <1>5 DEF MInv

LEMMA MInvUv == LInv /\ MInv /\ (Input \/ UvGoesOn \/ Wake) => MInv'
<1> SUFFICES ASSUME LInv, MInv, Input \/ UvGoesOn \/ Wake PROVE MInv'
  OBVIOUS
<1> USE DEF Raw, Linked, Making, Thread
<1>1. Others("uv")
  BY UvJobs
<1>2. UNCHANGED <<xlive, ev, xpc, windows, stream>>
  BY DEF Input, InputShowReady, InputMove, InputResize, ConnectDisplay, UvGoesOn, Wake, Plain, svars,
         EmitNext, EmitFrame, EmitEnd, EmitBegin, Seek, StoreGeometry, TellX, Spin, GreetOne, GreetNext,
         UvFault, vars, xvars
<1>3. ListOK' /\ StreamsOK' /\ MakerOK'
  BY <1>1, <1>2 DEF MInv, ListOK, StreamsOK, MakerOK, Others
<1>4. CASE entry' = entry /\ (UNCHANGED job \/ job'["uv"].at \notin {"store", "spin"})
  BY <1>2, <1>3, <1>4 DEF MInv, RawOK, FoundOK
<1>5. CASE Seek
  <2>1. /\ entry' = entry /\ ~MeetsRaw
        /\ Return("uv") \/ (job["uv"].win \in windows /\ \E p : Goto("uv", p))
    BY <1>5 DEF Seek, vars
  <2>2. CASE Return("uv")
    <3>1. job'["uv"].at = "done"
      BY <2>2, ReturnMoves DEF LInv
    <3> QED
      BY <1>4, <2>1, <3>1
  <2>3. ASSUME job["uv"].win \in windows, NEW p, Goto("uv", p) PROVE MInv'
    <3>1. job'["uv"].win = job["uv"].win
      BY <2>3, GotoMoves DEF LInv
    <3>2. ~Linked(job["uv"].win)
      BY <2>1, <2>3 DEF MeetsRaw, MInv, RawOK
    <3>3. FoundOK'
      BY <1>2, <2>3, <3>1, <3>2 DEF FoundOK
    <3> QED
      BY <1>2, <1>3, <2>1, <3>3 DEF MInv, RawOK
  <2> QED
    BY <2>1, <2>2, <2>3
<1>6. CASE StoreGeometry
  <2>1. /\ job["uv"].at = "store" /\ job["uv"].win # Freed /\ Goto("uv", "tell")
        /\ \E e : entry' = [entry EXCEPT ![job["uv"].win] = e]
    BY <1>6 DEF StoreGeometry
  <2>2. job["uv"].win \in windows /\ ~Linked(job["uv"].win)
    BY <2>1 DEF MInv, FoundOK
  <2>3. job'["uv"].at = "tell"
    BY <2>1, GotoMoves DEF LInv
  <2>4. RawOK'
    BY <1>2, <2>1, <2>2 DEF MInv, RawOK, ListOK
  <2> QED
    BY <1>3, <2>3, <2>4 DEF MInv, FoundOK
<1>7. CASE Input \/ TellX \/ Spin \/ GreetOne
  <2>1. /\ entry' = entry
        /\ \/ UNCHANGED job
           \/ Return("uv")
           \/ \E does, at, win, arg : at \notin {"store", "spin"} /\ Start("uv", does, at, win, arg)
    BY <1>7 DEF Input, InputShowReady, InputMove, InputResize, ConnectDisplay, TellX, Spin, GreetOne,
                vars, svars
  <2>2. UNCHANGED job \/ job'["uv"].at \notin {"store", "spin"}
    BY <2>1, StartMoves, ReturnMoves DEF LInv
  <2> QED
    BY <1>4, <2>1, <2>2
<1> QED
  BY <1>4, <1>5, <1>6, <1>7 DEF UvGoesOn, Wake, Plain, svars, EmitNext, EmitFrame, EmitEnd, EmitBegin,
                               GreetNext, UvFault, vars

\* SHOW_READY spins on a window only while the xorg thread is making that
\* very window's stream: the thread it waits for never waits for it.
THEOREM SpinMaker == StreamSpec => []SpinHasMaker
<1>1. StreamInit => LInv /\ MInv
  BY LInvInit, MInvInit
<1>2. LInv /\ MInv /\ [StreamNext]_allvars => (LInv /\ MInv)'
  <2>1. CASE UNCHANGED allvars
    BY <2>1, LInvStep DEF allvars, vars, xvars, svars, MInv, ListOK, RawOK, Raw, StreamsOK, MakerOK, Making, Linked, FoundOK
  <2> QED
    BY <2>1, LInvStep, MInvXorg, MInvUv, MInvJob DEF StreamNext, Stopped
<1>3. MInv => SpinHasMaker
  BY ConstantsAssumption DEF MInv, FoundOK, MakerOK, Making, Linked, SpinHasMaker
<1> QED
  BY <1>1, <1>2, <1>3, PTL DEF StreamSpec

-----------------------------------------------------------------------------
(* Streams, requests and frames: the parts of their invariant, beside LInv and MInv. *)

\* What a job does, and where it can be.
ShapeOK ==
  \A t \in Thread :
    \/ job[t].does = "nothing" /\ job[t].at = "done"
    \/ job[t].does = "make" /\ job[t].at = "init" /\ t = "xorg"
    \/ job[t].does = "reset" /\ job[t].at \in {"take", "clean", "init", "give"}
    \/ job[t].does = "frame" /\ job[t].at \in {"find", "take", "work", "nal", "ring", "give"}
    \/ job[t].does \in {"move", "resize"} /\ job[t].at \in {"seek", "store", "tell"} /\ t = "uv"
    \/ job[t].does = "ready" /\ job[t].at \in {"seek", "spin"} /\ t = "uv"

\* A job that has searched has found; the node may be freed under the uv
\* thread, and was not raw when it was found.
Found(t) == job[t].at \notin {"done", "seek", "find"}
HeldOK ==
  /\ Found("xorg") => job["xorg"].win \in windows
  /\ Found("uv") => job["uv"].win = Freed \/ (job["uv"].win \in windows /\ ~Linked(job["uv"].win))
  /\ job["xorg"].does # "nothing" => xpc \in {"wait", "queue", "async"}

\* A window that is not in the list, or is raw, has no stream and no history.
GoneOK ==
  /\ spoilt \subseteq windows
  /\ \A w \in Window : w \notin windows \/ Linked(w) => ~stream[w].ready

Remaking(w) == \E t \in Thread : job[t].win = w /\ job[t].does = "reset" /\ job[t].at = "init"
MadeOK == \A w \in windows : stream[w].ready /\ w \notin spoilt => Usable(w) \/ Remaking(w)

\* Who changed the size of w has yet to remake the stream.
Changed(t, w) ==
  /\ job[t].win = w
  /\ \/ job[t].does = "resize" /\ job[t].at = "tell"
     \/ job[t].does = "reset" /\ job[t].at # "give"
SizeOK ==
  \A w \in windows :
    stream[w].ready => stream[w].even = Even(entry[w].size) \/ \E t \in Thread : Changed(t, w)

\* Geometry has the values it can have, on its way as in its places.
Ask == [wid : Window, field : {"pos"}, value : Pos] \cup [wid : Window, field : {"size"}, value : Size]
GeomOK ==
  /\ xgeom \in [Window -> Geom \cup {NoGeom}]
  /\ \A w \in xlive : xgeom[w] \in Geom
  /\ entry \in [Window -> Entry]
  /\ \A w \in windows : Linked(w) \/ (entry[w].pos \in Pos /\ entry[w].size \in Size)
  /\ job["uv"].does = "move" => job["uv"].arg \in Pos
  /\ job["uv"].does = "resize" => job["uv"].arg \in Size
  /\ xinput \in Seq(Ask)

FInv == ShapeOK /\ HeldOK /\ GoneOK /\ MadeOK /\ SizeOK

LEMMA FInvInit == StreamInit => FInv
<1> SUFFICES ASSUME StreamInit PROVE FInv
  OBVIOUS
<1>1. \A t \in Thread : job[t].does = "nothing" /\ job[t].at = "done"
  BY DEF StreamInit, NoJob
<1>2. ShapeOK /\ HeldOK
  BY <1>1 DEF ShapeOK, HeldOK, Found, Thread
<1>3. GoneOK /\ MadeOK /\ SizeOK
  BY DEF StreamInit, Init, GoneOK, MadeOK, SizeOK, Wild
<1> QED
  BY <1>2, <1>3 DEF FInv

-----------------------------------------------------------------------------
(* Steps by what they do to jobs and streams. *)

\* What starting a job does.
LEMMA StartsAs ==
  ASSUME JobsOK, NEW t \in Thread, NEW does, NEW at, NEW win, NEW arg, Start(t, does, at, win, arg)
  PROVE  /\ Others(t) /\ job'[t].at = at /\ job'[t].does = does /\ job'[t].win = win
         /\ job'[t].arg = arg
<1>1. /\ job'[t] = [does |-> does, at |-> at, win |-> win, arg |-> arg, nals |-> <<>>]
      /\ \A u \in Thread \ {t} : job'[u] = job[u]
  BY DEF Start, JobsOK
<1> QED
  BY <1>1 DEF Others

\* A step that changes neither streams nor the list, and after which
\* whoever was to remake a stream still is.
LEMMA FInvKeep ==
  ASSUME FInv, ShapeOK', HeldOK', UNCHANGED <<windows, stream, spoilt>>,
         \A w \in Window : Linked(w)' => Linked(w) \/ ~stream[w].ready,
         \A w \in windows : Remaking(w) => Remaking(w)',
         \A w \in windows, t \in Thread : Changed(t, w) => Changed(t, w)',
         \A w \in windows : entry'[w].size = entry[w].size \/ ~stream[w].ready
                              \/ (\E t \in Thread : Changed(t, w)')
  PROVE  FInv'
<1>1. GoneOK' /\ SizeOK'
  BY DEF FInv, GoneOK, SizeOK
<1>2. MadeOK'
  BY DEF FInv, MadeOK, Usable
<1> QED
  BY <1>1, <1>2 DEF FInv

\* A call of cip_window.c that does not touch the stream.
LEMMA FInvCall ==
  ASSUME LInv, MInv, FInv, NEW t \in Thread,
         Find(t) \/ TakeLock(t) \/ Encode(t) \/ QueueNal(t) \/ Ring(t) \/ GiveLock(t)
  PROVE  FInv'
<1> USE DEF Thread, Linked, vars, xvars
<1>1. JobsOK
  BY DEF LInv
<1>2. UNCHANGED <<windows, entry, xpc, ev, stream, spoilt>> /\ Others(t)
  BY JobFacts DEF JobStep, Find, TakeLock, Encode, QueueNal, Ring, GiveLock, Misuse
<1>3. \/ UNCHANGED job
      \/ job[t].at \in {"find", "give"} /\ job'[t].at = "done" /\ job'[t].does = "nothing"
      \/ /\ job'[t].win = job[t].win /\ job'[t].does = job[t].does
         /\ \/ /\ job[t].at = "find" /\ job'[t].at = "take" /\ job[t].win \in windows
               /\ t = "uv" => ~MeetsRaw
            \/ /\ job[t].at = "take"
               /\ job'[t].at = IF job[t].does = "frame" THEN "work" ELSE "clean"
            \/ job[t].at = "work" /\ job'[t].at \in {"nal", "give"}
            \/ job[t].at = "nal" /\ job'[t].at = "ring"
            \/ job[t].at = "ring" /\ job'[t].at \in {"nal", "give"}
  <2>1. CASE Find(t)
    BY <1>1, <2>1, GotoMoves, ReturnMoves DEF Find, At
  <2>2. CASE TakeLock(t)
    BY <1>1, <2>2, GotoMoves DEF TakeLock, At
  <2>3. CASE Encode(t)
    <3>1. CASE Goto(t, "give")
      BY <1>1, <2>3, <3>1, GotoMoves DEF Encode, At
    <3>2. ASSUME NEW n,
                 job' = [job EXCEPT ![t].at = "nal",
                   ![t].nals = [k \in 1..n |-> [wid |-> job[t].win, nal |-> k, of |-> n]]]
          PROVE  job'[t].at = "nal" /\ job'[t].win = job[t].win /\ job'[t].does = job[t].does
      BY <1>1, <3>2, NalsMove
    <3> QED
      BY <2>3, <3>1, <3>2 DEF Encode, Misuse, At
  <2>4. CASE QueueNal(t)
    BY <1>1, <2>4, GotoMoves DEF QueueNal, At
  <2>5. CASE Ring(t)
    <3>1. /\ job[t].at = "ring"
          /\ job' = [job EXCEPT ![t].at = IF Len(job[t].nals) = 1 THEN "give" ELSE "nal",
                                ![t].nals = Tail(job[t].nals)]
      BY <2>5 DEF Ring, Rung, At
    <3> QED
      BY <1>1, <3>1, NalsMove
  <2>6. CASE GiveLock(t)
    BY <1>1, <2>6, ReturnMoves DEF GiveLock, At
  <2> QED
    BY <2>1, <2>2, <2>3, <2>4, <2>5, <2>6
<1>4. ShapeOK'
  BY <1>2, <1>3 DEF FInv, ShapeOK, Others
<1>5. HeldOK'
  <2>1. job[t].at = "find" /\ t = "uv" /\ ~MeetsRaw /\ job[t].win \in windows => ~Linked(job[t].win)
    BY DEF MeetsRaw, MInv, RawOK
  <2> QED
    BY <1>2, <1>3, <2>1 DEF FInv, ShapeOK, HeldOK, Found, Others
<1>6. \A w \in windows : Remaking(w) => Remaking(w)'
  BY <1>2, <1>3 DEF Remaking, Others
<1>7. \A w \in windows, u \in Thread : Changed(u, w) => Changed(u, w)'
  BY <1>2, <1>3 DEF FInv, ShapeOK, Changed, Others
<1> QED
  BY <1>2, <1>4, <1>5, <1>6, <1>7, FInvKeep

\* cip_window_stream_init, field by field.
LEMMA InitialisedIs ==
  ASSUME StreamsOK, NEW w \in Window
  PROVE  /\ Initialised(w).even = Even(entry[w].size)
         /\ Initialised(w).ready = stream[w].ready
         /\ \/ TooSmall(Even(entry[w].size)) \/ Even(entry[w].size) \in TooLarge
            \/ /\ Initialised(w).pic = "made" /\ Initialised(w).encoder = "open"
               /\ Initialised(w).made = Even(entry[w].size)
<1> DEFINE e == Even(entry[w].size)
<1>1. IsStream(stream[w])
  BY DEF StreamsOK
<1>2. /\ TooSmall(e) => Initialised(w) = [stream[w] EXCEPT !.even = e]
      /\ ~TooSmall(e) /\ e \in TooLarge =>
           Initialised(w) = [stream[w] EXCEPT !.even = e, !.pic = "clean", !.encoder = "null", !.made = None]
      /\ ~TooSmall(e) /\ e \notin TooLarge =>
           Initialised(w) = [stream[w] EXCEPT !.even = e, !.pic = "made", !.encoder = "open", !.made = e]
  BY DEF Initialised
<1> HIDE DEF e
<1>3. CASE TooSmall(e)
  <2>1. Initialised(w) = [even |-> e, pic |-> stream[w].pic, encoder |-> stream[w].encoder,
                          made |-> stream[w].made, ready |-> stream[w].ready]
    BY <1>1, <1>2, <1>3 DEF IsStream
  <2> QED
    BY <1>3, <2>1 DEF e
<1>4. CASE ~TooSmall(e) /\ e \in TooLarge
  <2>1. Initialised(w) = [even |-> e, pic |-> "clean", encoder |-> "null", made |-> None,
                          ready |-> stream[w].ready]
    BY <1>1, <1>2, <1>4 DEF IsStream
  <2> QED
    BY <1>4, <2>1 DEF e
<1>5. CASE ~TooSmall(e) /\ e \notin TooLarge
  <2>1. Initialised(w) = [even |-> e, pic |-> "made", encoder |-> "open", made |-> e,
                          ready |-> stream[w].ready]
    BY <1>1, <1>2, <1>5 DEF IsStream
  <2> QED
    BY <1>5, <2>1 DEF e
<1> QED
  BY <1>3, <1>4, <1>5

\* Setting stream_ready.
LEMMA ReadyIs ==
  ASSUME NEW r, IsStream(r), NEW b, NEW s, s = [r EXCEPT !.ready = b]
  PROVE  /\ s.even = r.even /\ s.pic = r.pic /\ s.encoder = r.encoder /\ s.made = r.made
         /\ s.ready = b
<1>1. s = [even |-> r.even, pic |-> r.pic, encoder |-> r.encoder, made |-> r.made, ready |-> b]
  BY DEF IsStream
<1> QED
  BY <1>1

\* stream_reset takes the stream apart ...
LEMMA FInvClean ==
  ASSUME LInv, MInv, FInv, NEW t \in Thread, Clean(t)
  PROVE  FInv'
<1> USE DEF Thread, Linked
<1> DEFINE w == job[t].win
<1>1. JobsOK /\ job[t].at = "clean" /\ w # Freed /\ job[t].does = "reset"
  BY DEF LInv, Clean, At, FInv, ShapeOK
<1>2. w \in windows /\ windows \subseteq Window /\ StreamsOK
  BY <1>1, SMTT(30) DEF FInv, HeldOK, Found, MInv, ListOK
<1>3. Others(t) /\ UNCHANGED <<windows, entry, xpc, ev, spoilt>>
  BY JobFacts, ZenonT(30) DEF JobStep, Clean, Misuse, vars, xvars
<1>4. CASE Misuse(t)
  BY <1>3, <1>4, FInvKeep DEF Misuse, FInv, ShapeOK, HeldOK, Found, Remaking, Changed
<1>5. CASE Goto(t, "init") /\ stream' = [stream EXCEPT ![w].pic = "clean", ![w].encoder = "closed",
                                                       ![w].made = None]
  <2>1. job'[t].at = "init" /\ job'[t].win = w /\ job'[t].does = "reset"
    BY <1>1, <1>5, GotoMoves
  <2>2. /\ \A v \in Window \ {w} : stream'[v] = stream[v]
        /\ stream'[w].even = stream[w].even /\ stream'[w].ready = stream[w].ready
    <3>1. /\ IsStream(stream[w])
          /\ \A v \in Window \ {w} : stream'[v] = stream[v]
          /\ stream'[w] = [stream[w] EXCEPT !.pic = "clean", !.encoder = "closed", !.made = None]
      BY <1>2, <1>5, ZenonT(30) DEF StreamsOK
    <3>2. stream'[w] = [even |-> stream[w].even, pic |-> "clean", encoder |-> "closed",
                        made |-> None, ready |-> stream[w].ready]
      BY <3>1 DEF IsStream
    <3> QED
      BY <3>1, <3>2, SMTT(30)
  <2>3. ShapeOK' /\ HeldOK'
    BY <1>1, <1>3, <2>1 DEF FInv, ShapeOK, HeldOK, Found, Others
  <2>4. GoneOK'
    BY <1>2, <1>3, <2>2 DEF FInv, GoneOK
  <2>5. \A v \in windows : v = w \/ Remaking(v) => Remaking(v)'
    BY <1>1, <1>3, <2>1 DEF Remaking, Others
  <2>6. MadeOK'
    BY <1>2, <1>3, <2>2, <2>5 DEF FInv, MadeOK, Usable
  <2>7. \A v \in windows, u \in Thread : Changed(u, v) => Changed(u, v)'
    BY <1>1, <1>3, <2>1 DEF Changed, Others
  <2>8. SizeOK'
    BY <1>2, <1>3, <2>2, <2>7 DEF FInv, SizeOK
  <2> QED
    BY <2>3, <2>4, <2>6, <2>8 DEF FInv
<1> QED
  BY <1>4, <1>5 DEF Clean

\* ... and stream_init makes it for the size the node has by then.
LEMMA FInvInitStream ==
  ASSUME LInv, MInv, FInv, NEW t \in Thread, InitStream(t)
  PROVE  FInv'
<1> USE DEF Thread, Linked
<1> DEFINE w == job[t].win
           e == Even(entry[w].size)
<1>1. JobsOK /\ job[t].at = "init" /\ w # Freed /\ job[t].does \in {"make", "reset"}
  BY DEF LInv, InitStream, At, FInv, ShapeOK
<1>2. w \in windows /\ windows \subseteq Window /\ StreamsOK
  BY <1>1 DEF FInv, HeldOK, Found, MInv, ListOK
<1>3. Others(t) /\ UNCHANGED <<windows, entry, xpc, ev>>
  BY JobFacts DEF JobStep, xvars
<1>4. /\ job[t].does = "make" => job'[t].at = "done" /\ job'[t].does = "nothing"
      /\ job[t].does = "reset" => job'[t].at = "give" /\ job'[t].does = "reset" /\ job'[t].win = w
  BY <1>1, GotoMoves, ReturnMoves DEF InitStream
<1>5. spoilt' = IF TooSmall(e) \/ e \in TooLarge THEN spoilt \cup {w} ELSE spoilt
  BY DEF InitStream
<1>6. /\ \A v \in Window \ {w} : stream'[v] = stream[v]
      /\ stream'[w].even = e
      /\ TooSmall(e) \/ e \in TooLarge
           \/ (stream'[w].pic = "made" /\ stream'[w].encoder = "open" /\ stream'[w].made = e)
  <2>1. IsStream(Initialised(w))
    BY <1>2, InitialisedKeeps
  <2>2. /\ \A v \in Window \ {w} : stream'[v] = stream[v]
        /\ stream'[w] = IF job[t].does = "make" THEN [Initialised(w) EXCEPT !.ready = TRUE]
                                                ELSE Initialised(w)
    BY <1>2 DEF InitStream, StreamsOK
  <2>3. /\ stream'[w].even = Initialised(w).even /\ stream'[w].pic = Initialised(w).pic
        /\ stream'[w].encoder = Initialised(w).encoder /\ stream'[w].made = Initialised(w).made
    <3>1. CASE stream'[w] = [Initialised(w) EXCEPT !.ready = TRUE]
      BY <2>1, <3>1, ReadyIs
    <3> QED
      BY <2>2, <3>1
  <2> QED
    BY <1>2, <2>2, <2>3, InitialisedIs
<1>7. ShapeOK' /\ HeldOK'
  BY <1>1, <1>3, <1>4 DEF FInv, ShapeOK, HeldOK, Found, Others
<1>8. GoneOK'
  <2>1. ~Linked(w)
    BY <1>1 DEF FInv, HeldOK, Found
  <2> QED
    BY <1>2, <1>3, <1>5, <1>6, <2>1 DEF FInv, GoneOK
<1>9. \A v \in windows \ {w} : Remaking(v) => Remaking(v)'
  BY <1>1, <1>3 DEF Remaking, Others
<1>10. MadeOK'
  BY <1>2, <1>3, <1>5, <1>6, <1>9 DEF FInv, MadeOK, Usable
<1>11. \A v \in windows \ {w}, u \in Thread : Changed(u, v) => Changed(u, v)'
  BY <1>1, <1>3 DEF Changed, Others
<1>12. SizeOK'
  BY <1>2, <1>3, <1>6, <1>11 DEF FInv, SizeOK
<1> QED
  BY <1>7, <1>8, <1>10, <1>12 DEF FInv

\* The handlers of the xorg thread.
LEMMA FInvXorg == LInv /\ MInv /\ GeomOK /\ FInv /\ (XTakes \/ XGoesOn) => FInv'
<1> SUFFICES ASSUME LInv, MInv, GeomOK, FInv, XTakes \/ XGoesOn PROVE FInv'
  OBVIOUS
<1> USE DEF Thread, Linked
<1>1. /\ JobsOK /\ job["xorg"].does = "nothing" /\ job["xorg"].at = "done"
      /\ job'["uv"].at = job["uv"].at
      /\ job'["uv"] = job["uv"] \/ (DestroyStream /\ job'["uv"].win = Freed)
  BY XorgJobs DEF LInv, Idle, NoJob
<1>2. \A w \in windows : ~Remaking(w) \/ (job["uv"].win = w /\ job["uv"].does = "reset" /\ job["uv"].at = "init")
  BY <1>1 DEF Remaking
<1>3. \A w \in windows : ~Changed("xorg", w)
  BY <1>1 DEF Changed
<1>4. ASSUME UNCHANGED <<windows, stream, spoilt>>, job'["uv"] = job["uv"], ShapeOK', HeldOK',
             \A w \in Window : Linked(w)' => ~stream[w].ready,
             \A w \in windows : entry'[w].size = entry[w].size \/ ~stream[w].ready
                                  \/ (\E t \in Thread : Changed(t, w)')
      PROVE  FInv'
  <2>1. \A w \in windows : Remaking(w) => Remaking(w)'
    BY <1>2, <1>4 DEF Remaking
  <2>2. \A w \in windows, t \in Thread : Changed(t, w) => Changed(t, w)'
    BY <1>3, <1>4 DEF Changed
  <2> QED
    BY <1>4, <2>1, <2>2, FInvKeep
<1>5. CASE XTakes
  <2>1. /\ UNCHANGED <<windows, entry, stream, spoilt>> /\ xpc = "wait"
        /\ xpc' \in {"wait", "link", "unlink", "viewable", "queue"}
        /\ UNCHANGED job \/ (xpc' = "wait" /\ \E w \in Window : Start("xorg", "frame", "find", w, None))
    BY <1>5 DEF XTakes, Plain, svars, XApply, Damage, AtX, XEvent, XCreate, XDestroy, XMap, XUnmap,
                XConfigure, Take, vars, xvars
  <2>2. ~DestroyStream
    BY <2>1 DEF DestroyStream, DestroyUnlink, AtX
  <2>3. \/ job'["xorg"].at = "done" /\ job'["xorg"].does = "nothing"
        \/ job'["xorg"].at = "find" /\ job'["xorg"].does = "frame" /\ xpc' = "wait"
    BY <1>1, <2>1, StartsAs
  <2>4. ShapeOK' /\ HeldOK'
    BY <1>1, <2>1, <2>2, <2>3 DEF FInv, ShapeOK, HeldOK, Found
  <2> QED
    BY <1>1, <1>4, <2>1, <2>2, <2>4
<1>6. CASE CreateStream
  <2>1. /\ xpc = "init" /\ xpc' = "queue" /\ UNCHANGED <<windows, ev, stream, spoilt>>
        /\ \E e : entry' = [entry EXCEPT ![ev.wid] = e]
        /\ Start("xorg", "make", "init", ev.wid, None)
    BY <1>6 DEF CreateStream, CreateInit, AtX, xvars
  <2>2. ev.wid \in windows /\ windows \subseteq Window
    BY <2>1 DEF MInv, ListOK
  <2>3. ~DestroyStream
    BY <2>1 DEF DestroyStream, DestroyUnlink, AtX
  <2>4. job'["xorg"].at = "init" /\ job'["xorg"].does = "make" /\ job'["xorg"].win = ev.wid
    BY <1>1, <2>1, StartsAs
  <2>5. ShapeOK' /\ HeldOK'
    BY <1>1, <2>1, <2>2, <2>3, <2>4 DEF FInv, ShapeOK, HeldOK, Found
  <2>6. \A w \in windows : entry'[w].size = entry[w].size \/ ~stream[w].ready
    BY <2>1, <2>2 DEF GeomOK, FInv, GoneOK
  <2> QED
    BY <1>1, <1>4, <2>1, <2>3, <2>5, <2>6
<1>7. CASE DestroyStream
  <2>1. /\ xpc = "unlink" /\ xpc' = "queue" /\ UNCHANGED ev
        /\ windows' = windows \ {ev.wid} /\ entry' = [entry EXCEPT ![ev.wid] = Unset]
        /\ stream' = [stream EXCEPT ![ev.wid] = Wild] /\ spoilt' = spoilt \ {ev.wid}
    BY <1>7 DEF DestroyStream, DestroyUnlink, AtX
  <2>2. /\ UNCHANGED job /\ (job["uv"].at \in {"seek", "find"} \/ job["uv"].win # ev.wid)
        \/ /\ job' = [job EXCEPT !["uv"].win = Freed]
           /\ job["uv"].at \in {"seek", "find"} \/ job["uv"].win = ev.wid
    BY <1>7 DEF DestroyStream
  <2>3. /\ job'["xorg"] = job["xorg"] /\ job'["uv"].does = job["uv"].does
        /\ \/ job'["uv"].win = Freed
           \/ job'["uv"] = job["uv"] /\ (job["uv"].at \in {"seek", "find"} \/ job["uv"].win # ev.wid)
    <3>1. CASE job' = [job EXCEPT !["uv"].win = Freed]
      <4>1. IsJob(job["uv"]) /\ job'["uv"] = [job["uv"] EXCEPT !.win = Freed]
            /\ job'["xorg"] = job["xorg"]
        BY <1>1, <3>1 DEF JobsOK
      <4>2. job'["uv"] = [does |-> job["uv"].does, at |-> job["uv"].at, win |-> Freed,
                          arg |-> job["uv"].arg, nals |-> job["uv"].nals]
        BY <4>1 DEF IsJob
      <4> QED
        BY <4>1, <4>2
    <3> QED
      BY <2>2, <3>1
  <2>4. ShapeOK'
    BY <1>1, <2>3 DEF FInv, ShapeOK
  <2>5. HeldOK'
    BY <1>1, <2>1, <2>3 DEF FInv, HeldOK, Found
  <2>6. /\ \A w \in Window \ {ev.wid} : stream'[w] = stream[w] /\ entry'[w] = entry[w]
        /\ ev.wid \in Window => ~stream'[ev.wid].ready
    BY <2>1 DEF MInv, StreamsOK, GeomOK, Wild
  <2>7. GoneOK'
    BY <2>1, <2>6 DEF FInv, GoneOK
  <2>8. \A w \in windows \ {ev.wid} : job["uv"].win = w =>
           job'["uv"] = job["uv"] \/ job["uv"].at \in {"seek", "find"}
    BY <2>2
  <2>9. \A w \in windows' : Remaking(w) => Remaking(w)'
    BY <1>2, <2>1, <2>8 DEF Remaking
  <2>10. MadeOK'
    BY <2>1, <2>6, <2>9 DEF FInv, MadeOK, Usable, MInv, ListOK
  <2>11. \A w \in windows', t \in Thread : Changed(t, w) => Changed(t, w)'
    BY <1>3, <2>1, <2>8 DEF Changed, FInv, ShapeOK
  <2>12. SizeOK'
    BY <2>1, <2>6, <2>11 DEF FInv, SizeOK, MInv, ListOK
  <2> QED
    BY <2>4, <2>5, <2>7, <2>10, <2>12 DEF FInv
<1>8. CASE ResizeStream
  <2>1. /\ xpc = "resize" /\ xpc' = "async" /\ UNCHANGED <<windows, ev, stream, spoilt>>
        /\ \/ UNCHANGED <<job, entry>>
           \/ /\ \E e : entry' = [entry EXCEPT ![ev.wid] = e]
              /\ Start("xorg", "reset", "take", ev.wid, None)
           \/ UNCHANGED entry /\ Start("xorg", "reset", "take", ev.wid, None)
    BY <1>8 DEF ResizeStream, ConfigureResize, AtX, xvars
  <2>2. ev.wid \in windows /\ windows \subseteq Window
    BY <2>1 DEF MInv, ListOK
  <2>3. ~DestroyStream
    BY <2>1 DEF DestroyStream, DestroyUnlink, AtX
  <2>4. CASE UNCHANGED <<job, entry>>
    <3>1. ShapeOK' /\ HeldOK'
      BY <1>1, <2>1, <2>4 DEF FInv, ShapeOK, HeldOK, Found
    <3> QED
      BY <1>4, <2>1, <2>4, <3>1
  <2>5. CASE Start("xorg", "reset", "take", ev.wid, None)
    <3>1. job'["xorg"].at = "take" /\ job'["xorg"].does = "reset" /\ job'["xorg"].win = ev.wid
      BY <1>1, <2>5, StartsAs
    <3>2. ShapeOK' /\ HeldOK'
      BY <1>1, <2>1, <2>2, <2>3, <3>1 DEF FInv, ShapeOK, HeldOK, Found
    <3>3. \A w \in windows : w = ev.wid => Changed("xorg", w)'
      BY <3>1 DEF Changed
    <3>4. \A w \in windows : entry'[w].size = entry[w].size \/ Changed("xorg", w)'
      BY <2>1, <2>2, <3>3 DEF GeomOK
    <3> QED
      BY <1>1, <1>4, <2>1, <2>3, <3>2, <3>4
  <2> QED
    BY <2>1, <2>4, <2>5
<1>9. CASE Plain(CreateLink)
  <2>1. /\ xpc = "link" /\ xpc' = "init" /\ UNCHANGED <<ev, entry, stream, job, spoilt>>
        /\ windows' = windows \cup {ev.wid}
    BY <1>9 DEF Plain, CreateLink, AtX, svars
  <2>2. ev.wid \in Window \ windows
    BY <2>1 DEF MInv, ListOK
  <2>3. ShapeOK' /\ HeldOK' /\ GoneOK'
    BY <1>1, <2>1, <2>2 DEF FInv, ShapeOK, HeldOK, Found, GoneOK
  <2>4. MadeOK' /\ SizeOK'
    BY <2>1, <2>2 DEF FInv, GoneOK, MadeOK, SizeOK, Usable, Remaking, Changed
  <2> QED
    BY <2>3, <2>4 DEF FInv
<1>10. CASE Plain(MapViewable \/ Enqueue \/ ConfigureMove \/ AsyncSend)
  <2>1. /\ xpc \in {"viewable", "queue", "move", "async"}
        /\ xpc' \in {"queue", "move", "resize", "async", "wait"}
        /\ UNCHANGED <<windows, stream, job, spoilt>>
    BY <1>10 DEF Plain, MapViewable, Enqueue, ConfigureMove, AsyncSend, AtX, svars
  <2>2. \A w \in windows : entry'[w].size = entry[w].size
    <3>1. \/ UNCHANGED entry
          \/ entry' = [entry EXCEPT ![ev.wid].viewable = TRUE]
          \/ entry' = [entry EXCEPT ![ev.wid].pos = xgeom[ev.wid].pos]
      BY <1>10 DEF Plain, MapViewable, Enqueue, ConfigureMove, AsyncSend
    <3> QED
      BY <3>1, SMTT(30) DEF GeomOK, Entry, MInv, ListOK
  <2>3. ShapeOK' /\ HeldOK'
    BY <1>1, <2>1 DEF FInv, ShapeOK, HeldOK, Found
  <2> QED
    BY <1>4, <2>1, <2>2, <2>3
<1> QED
  BY <1>5, <1>6, <1>7, <1>8, <1>9, <1>10 DEF XGoesOn, Plain

\* The handlers of the uv thread.
LEMMA FInvUv == LInv /\ MInv /\ GeomOK /\ FInv /\ (Input \/ UvGoesOn \/ Wake) => FInv'
<1> SUFFICES ASSUME LInv, MInv, GeomOK, FInv, Input \/ UvGoesOn \/ Wake PROVE FInv'
  OBVIOUS
<1> USE DEF Thread, Linked
<1>1. JobsOK /\ job'["xorg"] = job["xorg"]
  BY UvJobs DEF LInv, Others
<1>2. UNCHANGED <<windows, ev, xpc, stream, spoilt>>
  BY DEF Input, InputShowReady, InputMove, InputResize, ConnectDisplay, UvGoesOn, Wake, Plain, svars,
         EmitNext, EmitFrame, EmitEnd, EmitBegin, Seek, StoreGeometry, TellX, Spin, GreetOne, GreetNext,
         UvFault, vars
<1>3. ASSUME ShapeOK', HeldOK', job["uv"].does # "reset",
             \A w \in windows : Changed("uv", w) => Changed("uv", w)',
             \A w \in windows : entry'[w].size = entry[w].size \/ Changed("uv", w)'
      PROVE  FInv'
  <2>1. \A w \in windows : Remaking(w) => Remaking(w)'
    BY <1>1, <1>3 DEF Remaking
  <2>2. \A w \in windows : Changed("xorg", w) => Changed("xorg", w)'
    BY <1>1 DEF Changed
  <2> QED
    BY <1>2, <1>3, <2>1, <2>2, FInvKeep
<1>4. CASE UNCHANGED <<job, entry>>
  BY <1>2, <1>4, FInvKeep DEF FInv, ShapeOK, HeldOK, Found, Remaking, Changed
<1>5. ASSUME NEW does \in {"move", "resize", "ready"}, NEW w, NEW arg, AtLoop, entry' = entry,
             Start("uv", does, "seek", w, arg)
      PROVE  FInv'
  <2>1. job["uv"].does = "nothing"
    BY <1>5 DEF AtLoop, Idle, NoJob
  <2>2. job'["uv"].at = "seek" /\ job'["uv"].does = does
    BY <1>1, <1>5, StartsAs
  <2> QED
    BY <1>1, <1>2, <1>3, <1>5, <2>1, <2>2 DEF FInv, ShapeOK, HeldOK, Found, Changed
<1>6. CASE Input
  BY <1>4, <1>5, <1>6 DEF Input, InputMove, InputResize, InputShowReady, ConnectDisplay, vars, svars
<1>7. CASE Seek
  <2>1. /\ job["uv"].at = "seek" /\ entry' = entry /\ ~MeetsRaw
        /\ \/ Return("uv")
           \/ /\ job["uv"].win \in windows
              /\ Goto("uv", IF job["uv"].does = "ready" THEN "spin" ELSE "store")
    BY <1>7 DEF Seek, vars
  <2>2. job["uv"].does \in {"move", "resize", "ready"}
    BY <2>1 DEF FInv, ShapeOK
  <2>3. CASE Return("uv")
    <3>1. job'["uv"].at = "done" /\ job'["uv"].does = "nothing"
      BY <1>1, <2>3, ReturnMoves
    <3> QED
      BY <1>1, <1>2, <1>3, <2>1, <2>2, <3>1 DEF FInv, ShapeOK, HeldOK, Found, Changed
  <2>4. CASE job["uv"].win \in windows /\ Goto("uv", IF job["uv"].does = "ready" THEN "spin" ELSE "store")
    <3>1. /\ job'["uv"].at = IF job["uv"].does = "ready" THEN "spin" ELSE "store"
          /\ job'["uv"].does = job["uv"].does /\ job'["uv"].win = job["uv"].win
      BY <1>1, <2>4, GotoMoves
    <3>2. ~Linked(job["uv"].win)
      BY <2>1, <2>4 DEF MeetsRaw, MInv, RawOK
    <3> QED
      BY <1>1, <1>2, <1>3, <2>1, <2>2, <2>4, <3>1, <3>2 DEF FInv, ShapeOK, HeldOK, Found, Changed
  <2> QED
    BY <2>1, <2>3, <2>4
<1>8. CASE StoreGeometry
  <2>1. /\ job["uv"].at = "store" /\ job["uv"].win # Freed /\ Goto("uv", "tell")
        /\ \/ job["uv"].does = "move" /\ entry' = [entry EXCEPT ![job["uv"].win].pos = job["uv"].arg]
           \/ job["uv"].does # "move" /\ \E e : entry' = [entry EXCEPT ![job["uv"].win] = e]
    BY <1>8 DEF StoreGeometry
  <2>2. job["uv"].win \in windows /\ job["uv"].does \in {"move", "resize"} /\ windows \subseteq Window
    BY <2>1 DEF FInv, ShapeOK, HeldOK, Found, MInv, ListOK
  <2>3. job'["uv"].at = "tell" /\ job'["uv"].does = job["uv"].does /\ job'["uv"].win = job["uv"].win
    BY <1>1, <2>1, GotoMoves
  <2>4. CASE job["uv"].does = "move"
    <3>1. \A w \in windows : entry'[w].size = entry[w].size
      BY <2>1, <2>2, <2>4 DEF GeomOK, Entry
    <3> QED
      BY <1>1, <1>2, <1>3, <2>1, <2>2, <2>3, <2>4, <3>1 DEF FInv, ShapeOK, HeldOK, Found, Changed
  <2>5. CASE job["uv"].does = "resize"
    <3>1. \A w \in windows : w = job["uv"].win => Changed("uv", w)'
      BY <2>3, <2>5 DEF Changed
    <3>2. \A w \in windows : entry'[w].size = entry[w].size \/ Changed("uv", w)'
      BY <2>1, <2>2, <2>5, <3>1 DEF GeomOK
    <3> QED
      BY <1>1, <1>2, <1>3, <2>1, <2>2, <2>3, <2>5, <3>2 DEF FInv, ShapeOK, HeldOK, Found, Changed
  <2> QED
    BY <2>2, <2>4, <2>5
<1>9. CASE TellX
  <2>1. /\ job["uv"].at = "tell" /\ job["uv"].win # Freed /\ entry' = entry
        /\ \/ job["uv"].does = "move" /\ Return("uv")
           \/ job["uv"].does = "resize" /\ Start("uv", "reset", "take", job["uv"].win, None)
    BY <1>9 DEF TellX, vars
  <2>2. CASE job["uv"].does = "move" /\ Return("uv")
    <3>1. job'["uv"].at = "done" /\ job'["uv"].does = "nothing"
      BY <1>1, <2>2, ReturnMoves
    <3> QED
      BY <1>1, <1>2, <1>3, <2>1, <2>2, <3>1 DEF FInv, ShapeOK, HeldOK, Found, Changed
  <2>3. CASE job["uv"].does = "resize" /\ Start("uv", "reset", "take", job["uv"].win, None)
    <3>1. job'["uv"].at = "take" /\ job'["uv"].does = "reset" /\ job'["uv"].win = job["uv"].win
      BY <1>1, <2>3, StartsAs
    <3> QED
      BY <1>1, <1>2, <1>3, <2>1, <2>3, <3>1 DEF FInv, ShapeOK, HeldOK, Found, Changed
  <2> QED
    BY <2>1, <2>2, <2>3
<1>10. ASSUME NEW w, Start("uv", "frame", "find", w, None), entry' = entry,
              job["uv"].does \in {"nothing", "ready"}
       PROVE  FInv'
  <2>1. job'["uv"].at = "find" /\ job'["uv"].does = "frame"
    BY <1>1, <1>10, StartsAs
  <2> QED
    BY <1>1, <1>2, <1>3, <1>10, <2>1 DEF FInv, ShapeOK, HeldOK, Found, Changed
<1>11. CASE Spin
  BY <1>10, <1>11 DEF Spin, vars, FInv, ShapeOK
<1>12. CASE GreetOne
  BY <1>4, <1>10, <1>12 DEF GreetOne, Idle, NoJob
<1> QED
  BY <1>4, <1>6, <1>7, <1>8, <1>9, <1>11, <1>12
     DEF UvGoesOn, Wake, Plain, svars, vars, EmitNext, EmitFrame, EmitEnd, EmitBegin, GreetNext, UvFault

LEMMA FInvStep == LInv /\ MInv /\ GeomOK /\ FInv /\ [StreamNext]_allvars => FInv'
<1> SUFFICES ASSUME LInv, MInv, GeomOK, FInv, [StreamNext]_allvars PROVE FInv'
  OBVIOUS
<1>1. CASE Stopped \/ UNCHANGED allvars
  BY <1>1 DEF Stopped, allvars, vars, svars, FInv, ShapeOK, HeldOK, Found, Linked, GoneOK, MadeOK, Usable,
              Remaking, SizeOK, Changed
<1>2. ASSUME NEW t \in Thread, JobStep(t) PROVE FInv'
  BY <1>2, FInvCall, FInvClean, FInvInitStream DEF JobStep
<1> QED
  BY <1>1, <1>2, FInvXorg, FInvUv DEF StreamNext

-----------------------------------------------------------------------------
(* The values of geometry. *)

LEMMA GeomInit == StreamInit => GeomOK
<1> SUFFICES ASSUME StreamInit PROVE GeomOK
  OBVIOUS
<1>1. /\ xgeom \in [Window -> Geom \cup {NoGeom}]
      /\ \A w \in xlive : xgeom[w] \in Geom
  BY ConstantsAssumption DEF StreamInit, Init
<1>2. entry \in [Window -> Entry]
  BY DEF StreamInit, Init, Entry, Unset
<1>3. windows = {} /\ job["uv"].does = "nothing" /\ xinput = <<>>
  BY DEF StreamInit, Init, NoJob, Thread
<1> QED
  BY <1>1, <1>2, <1>3 DEF GeomOK

\* A node with one of its fields assigned.
LEMMA PosSet ==
  ASSUME NEW e \in Entry, NEW p \in Pos \cup {None}
  PROVE  /\ [e EXCEPT !.pos = p] \in Entry /\ [e EXCEPT !.pos = p].pos = p
         /\ [e EXCEPT !.pos = p].size = e.size
<1>1. [e EXCEPT !.pos = p] \in Entry
  BY Zenon DEF Entry
<1> QED
  BY <1>1 DEF Entry

LEMMA SizeSet ==
  ASSUME NEW e \in Entry, NEW s \in Size \cup {None}
  PROVE  /\ [e EXCEPT !.size = s] \in Entry /\ [e EXCEPT !.size = s].pos = e.pos
         /\ [e EXCEPT !.size = s].size = s
<1>1. [e EXCEPT !.size = s] \in Entry
  BY Zenon DEF Entry
<1> QED
  BY <1>1 DEF Entry

LEMMA ViewableSet ==
  ASSUME NEW e \in Entry
  PROVE  /\ [e EXCEPT !.viewable = TRUE] \in Entry
         /\ [e EXCEPT !.viewable = TRUE].pos = e.pos /\ [e EXCEPT !.viewable = TRUE].size = e.size
<1>1. [e EXCEPT !.viewable = TRUE] \in Entry
  BY Zenon DEF Entry
<1>2. [e EXCEPT !.viewable = TRUE].pos = e.pos /\ [e EXCEPT !.viewable = TRUE].size = e.size
  BY Zenon DEF Entry
<1> QED
  BY <1>1, <1>2

LEMMA GeomXorg == LInv /\ MInv /\ GeomOK /\ (XTakes \/ XGoesOn) => GeomOK'
<1> SUFFICES ASSUME LInv, MInv, GeomOK, XTakes \/ XGoesOn PROVE GeomOK'
  OBVIOUS
<1> USE DEF Linked
<1>1. windows \subseteq Window /\ xlive \subseteq Window
  BY DEF MInv, ListOK
<1>2. /\ job'["uv"].does = "move" => job'["uv"].arg \in Pos
      /\ job'["uv"].does = "resize" => job'["uv"].arg \in Size
  <2>1. CASE job'["uv"] = job["uv"]
    BY <2>1 DEF GeomOK
  <2>2. CASE job' = [job EXCEPT !["uv"].win = Freed]
    <3>1. IsJob(job["uv"]) /\ job'["uv"] = [job["uv"] EXCEPT !.win = Freed]
      BY <2>2 DEF LInv, JobsOK, Thread
    <3>2. job'["uv"] = [does |-> job["uv"].does, at |-> job["uv"].at, win |-> Freed,
                        arg |-> job["uv"].arg, nals |-> job["uv"].nals]
      BY <3>1 DEF IsJob
    <3> QED
      BY <3>2 DEF GeomOK
  <2> QED
    BY <2>1, <2>2, XorgJobs DEF DestroyStream
<1>3. ASSUME UNCHANGED <<xgeom, xlive>>, entry' \in [Window -> Entry], UNCHANGED xinput,
             \A w \in windows' : Linked(w)' \/ (entry'[w].pos \in Pos /\ entry'[w].size \in Size)
      PROVE  GeomOK'
  BY <1>2, <1>3 DEF GeomOK
<1>4. CASE XTakes
  <2>1. /\ UNCHANGED <<windows, entry>> /\ xpc = "wait"
        /\ xinput' = xinput \/ (xinput # <<>> /\ xinput' = Tail(xinput))
    BY <1>4 DEF XTakes, Plain, svars, XApply, Damage, AtX, XEvent, XCreate, XDestroy, XMap, XUnmap,
                XConfigure, Take, vars
  <2>2. xinput' \in Seq(Ask)
    BY <2>1 DEF GeomOK
  <2>3. xgeom' \in [Window -> Geom \cup {NoGeom}] /\ \A w \in xlive' : xgeom'[w] \in Geom
    <3>1. CASE Plain(XEvent) \/ \E w \in Window : Damage(w)
      BY <1>1, <3>1 DEF Plain, Damage, XEvent, XCreate, XDestroy, XMap, XUnmap, XConfigure, Take, GeomOK,
                        vars, xvars
    <3>2. CASE XApply
      <4> DEFINE r == Head(xinput)
      <4>1. xinput \in Seq(Ask) /\ xinput # <<>>
        BY <3>2 DEF XApply, GeomOK
      <4>2. r \in Ask
        BY <4>1
      <4>3. CASE UNCHANGED vars
        BY <4>3 DEF vars, GeomOK
      <4>4. CASE ~UNCHANGED vars
        <5>1. /\ r.wid \in xlive /\ xlive' = xlive
              /\ xgeom' = [xgeom EXCEPT ![r.wid] =
                             IF r.field = "pos" THEN [xgeom[r.wid] EXCEPT !.pos = r.value]
                                                ELSE [xgeom[r.wid] EXCEPT !.size = r.value]]
          BY <3>2, <4>4 DEF XApply
        <5>2. /\ r.field = "pos" => r.value \in Pos
              /\ r.field # "pos" => r.value \in Size
          BY <4>2 DEF Ask
        <5>3. xgeom[r.wid] \in Geom
          BY <5>1 DEF GeomOK
        <5>4. (IF r.field = "pos" THEN [xgeom[r.wid] EXCEPT !.pos = r.value]
                                  ELSE [xgeom[r.wid] EXCEPT !.size = r.value]) \in Geom
          BY <5>2, <5>3 DEF Geom
        <5> QED
          BY <1>1, <5>1, <5>4 DEF GeomOK
      <4> QED
        BY <4>3, <4>4
    <3> QED
      BY <1>4, <3>1, <3>2 DEF XTakes
  <2> QED
    BY <1>2, <2>1, <2>2, <2>3 DEF GeomOK
<1>5. CASE CreateStream
  <2>1. /\ xpc = "init" /\ UNCHANGED <<xgeom, xlive, xinput, windows, ev>>
        /\ entry' = [entry EXCEPT ![ev.wid] =
                       [pos |-> xgeom[ev.wid].pos, size |-> xgeom[ev.wid].size, viewable |-> FALSE]]
    BY <1>5 DEF CreateStream, CreateInit, AtX, xvars
  <2>2. ev.wid \in windows /\ xgeom[ev.wid] \in Geom
    BY <2>1 DEF MInv, ListOK, GeomOK
  <2>3. /\ entry' \in [Window -> Entry] /\ entry'[ev.wid].pos \in Pos /\ entry'[ev.wid].size \in Size
        /\ \A w \in Window \ {ev.wid} : entry'[w] = entry[w]
    BY <1>1, <2>1, <2>2 DEF GeomOK, Geom, Entry
  <2> QED
    BY <1>1, <1>3, <2>1, <2>3 DEF GeomOK
<1>6. CASE DestroyStream
  <2>1. /\ xpc = "unlink" /\ UNCHANGED <<xgeom, xlive, xinput>>
        /\ windows' = windows \ {ev.wid} /\ entry' = [entry EXCEPT ![ev.wid] = Unset]
    BY <1>6 DEF DestroyStream, DestroyUnlink, AtX, xvars
  <2>2. entry' \in [Window -> Entry] /\ \A w \in Window \ {ev.wid} : entry'[w] = entry[w]
    BY <2>1 DEF GeomOK, Entry, Unset
  <2> QED
    BY <1>1, <1>3, <2>1, <2>2 DEF GeomOK
<1>7. CASE Plain(CreateLink)
  <2>1. /\ xpc' = "init" /\ UNCHANGED <<xgeom, xlive, xinput, entry, ev>> /\ xpc = "link"
        /\ windows' = windows \cup {ev.wid}
    BY <1>7 DEF Plain, CreateLink, AtX, xvars, svars
  <2> QED
    BY <1>3, <2>1 DEF GeomOK
<1>8. CASE ResizeStream \/ Plain(MapViewable \/ Enqueue \/ ConfigureMove \/ AsyncSend)
  <2>1. UNCHANGED <<xgeom, xlive, xinput, windows>> /\ xpc # "init"
    BY <1>8 DEF ResizeStream, ConfigureResize, Plain, MapViewable, Enqueue, ConfigureMove, AsyncSend, AtX,
                xvars, svars
  <2>2. \/ UNCHANGED entry
        \/ entry' = [entry EXCEPT ![ev.wid].viewable = TRUE]
        \/ xpc \in {"move", "resize"} /\ entry' = [entry EXCEPT ![ev.wid].pos = xgeom[ev.wid].pos]
        \/ xpc \in {"move", "resize"} /\ entry' = [entry EXCEPT ![ev.wid].size = xgeom[ev.wid].size]
    BY <1>8 DEF ResizeStream, ConfigureResize, Plain, MapViewable, Enqueue, ConfigureMove, AsyncSend, AtX
  <2>3. xpc \in {"move", "resize"} => ev.wid \in windows /\ xgeom[ev.wid] \in Geom
    BY DEF MInv, ListOK, GeomOK
  <2>4. /\ entry' \in [Window -> Entry]
        /\ \A w \in windows : entry'[w].pos \in Pos /\ entry'[w].size \in Size
    <3>1. CASE UNCHANGED entry
      BY <2>1, <3>1 DEF GeomOK
    <3>2. ASSUME NEW f \in Entry, entry' = [entry EXCEPT ![ev.wid] = f],
                 ev.wid \in windows => f.pos \in Pos /\ f.size \in Size
          PROVE  /\ entry' \in [Window -> Entry]
                 /\ \A w \in windows : entry'[w].pos \in Pos /\ entry'[w].size \in Size
      BY <1>1, <2>1, <3>2 DEF GeomOK
    <3>3. ev.wid \in Window =>
            /\ entry[ev.wid] \in Entry
            /\ ev.wid \in windows => entry[ev.wid].pos \in Pos /\ entry[ev.wid].size \in Size
      BY <2>1 DEF GeomOK
    <3>4. CASE entry' = [entry EXCEPT ![ev.wid].viewable = TRUE]
      <4>1. CASE ev.wid \in Window
        <5>1. entry' = [entry EXCEPT ![ev.wid] = [entry[ev.wid] EXCEPT !.viewable = TRUE]]
          BY <3>4
        <5> QED
          BY <3>2, <3>3, <4>1, <5>1, ViewableSet
      <4>2. CASE ev.wid \notin Window
        BY <2>1, <3>4, <4>2 DEF GeomOK
      <4> QED
        BY <4>1, <4>2
    <3>5. CASE xpc \in {"move", "resize"} /\ entry' = [entry EXCEPT ![ev.wid].pos = xgeom[ev.wid].pos]
      <4>1. entry' = [entry EXCEPT ![ev.wid] = [entry[ev.wid] EXCEPT !.pos = xgeom[ev.wid].pos]]
        BY <3>5
      <4>2. ev.wid \in Window /\ xgeom[ev.wid].pos \in Pos
        BY <1>1, <2>3, <3>5 DEF Geom
      <4>3. [entry[ev.wid] EXCEPT !.pos = xgeom[ev.wid].pos] \in Entry
        BY <3>3, <4>2, PosSet
      <4>4. /\ [entry[ev.wid] EXCEPT !.pos = xgeom[ev.wid].pos].pos = xgeom[ev.wid].pos
            /\ [entry[ev.wid] EXCEPT !.pos = xgeom[ev.wid].pos].size = entry[ev.wid].size
        BY <3>3, <4>2, PosSet
      <4> QED
        BY <3>2, <3>3, <4>1, <4>2, <4>3, <4>4
    <3>6. CASE xpc \in {"move", "resize"} /\ entry' = [entry EXCEPT ![ev.wid].size = xgeom[ev.wid].size]
      <4>1. entry' = [entry EXCEPT ![ev.wid] = [entry[ev.wid] EXCEPT !.size = xgeom[ev.wid].size]]
        BY <3>6
      <4>2. ev.wid \in Window /\ xgeom[ev.wid].size \in Size
        BY <1>1, <2>3, <3>6 DEF Geom
      <4> QED
        BY <3>2, <3>3, <4>1, <4>2, SizeSet, ZenonT(30)
    <3> QED
      BY <2>2, <3>1, <3>4, <3>5, <3>6
  <2> QED
    BY <1>3, <2>1, <2>4
<1> QED
  BY <1>4, <1>5, <1>6, <1>7, <1>8 DEF XGoesOn, Plain

LEMMA GeomUv == LInv /\ MInv /\ FInv /\ GeomOK /\ (Input \/ UvGoesOn \/ Wake) => GeomOK'
<1> SUFFICES ASSUME LInv, MInv, FInv, GeomOK, Input \/ UvGoesOn \/ Wake PROVE GeomOK'
  OBVIOUS
<1> USE DEF Thread, Linked
<1>1. JobsOK /\ windows \subseteq Window
  BY DEF LInv, MInv, ListOK
<1>2. UNCHANGED <<windows, ev, xpc, xgeom, xlive>>
  BY DEF Input, InputShowReady, InputMove, InputResize, ConnectDisplay, UvGoesOn, Wake, Plain, svars,
         EmitNext, EmitFrame, EmitEnd, EmitBegin, Seek, StoreGeometry, TellX, Spin, GreetOne, GreetNext,
         UvFault, vars, xvars
<1>3. /\ job'["uv"].does = "move" => job'["uv"].arg \in Pos
      /\ job'["uv"].does = "resize" => job'["uv"].arg \in Size
  <2>1. CASE UNCHANGED job
    BY <2>1 DEF GeomOK
  <2>2. CASE Return("uv")
    BY <1>1, <2>2, ReturnMoves
  <2>3. ASSUME NEW p, Goto("uv", p)
        PROVE  job'["uv"].does = job["uv"].does /\ job'["uv"].arg = job["uv"].arg
    <3>1. IsJob(job["uv"]) /\ job'["uv"] = [job["uv"] EXCEPT !.at = p]
      BY <1>1, <2>3 DEF Goto, JobsOK
    <3>2. job'["uv"] = [does |-> job["uv"].does, at |-> p, win |-> job["uv"].win,
                        arg |-> job["uv"].arg, nals |-> job["uv"].nals]
      BY <3>1, PlaceSet
    <3> QED
      BY <3>2
  <2>4. ASSUME NEW does, NEW at, NEW win, NEW arg, Start("uv", does, at, win, arg),
               does = "move" => arg \in Pos, does = "resize" => arg \in Size
        PROVE  /\ job'["uv"].does = "move" => job'["uv"].arg \in Pos
               /\ job'["uv"].does = "resize" => job'["uv"].arg \in Size
    BY <1>1, <2>4, StartsAs
  <2>5. CASE Input
    BY <2>1, <2>4, <2>5 DEF Input, InputShowReady, InputMove, InputResize, ConnectDisplay, svars
  <2>6. CASE Seek \/ StoreGeometry
    BY <2>2, <2>3, <2>6 DEF Seek, StoreGeometry, GeomOK
  <2>7. CASE TellX \/ Spin \/ GreetOne
    BY <2>1, <2>2, <2>4, <2>7 DEF TellX, Spin, GreetOne
  <2> QED
    BY <2>1, <2>5, <2>6, <2>7 DEF UvGoesOn, Wake, Plain, svars, EmitFrame, GreetNext, UvFault
<1>4. CASE UNCHANGED <<entry, xinput>>
  BY <1>2, <1>3, <1>4 DEF GeomOK
<1>5. CASE StoreGeometry
  <2> DEFINE w == job["uv"].win
             f == entry'[w]
  <2>1. /\ w \in windows /\ ~Linked(w) /\ job["uv"].does \in {"move", "resize"}
        /\ entry[w] \in Entry /\ entry[w].pos \in Pos /\ entry[w].size \in Size /\ xinput' = xinput
    BY <1>1, <1>5 DEF StoreGeometry, FInv, ShapeOK, HeldOK, Found, GeomOK
  <2>2. \/ /\ job["uv"].arg \in Pos
           /\ entry' = [entry EXCEPT ![w] = [entry[w] EXCEPT !.pos = job["uv"].arg]]
        \/ /\ job["uv"].arg \in Size
           /\ entry' = [entry EXCEPT ![w] = [entry[w] EXCEPT !.size = job["uv"].arg]]
    BY <1>5, <2>1 DEF StoreGeometry, GeomOK
  <2>3. ASSUME NEW g \in Entry, g.pos \in Pos, g.size \in Size, entry' = [entry EXCEPT ![w] = g]
        PROVE  GeomOK'
    BY <1>1, <1>2, <1>3, <2>1, <2>3 DEF GeomOK
  <2>4. job["uv"].arg \in Pos => /\ [entry[w] EXCEPT !.pos = job["uv"].arg] \in Entry
                                 /\ [entry[w] EXCEPT !.pos = job["uv"].arg].pos \in Pos
                                 /\ [entry[w] EXCEPT !.pos = job["uv"].arg].size \in Size
    BY <2>1, PosSet
  <2>5. job["uv"].arg \in Size => /\ [entry[w] EXCEPT !.size = job["uv"].arg] \in Entry
                                  /\ [entry[w] EXCEPT !.size = job["uv"].arg].pos \in Pos
                                  /\ [entry[w] EXCEPT !.size = job["uv"].arg].size \in Size
    BY <2>1, SizeSet
  <2> QED
    BY <2>2, <2>3, <2>4, <2>5
<1>6. CASE TellX
  <2> DEFINE w == job["uv"].win
  <2>1. /\ w \in windows /\ w \in Window /\ entry[w].pos \in Pos /\ entry[w].size \in Size /\ entry' = entry
    BY <1>1, <1>6 DEF TellX, FInv, HeldOK, Found, GeomOK, vars
  <2>2. \/ xinput' = Append(xinput, [wid |-> w, field |-> "pos", value |-> entry[w].pos])
        \/ xinput' = Append(xinput, [wid |-> w, field |-> "size", value |-> entry[w].size])
    BY <1>6 DEF TellX
  <2>3. /\ [wid |-> w, field |-> "pos", value |-> entry[w].pos] \in Ask
        /\ [wid |-> w, field |-> "size", value |-> entry[w].size] \in Ask
    BY <2>1 DEF Ask
  <2>4. xinput' \in Seq(Ask)
    <3>1. \E a \in Ask : xinput' = Append(xinput, a)
      BY <2>2, <2>3, Zenon
    <3>2. xinput \in Seq(Ask)
      BY DEF GeomOK
    <3> HIDE DEF w
    <3> QED
      BY <3>1, <3>2
  <2> QED
    BY <1>2, <1>3, <2>1, <2>4 DEF GeomOK
<1> QED
  BY <1>4, <1>5, <1>6
     DEF Input, InputShowReady, InputMove, InputResize, ConnectDisplay, UvGoesOn, Wake, Plain, svars, vars,
         EmitNext, EmitFrame, EmitEnd, EmitBegin, Seek, Spin, GreetOne, GreetNext, UvFault

LEMMA GeomStep == LInv /\ MInv /\ FInv /\ GeomOK /\ [StreamNext]_allvars => GeomOK'
<1> SUFFICES ASSUME LInv, MInv, FInv, GeomOK, [StreamNext]_allvars PROVE GeomOK'
  OBVIOUS
<1>1. CASE Stopped \/ UNCHANGED allvars
  BY <1>1 DEF Stopped, allvars, vars, svars, GeomOK, Linked
<1>2. ASSUME NEW t \in Thread, JobStep(t) PROVE GeomOK'
  <2>1. /\ Others(t) /\ UNCHANGED <<xvars, ev, xpc, windows, entry>>
        /\ job'[t].at \in {"done", "take", "work", "nal", "ring", "clean", "init", "give"}
    BY <1>2, JobFacts, SMTT(30)
  <2>2. xinput' = xinput
    BY <1>2 DEF JobStep, Find, TakeLock, Encode, Misuse, QueueNal, Ring, Clean, InitStream, GiveLock
  <2>3. ShapeOK'
    BY <1>2, FInvStep DEF StreamNext, FInv
  <2>4. t = "uv" => job'["uv"].does \notin {"move", "resize"}
    BY <2>1, <2>3 DEF ShapeOK, Thread
  <2>5. t # "uv" => job'["uv"] = job["uv"]
    BY <2>1 DEF Others, Thread
  <2> QED
    BY <2>1, <2>2, <2>4, <2>5 DEF GeomOK, Linked, xvars
<1> QED
  BY <1>1, <1>2, GeomXorg, GeomUv DEF StreamNext

-----------------------------------------------------------------------------
LEMMA FitInit == StreamInit => LInv /\ MInv /\ GeomOK /\ FInv
BY LInvInit, MInvInit, GeomInit, FInvInit

LEMMA FitStep ==
  LInv /\ MInv /\ GeomOK /\ FInv /\ [StreamNext]_allvars => (LInv /\ MInv /\ GeomOK /\ FInv)'
<1> SUFFICES ASSUME LInv, MInv, GeomOK, FInv, [StreamNext]_allvars PROVE (LInv /\ MInv /\ GeomOK /\ FInv)'
  OBVIOUS
<1>1. MInv'
  <2>1. CASE Stopped \/ UNCHANGED allvars
    BY <2>1 DEF Stopped, allvars, vars, xvars, svars, MInv, ListOK, RawOK, Raw, StreamsOK, MakerOK, Making,
                Linked, FoundOK
  <2> QED
    BY <2>1, MInvXorg, MInvUv, MInvJob DEF StreamNext
<1> QED
  BY <1>1, LInvStep, GeomStep, FInvStep

\* Once no thread is about to remake it, a window's stream is there and has
\* the size of its node, for any number of windows, of clients' resizes and
\* of the X server's, however they cross.
THEOREM StreamFits == StreamSpec => []StreamFitsNode
<1>1. LInv /\ MInv /\ GeomOK /\ FInv => StreamFitsNode
  BY DEF FInv, MadeOK, SizeOK, Remaking, Changed, StreamFitsNode
<1> QED
  BY <1>1, FitInit, FitStep, PTL DEF StreamSpec

-----------------------------------------------------------------------------
(* How x264 can be misused. *)

LEMMA MisuseStep ==
  LInv /\ MInv /\ FInv /\ MisuseIsExplained /\ [StreamNext]_allvars => MisuseIsExplained'
<1> SUFFICES ASSUME LInv, MInv, FInv, MisuseIsExplained, [StreamNext]_allvars PROVE MisuseIsExplained'
  OBVIOUS
<1> USE DEF Thread
<1>1. CASE Stopped \/ UNCHANGED allvars
  BY <1>1 DEF Stopped, allvars, svars, MisuseIsExplained
<1>2. ASSUME misuse = "none", misuse' = "none" PROVE MisuseIsExplained'
  BY <1>2 DEF MisuseIsExplained
<1>3. CASE (XTakes \/ XGoesOn) \/ (Input \/ UvGoesOn \/ Wake)
  <2>1. misuse = "none" /\ misuse' = misuse
    <3>1. CASE XTakes \/ XGoesOn
      BY <3>1 DEF XTakes, XGoesOn, Plain, svars, Running, XApply, Damage, CreateStream, DestroyStream,
                  ResizeStream
    <3>2. CASE Input \/ UvGoesOn \/ Wake
      BY <3>2, SMTT(30) DEF Input, InputShowReady, InputMove, InputResize, ConnectDisplay, AtLoop, UvGoesOn, Wake,
                  Plain, svars, Running, EmitFrame, Seek, StoreGeometry, TellX, Spin, GreetOne, GreetNext,
                  UvFault
    <3> QED
      BY <1>3, <3>1, <3>2
  <2> QED
    BY <1>2, <2>1
<1>4. ASSUME NEW t \in Thread, JobStep(t) PROVE MisuseIsExplained'
  <2> DEFINE w == job[t].win
  <2>1. misuse = "none"
    BY <1>4 DEF JobStep, Find, TakeLock, Encode, QueueNal, Ring, Clean, InitStream, GiveLock, At, Running
  <2>2. CASE misuse' = misuse
    BY <1>2, <2>1, <2>2
  <2>3. ASSUME job[t].at \in {"work", "clean"}, w # Freed, ~Usable(w), Misuse(t)
        PROVE  MisuseIsExplained'
    <3>1. job[t].at \in {"work", "clean"} /\ job[t].does \in {"frame", "reset"}
      BY <2>3 DEF FInv, ShapeOK
    <3>2. w \in windows /\ windows \subseteq Window /\ ~Linked(w)
      BY <2>3, <3>1 DEF FInv, HeldOK, Found, MInv, ListOK, Linked
    <3>3. Critical(t, w)
      BY <3>1 DEF Critical, Uses
    <3>4. ~Remaking(w)
      <4>1. \A u \in Thread : Critical(u, w) => u = t
        BY <3>2, <3>3 DEF LInv, LockIsUse
      <4> QED
        BY <3>1, <4>1 DEF Remaking, Critical, Uses
    <3>5. CASE stream[w].ready
      <4>1. w \in spoilt
        BY <2>3, <3>2, <3>4, <3>5 DEF FInv, MadeOK
      <4>2. misuse' = "spoilt" /\ job' = job /\ spoilt' = spoilt
        BY <2>3, <3>5 DEF Misuse
      <4> QED
        BY <3>1, <4>1, <4>2 DEF MisuseIsExplained
    <3>6. CASE ~stream[w].ready
      <4>1. misuse' = "early" /\ job' = job
        BY <2>3, <3>6 DEF Misuse
      <4>2. Making(w)
        BY <3>2, <3>6 DEF MInv, MakerOK
      <4>3. t = "uv"
        BY <3>1, <4>2 DEF Making
      <4> QED
        BY <3>1, <4>1, <4>2, <4>3 DEF MisuseIsExplained, Making
    <3> QED
      BY <3>5, <3>6
  <2>4. CASE Clean(t) /\ (stream[w].pic = "wild" \/ stream[w].encoder # "open") /\ Misuse(t)
    BY <2>3, <2>4 DEF Clean, At, Usable
  <2>5. CASE Encode(t) /\ ~Usable(w) /\ Misuse(t)
    BY <2>3, <2>5 DEF Encode, At
  <2>6. CASE Find(t) \/ TakeLock(t) \/ QueueNal(t) \/ Ring(t) \/ InitStream(t) \/ GiveLock(t)
    <3>1. misuse' = misuse
      BY <2>6 DEF Find, TakeLock, QueueNal, Ring, InitStream, GiveLock
    <3> QED
      BY <2>2, <3>1
  <2>7. CASE Encode(t)
    <3>1. misuse' = misuse \/ (~Usable(w) /\ Misuse(t))
      BY <2>7 DEF Encode
    <3> QED
      BY <2>2, <2>5, <2>7, <3>1
  <2>8. CASE Clean(t)
    <3>1. misuse' = misuse \/ ((stream[w].pic = "wild" \/ stream[w].encoder # "open") /\ Misuse(t))
      BY <2>8 DEF Clean
    <3> QED
      BY <2>2, <2>4, <2>8, <3>1
  <2> QED
    BY <1>4, <2>6, <2>7, <2>8 DEF JobStep
<1> QED
  BY <1>1, <1>3, <1>4 DEF StreamNext

\* x264 is misused only on a window whose size stream_init once refused, or
\* by the uv thread on a window the xorg thread is making just then: never
\* on a stream that the other thread is remaking.
THEOREM MisuseOnlyThere == StreamSpec => []MisuseIsExplained
<1>1. StreamInit => MisuseIsExplained
  BY DEF StreamInit, MisuseIsExplained
<1> QED
  BY <1>1, FitInit, FitStep, MisuseStep, PTL DEF StreamSpec

-----------------------------------------------------------------------------
(* Positions. *)

PosOf(r, w) == r.wid = w /\ r.field = "pos"

\* The last position the X server will hear of is the node's.
Told(w) ==
  \E i \in 1..Len(xinput) :
    /\ PosOf(xinput[i], w) /\ xinput[i].value = entry[w].pos
    /\ \A k \in 1..Len(xinput) : k > i => ~PosOf(xinput[k], w)

\* A CONFIGURE of the X server has not reached the node, or a client's move
\* has reached the node and not the X server.
Moving(w) == xpc \in {"queue", "move"} /\ ev = [type |-> "CONFIGURE", wid |-> w]
Telling(w) == job["uv"].win = w /\ job["uv"].does = "move" /\ job["uv"].at = "tell"

PosFine(w) == entry[w].pos = xgeom[w].pos \/ Linked(w) \/ Moving(w) \/ Telling(w) \/ Told(w)
PosOK == \A w \in windows \cap xlive : PosFine(w)

LEMMA ToldAppend ==
  ASSUME xinput \in Seq(Ask), NEW r, xinput' = Append(xinput, r), NEW w, entry' = entry
  PROVE  /\ ~PosOf(r, w) /\ Told(w) => Told(w)'
         /\ PosOf(r, w) /\ r.value = entry[w].pos => Told(w)'
<1>1. /\ Len(xinput') = Len(xinput) + 1 /\ Len(xinput) \in Nat
      /\ \A i \in 1..Len(xinput) : xinput'[i] = xinput[i]
      /\ xinput'[Len(xinput) + 1] = r
  OBVIOUS
<1> HIDE DEF PosOf
<1>2. ASSUME ~PosOf(r, w), Told(w) PROVE Told(w)'
  <2>1. PICK i \in 1..Len(xinput) :
          /\ PosOf(xinput[i], w) /\ xinput[i].value = entry[w].pos
          /\ \A k \in 1..Len(xinput) : k > i => ~PosOf(xinput[k], w)
    BY <1>2 DEF Told
  <2>2. \A k \in 1..Len(xinput') : k > i => ~PosOf(xinput'[k], w)
    BY <1>1, <1>2, <2>1
  <2>3. i \in 1..Len(xinput') /\ xinput'[i] = xinput[i]
    BY <1>1, <2>1
  <2> QED
    BY <2>1, <2>2, <2>3 DEF Told
<1>3. ASSUME PosOf(r, w), r.value = entry[w].pos PROVE Told(w)'
  <2>1. \A k \in 1..Len(xinput') : ~(k > Len(xinput) + 1)
    BY <1>1
  <2>2. Len(xinput) + 1 \in 1..Len(xinput')
    BY <1>1
  <2> QED
    BY <1>1, <1>3, <2>1, <2>2 DEF Told
<1> QED
  BY <1>2, <1>3

LEMMA ToldTail ==
  ASSUME xinput \in Seq(Ask), xinput # <<>>, xinput' = Tail(xinput), NEW w, entry' = entry, Told(w)
  PROVE  Told(w)' \/ (PosOf(Head(xinput), w) /\ Head(xinput).value = entry[w].pos)
<1>1. /\ Len(xinput') = Len(xinput) - 1 /\ Len(xinput) \in Nat \ {0}
      /\ \A i \in 1..Len(xinput') : xinput'[i] = xinput[i + 1]
      /\ Head(xinput) = xinput[1]
  OBVIOUS
<1>2. PICK i \in 1..Len(xinput) :
        /\ PosOf(xinput[i], w) /\ xinput[i].value = entry[w].pos
        /\ \A k \in 1..Len(xinput) : k > i => ~PosOf(xinput[k], w)
  BY DEF Told
<1>3. CASE i = 1
  BY <1>1, <1>2, <1>3
<1>4. CASE i > 1
  <2>1. i - 1 \in 1..Len(xinput') /\ xinput'[i - 1] = xinput[i]
    BY <1>1, <1>2, <1>4
  <2>2. \A k \in 1..Len(xinput') : k > i - 1 => k + 1 \in 1..Len(xinput) /\ k + 1 > i /\ xinput'[k] = xinput[k + 1]
    BY <1>1, <1>2
  <2>3. \A k \in 1..Len(xinput') : k > i - 1 => ~PosOf(xinput'[k], w)
    BY <1>2, <2>2
  <2> QED
    BY <1>2, <2>1, <2>3 DEF Told
<1> QED
  BY <1>1, <1>2, <1>3, <1>4

LEMMA PosXorg == LInv /\ MInv /\ GeomOK /\ PosOK /\ (XTakes \/ XGoesOn) => PosOK'
<1> SUFFICES ASSUME LInv, MInv, GeomOK, PosOK, XTakes \/ XGoesOn PROVE PosOK'
  OBVIOUS
<1> USE DEF Linked, Moving
<1>1. windows \subseteq Window /\ xlive \subseteq Window /\ JobsOK
  BY DEF MInv, ListOK, LInv
<1>2. CASE Plain(XEvent)
  <2>1. /\ UNCHANGED <<windows, entry, job, xinput>> /\ xpc = "wait"
        /\ \E w \in Window :
             /\ \A v \in Window \ {w} : xgeom'[v] = xgeom[v] /\ (v \in xlive' => v \in xlive)
             /\ \/ w \notin xlive
                \/ w \notin xlive'
                \/ UNCHANGED <<xlive, xgeom>>
                \/ xlive' = xlive /\ xpc' = "queue" /\ ev' = [type |-> "CONFIGURE", wid |-> w]
    BY <1>1, <1>2 DEF Plain, svars, XEvent, XCreate, XDestroy, XMap, XUnmap, XConfigure, Take, AtX, GeomOK
  <2>2. \A w \in windows : w \in xlive
    BY <2>1 DEF MInv, ListOK
  <2> QED
    BY <1>1, <2>1, <2>2 DEF PosOK, PosFine, Telling, Told
<1>3. CASE XApply
  <2> DEFINE r == Head(xinput)
  <2>1. /\ UNCHANGED <<windows, entry, job, xlive>> /\ xpc = "wait"
        /\ xinput \in Seq(Ask) /\ xinput # <<>> /\ xinput' = Tail(xinput)
    BY <1>3 DEF XApply, AtX, Take, vars, GeomOK
  <2>2. CASE UNCHANGED vars
    <3>1. ASSUME r.wid \in xlive, r.field = "pos" PROVE r.value = xgeom[r.wid].pos
      <4>1. \/ [xgeom[r.wid] EXCEPT !.pos = r.value] = xgeom[r.wid]
            \/ xpc' = "queue"
        BY <1>3, <3>1 DEF XApply, Take
      <4>2. [xgeom[r.wid] EXCEPT !.pos = r.value] = xgeom[r.wid]
        BY <2>1, <2>2, <4>1 DEF vars
      <4>3. xgeom[r.wid] \in Geom
        BY <3>1 DEF GeomOK
      <4> QED
        BY <4>2, <4>3 DEF Geom
    <3>2. \A w \in windows \cap xlive : Told(w) => Told(w)' \/ entry[w].pos = xgeom[w].pos
      BY <2>1, <3>1, ToldTail DEF PosOf
    <3> QED
      BY <2>1, <2>2, <3>2 DEF PosOK, PosFine, Telling, vars
  <2>3. CASE ~UNCHANGED vars
    <3>1. /\ xpc' = "queue" /\ ev' = [type |-> "CONFIGURE", wid |-> r.wid]
          /\ \E g : xgeom' = [xgeom EXCEPT ![r.wid] = g]
      BY <1>3, <2>3 DEF XApply, Take
    <3>2. \A w \in windows \cap xlive : w # r.wid /\ Told(w) => Told(w)'
      BY <2>1, ToldTail DEF PosOf
    <3>3. \A w \in Window : w # r.wid => xgeom'[w] = xgeom[w]
      BY <3>1 DEF GeomOK
    <3> QED
      BY <1>1, <2>1, <3>1, <3>2, <3>3 DEF PosOK, PosFine, Telling
  <2> QED
    BY <2>2, <2>3
<1>4. ASSUME NEW w \in Window, Damage(w) PROVE PosOK'
  <2>1. UNCHANGED <<windows, entry, xinput, xlive, xgeom, xpc, ev>>
    BY <1>4 DEF Damage, vars
  <2>2. job'["uv"] = job["uv"]
    BY <1>1, <1>4, StartsAs DEF Damage, Others, Thread
  <2> QED
    BY <2>1, <2>2 DEF PosOK, PosFine, Telling, Told
<1>5. CASE CreateStream
  <2>1. /\ xpc = "init" /\ UNCHANGED <<xgeom, xlive, xinput, windows, ev>>
        /\ entry' = [entry EXCEPT ![ev.wid] =
                       [pos |-> xgeom[ev.wid].pos, size |-> xgeom[ev.wid].size, viewable |-> FALSE]]
    BY <1>5 DEF CreateStream, CreateInit, AtX, xvars
  <2>2. job'["uv"] = job["uv"]
    BY <1>1, <1>5, StartsAs DEF CreateStream, Others, Thread
  <2>3. /\ ev.wid \in Window => entry'[ev.wid].pos = xgeom[ev.wid].pos
        /\ \A w \in Window \ {ev.wid} : entry'[w] = entry[w]
    BY <2>1 DEF GeomOK
  <2> QED
    BY <1>1, <2>1, <2>2, <2>3 DEF PosOK, PosFine, Telling, Told
<1>6. CASE DestroyStream
  <2>1. /\ xpc = "unlink" /\ UNCHANGED <<xgeom, xlive, xinput>>
        /\ windows' = windows \ {ev.wid} /\ entry' = [entry EXCEPT ![ev.wid] = Unset]
    BY <1>6 DEF DestroyStream, DestroyUnlink, AtX, xvars
  <2>2. \A w \in Window \ {ev.wid} : entry'[w] = entry[w]
    BY <2>1 DEF GeomOK
  <2>3. ASSUME NEW w \in windows \ {ev.wid}, Telling(w) PROVE Telling(w)'
    BY <1>6, <2>3 DEF DestroyStream, Telling
  <2> QED
    BY <1>1, <2>1, <2>2, <2>3 DEF PosOK, PosFine, Told
<1>7. CASE Plain(CreateLink)
  <2>1. /\ xpc = "link" /\ xpc' = "init" /\ UNCHANGED <<xgeom, xlive, xinput, entry, ev, job>>
        /\ windows' = windows \cup {ev.wid}
    BY <1>7 DEF Plain, CreateLink, AtX, xvars, svars
  <2> QED
    BY <2>1 DEF PosOK, PosFine, Telling, Told
<1>8. CASE ResizeStream \/ Plain(MapViewable \/ Enqueue \/ ConfigureMove \/ AsyncSend)
  <2>1. /\ UNCHANGED <<xgeom, xlive, xinput, windows>>
        /\ xpc \in {"viewable", "queue", "move", "resize", "async"}
        /\ xpc = "queue" => /\ ev' = ev /\ entry' = entry
                            /\ ev.type = "CONFIGURE" /\ ev.wid \in windows => xpc' = "move"
    BY <1>8 DEF ResizeStream, ConfigureResize, Plain, MapViewable, Enqueue, ConfigureMove, AsyncSend, AtX,
                xvars, svars
  <2>2. job'["uv"] = job["uv"]
    BY <1>8, XorgJobs, <2>1 DEF DestroyStream, DestroyUnlink, AtX
  <2>3. \/ UNCHANGED entry /\ xpc # "move"
        \/ xpc = "viewable" /\ entry' = [entry EXCEPT ![ev.wid].viewable = TRUE]
        \/ xpc = "move" /\ entry' = [entry EXCEPT ![ev.wid].pos = xgeom[ev.wid].pos]
        \/ xpc = "resize" /\ entry' = [entry EXCEPT ![ev.wid].size = xgeom[ev.wid].size]
    BY <1>8 DEF ResizeStream, ConfigureResize, Plain, MapViewable, Enqueue, ConfigureMove, AsyncSend, AtX
  <2>4. \A w \in windows :
          \/ entry'[w].pos = entry[w].pos /\ (xpc = "move" => w # ev.wid)
          \/ xpc = "move" /\ entry'[w].pos = xgeom[w].pos
    <3>1. \A w \in windows : entry[w] \in Entry
      BY <1>1 DEF GeomOK
    <3>2. CASE UNCHANGED entry /\ xpc # "move"
      BY <3>2
    <3>3. CASE xpc = "viewable" /\ entry' = [entry EXCEPT ![ev.wid].viewable = TRUE]
      <4>1. entry' = [entry EXCEPT ![ev.wid] = [entry[ev.wid] EXCEPT !.viewable = TRUE]]
        BY <3>3
      <4>2. \A w \in windows : entry'[w] = IF w = ev.wid THEN [entry[ev.wid] EXCEPT !.viewable = TRUE] ELSE entry[w]
        BY <1>1, <4>1 DEF GeomOK
      <4>3. ev.wid \in windows => [entry[ev.wid] EXCEPT !.viewable = TRUE].pos = entry[ev.wid].pos
        BY <3>1, ViewableSet
      <4> QED
        BY <3>3, <4>2, <4>3
    <3>4. CASE xpc = "move" /\ entry' = [entry EXCEPT ![ev.wid].pos = xgeom[ev.wid].pos]
      BY <1>1, <3>1, <3>4 DEF GeomOK, Entry
    <3>5. CASE xpc = "resize" /\ entry' = [entry EXCEPT ![ev.wid].size = xgeom[ev.wid].size]
      BY <1>1, <3>1, <3>5 DEF GeomOK, Entry
    <3> QED
      BY <2>3, <3>2, <3>3, <3>4, <3>5
  <2> QED
    BY <2>1, <2>2, <2>4 DEF PosOK, PosFine, Telling, Told
<1> QED
  BY <1>2, <1>3, <1>4, <1>5, <1>6, <1>7, <1>8 DEF XTakes, XGoesOn, Plain

LEMMA PosUv == LInv /\ MInv /\ FInv /\ GeomOK /\ PosOK /\ (Input \/ UvGoesOn \/ Wake) => PosOK'
<1> SUFFICES ASSUME LInv, MInv, FInv, GeomOK, PosOK, Input \/ UvGoesOn \/ Wake PROVE PosOK'
  OBVIOUS
<1> USE DEF Linked, Moving, Thread
<1>1. JobsOK /\ windows \subseteq Window /\ xlive \subseteq Window
  BY DEF LInv, MInv, ListOK
<1>2. UNCHANGED <<windows, ev, xpc, xgeom, xlive>>
  BY DEF Input, InputShowReady, InputMove, InputResize, ConnectDisplay, UvGoesOn, Wake, Plain, svars,
         EmitNext, EmitFrame, EmitEnd, EmitBegin, Seek, StoreGeometry, TellX, Spin, GreetOne, GreetNext,
         UvFault, vars, xvars
<1>3. CASE UNCHANGED <<entry, xinput>> /\ (UNCHANGED job \/ job["uv"].at # "tell")
  BY <1>2, <1>3 DEF PosOK, PosFine, Telling, Told
<1>4. CASE StoreGeometry
  <2> DEFINE w == job["uv"].win
  <2>1. /\ job["uv"].at = "store" /\ w \in windows /\ job["uv"].does \in {"move", "resize"} /\ xinput' = xinput
        /\ entry[w] \in Entry
    BY <1>1, <1>4 DEF StoreGeometry, FInv, ShapeOK, HeldOK, Found, GeomOK
  <2>2. job'["uv"].at = "tell" /\ job'["uv"].does = job["uv"].does /\ job'["uv"].win = w
    BY <1>1, <1>4, GotoMoves DEF StoreGeometry
  <2>3. \A v \in windows \ {w} : entry'[v] = entry[v]
    BY <1>1, <1>4, <2>1 DEF StoreGeometry, GeomOK
  <2>4. CASE job["uv"].does = "move"
    <3>1. \A v \in windows : v = w => Telling(v)'
      BY <2>2, <2>4 DEF Telling
    <3> QED
      BY <1>2, <2>1, <2>3, <3>1 DEF PosOK, PosFine, Telling, Told
  <2>5. CASE job["uv"].does = "resize"
    <3>1. entry' = [entry EXCEPT ![w].size = job["uv"].arg]
      BY <1>4, <2>5 DEF StoreGeometry
    <3>2. \A v \in windows : entry'[v].pos = entry[v].pos
      BY <1>1, <2>1, <2>3, <3>1 DEF GeomOK, Entry
    <3> QED
      BY <1>2, <2>1, <3>2 DEF PosOK, PosFine, Telling, Told
  <2> QED
    BY <2>1, <2>4, <2>5
<1>5. CASE TellX
  <2> DEFINE w == job["uv"].win
  <2>1. xinput \in Seq(Ask) /\ entry' = entry
    BY <1>5 DEF TellX, vars, GeomOK
  <2>2. CASE job["uv"].does = "move"
    <3>1. xinput' = Append(xinput, [wid |-> w, field |-> "pos", value |-> entry[w].pos])
      BY <1>5, <2>2 DEF TellX
    <3>2. \A v \in windows : Telling(v) \/ Told(v) => Told(v)'
      BY <2>1, <3>1, ToldAppend DEF PosOf, Telling
    <3> QED
      BY <1>2, <2>1, <3>2 DEF PosOK, PosFine
  <2>3. CASE job["uv"].does = "resize"
    <3>1. xinput' = Append(xinput, [wid |-> w, field |-> "size", value |-> entry[w].size])
      BY <1>5, <2>3 DEF TellX
    <3>2. \A v \in windows : Told(v) => Told(v)'
      BY <2>1, <3>1, ToldAppend DEF PosOf
    <3> QED
      BY <1>2, <2>1, <2>3, <3>2 DEF PosOK, PosFine, Telling
  <2> QED
    BY <1>5, <2>2, <2>3 DEF TellX
<1> QED
  BY <1>3, <1>4, <1>5
     DEF Input, InputShowReady, InputMove, InputResize, ConnectDisplay, AtLoop, Idle, NoJob, UvGoesOn, Wake,
         Plain, svars, vars, EmitNext, EmitFrame, EmitEnd, EmitBegin, Seek, Spin, GreetOne, GreetNext, UvFault

LEMMA PosStep == LInv /\ MInv /\ FInv /\ GeomOK /\ PosOK /\ [StreamNext]_allvars => PosOK'
<1> SUFFICES ASSUME LInv, MInv, FInv, GeomOK, PosOK, [StreamNext]_allvars PROVE PosOK'
  OBVIOUS
<1>1. CASE Stopped \/ UNCHANGED allvars
  BY <1>1 DEF Stopped, allvars, vars, svars, PosOK, PosFine, Linked, Moving, Telling, Told
<1>2. ASSUME NEW t \in Thread, JobStep(t) PROVE PosOK'
  <2>1. /\ Others(t) /\ UNCHANGED <<xvars, ev, xpc, windows, entry>>
        /\ job[t].at \in {"find", "take", "work", "nal", "ring", "clean", "init", "give"}
    BY <1>2, JobFacts, SMTT(30)
  <2>2. xinput' = xinput
    BY <1>2 DEF JobStep, Find, TakeLock, Encode, Misuse, QueueNal, Ring, Clean, InitStream, GiveLock
  <2>3. \A w \in windows : Telling(w) => Telling(w)'
    BY <2>1 DEF Others, Telling, Thread
  <2> QED
    BY <2>1, <2>2, <2>3 DEF PosOK, PosFine, Linked, Moving, Told, xvars
<1> QED
  BY <1>1, <1>2, PosXorg, PosUv DEF StreamNext

\* Once nothing about it is on its way, a window's position in the node is
\* the X server's, however the moves of clients and of X crossed.
THEOREM PositionsAgree == StreamSpec => []PositionSettles
<1>1. StreamInit => PosOK
  BY DEF StreamInit, Init, PosOK
<1>2. LInv /\ MInv /\ GeomOK /\ FInv /\ PosOK => PositionSettles
  <2> SUFFICES ASSUME LInv, MInv, GeomOK, FInv, PosOK,
                      NEW w \in windows, Running, xpc = "wait",
                      \A i \in 1..Len(xinput) : xinput[i].wid = w => xinput[i].field # "pos",
                      ~(job["uv"].win = w /\ job["uv"].does = "move" /\ job["uv"].at = "tell")
               PROVE  entry[w].pos = xgeom[w].pos
    BY DEF PositionSettles
  <2>1. w \in xlive
    BY DEF MInv, ListOK
  <2>2. ~Linked(w) /\ ~Moving(w) /\ ~Telling(w) /\ ~Told(w)
    BY DEF Linked, Moving, Telling, Told, PosOf
  <2> QED
    BY <2>1, <2>2 DEF PosOK, PosFine
<1> QED
  BY <1>1, <1>2, FitInit, FitStep, PosStep, PTL DEF StreamSpec

-----------------------------------------------------------------------------
(* Whole frames. *)

Nal == [wid : Window, nal : Nat, of : Nat]
NalSeqs == frames \in Seq(Nal) /\ \A t \in Thread : job[t].nals \in Seq(Nal)

\* Thread t is in the middle of a frame of w.
Sending(t, w) == job[t].win = w /\ job[t].at \in {"nal", "ring"}

\* It has the rest of the frame in hand, in order.
Rest(ns, w) ==
  /\ ns # <<>>
  /\ \A k \in 1..Len(ns) :
       ns[k] = [wid |-> w, of |-> ns[1].of, nal |-> (ns[1].of - Len(ns)) + k]
RestOK == \A t \in Thread, w \in Window : Sending(t, w) => Rest(job[t].nals, w)

\* The last NAL of a window in the list is the one before what is in hand,
\* or the one whose wake-up is still to be sent, or the last of its frame.
LastOfWindow(i) == \A j \in 1..Len(frames) : j > i => frames[j].wid # frames[i].wid
Ends(i) ==
  /\ \A t \in Thread : Sending(t, frames[i].wid) =>
       /\ job[t].at = "nal" => Follows(frames[i], job[t].nals[1])
       /\ job[t].at = "ring" => frames[i] = job[t].nals[1]
  /\ (\A t \in Thread : ~Sending(t, frames[i].wid)) => frames[i].nal = frames[i].of
EndsOK == \A i \in 1..Len(frames) : LastOfWindow(i) => Ends(i)

\* All but the last.
Between(i, j) == \A k \in (i + 1)..(j - 1) : frames[k].wid # frames[i].wid
OrderOK ==
  \A i, j \in 1..Len(frames) :
    i < j /\ frames[i].wid = frames[j].wid /\ Between(i, j) => Follows(frames[i], frames[j])

WInv == NalSeqs /\ RestOK /\ (job["uv"].win # Freed => EndsOK /\ OrderOK)

LEMMA WInvInit == StreamInit => WInv
<1> SUFFICES ASSUME StreamInit PROVE WInv
  OBVIOUS
<1>1. frames = <<>> /\ \A t \in Thread : job[t].nals = <<>> /\ job[t].at = "done"
  BY DEF StreamInit, NoJob
<1>2. <<>> \in Seq(Nal) /\ 1..Len(<<>>) = {}
  OBVIOUS
<1>3. NalSeqs /\ RestOK
  BY <1>1, <1>2 DEF NalSeqs, RestOK, Sending
<1>4. EndsOK /\ OrderOK
  BY <1>1, <1>2 DEF EndsOK, OrderOK
<1> QED
  BY <1>3, <1>4 DEF WInv

LEMMA RestFirst ==
  ASSUME NEW ns \in Seq(Nal), NEW w, Rest(ns, w)
  PROVE  Len(ns) \in Nat \ {0} /\ 1 \in 1..Len(ns) /\ ns[1] \in Nal /\ ns[1].wid = w
<1>1. Len(ns) \in Nat \ {0} /\ 1 \in 1..Len(ns) /\ ns[1] \in Nal
  BY DEF Rest
<1>2. PICK m, n : ns[1] = [wid |-> w, of |-> m, nal |-> n]
  BY <1>1 DEF Rest
<1> QED
  BY <1>1, <1>2

LEMMA OneLess ==
  ASSUME NEW a \in Nat, NEW n \in Nat \ {0}, NEW k \in Nat
  PROVE  (a - n) + (k + 1) = (a - (n - 1)) + k
OBVIOUS

LEMMA NalWindow ==
  ASSUME NalSeqs, NEW i \in 1..Len(frames)
  PROVE  frames[i] \in Nal /\ frames[i].wid \in Window
<1>1. frames[i] \in Nal
  BY DEF NalSeqs
<1> QED
  BY <1>1 DEF Nal

\* The lock keeps a window's frames apart.
LEMMA OneSender ==
  ASSUME LInv, FInv, NEW t \in Thread, NEW u \in Thread, NEW w \in Window, Sending(t, w),
         job[u].win = w, job[u].at \in {"work", "nal", "ring"}
  PROVE  t = u
<1>1. job[t].does = "frame" /\ job[u].does = "frame"
  BY DEF FInv, ShapeOK, Sending
<1>2. Critical(t, w) /\ Critical(u, w)
  BY <1>1 DEF Critical, Uses, Sending
<1> QED
  BY <1>2 DEF LInv, LockIsUse

\* A step that has nothing to do with frames.
LEMMA WInvKeep ==
  ASSUME WInv, frames' = frames, NalSeqs',
         job'["uv"].win # Freed => job["uv"].win # Freed,
         \A t \in Thread, w \in Window :
           /\ Sending(t, w)' => Sending(t, w) /\ job'[t] = job[t]
           /\ Sending(t, w) => Sending(t, w)' \/ job'["uv"].win = Freed
  PROVE  WInv'
<1>1. RestOK'
  BY DEF WInv, RestOK
<1>2. ASSUME job'["uv"].win # Freed PROVE EndsOK' /\ OrderOK'
  <2>1. OrderOK'
    BY <1>2 DEF WInv, OrderOK, Between
  <2>2. ASSUME NEW i \in 1..Len(frames), LastOfWindow(i)' PROVE Ends(i)'
    <3>1. Ends(i) /\ frames[i].wid \in Window
      BY <1>2, <2>2, NalWindow DEF WInv, EndsOK, LastOfWindow
    <3> QED
      BY <1>2, <3>1 DEF Ends
  <2> QED
    BY <2>1, <2>2 DEF EndsOK
<1> QED
  BY <1>1, <1>2 DEF WInv

\* A frame comes out of the encoder.
LEMMA WInvEncode ==
  ASSUME LInv, MInv, FInv, WInv, NEW t \in Thread, Encode(t)
  PROVE  WInv'
<1> USE DEF Thread
<1>1. JobsOK /\ job[t].at = "work" /\ job[t].win # Freed /\ frames' = frames
  BY DEF LInv, Encode, At, Misuse
<1>2. job[t].win \in Window
  BY <1>1 DEF FInv, HeldOK, Found, MInv, ListOK
<1>3. CASE Misuse(t)
  BY <1>1, <1>3, WInvKeep DEF Misuse, WInv, NalSeqs, Sending
<1>4. CASE Goto(t, "give")
  <2>1. IsJob(job[t]) /\ Others(t) /\ job'[t] = [job[t] EXCEPT !.at = "give"]
    BY <1>1, <1>4 DEF Goto, JobsOK, Others
  <2>2. job'[t] = [does |-> job[t].does, at |-> "give", win |-> job[t].win, arg |-> job[t].arg,
                   nals |-> job[t].nals]
    BY <2>1, PlaceSet
  <2>3. NalSeqs'
    BY <1>1, <2>1, <2>2 DEF WInv, NalSeqs, Others
  <2> QED
    BY <1>1, <2>1, <2>2, <2>3, WInvKeep DEF Sending, Others
<1>5. ASSUME NEW n \in 1..MaxNals,
             job' = [job EXCEPT ![t].at = "nal",
                                ![t].nals = [k \in 1..n |-> [wid |-> job[t].win, nal |-> k, of |-> n]]]
      PROVE  WInv'
  <2> DEFINE w == job[t].win
             ns == [k \in 1..n |-> [wid |-> w, nal |-> k, of |-> n]]
  <2>1. n \in Nat \ {0}
    BY <1>5, StreamAssumption
  <2>2. /\ ns \in Seq(Nal) /\ Len(ns) = n /\ ns # <<>>
        /\ \A k \in 1..n : ns[k] = [wid |-> w, nal |-> k, of |-> n]
    BY <1>2, <2>1 DEF Nal
  <2> HIDE DEF ns
  <2>3. /\ IsJob(job[t]) /\ Others(t)
        /\ job'[t] = [job[t] EXCEPT !.at = "nal", !.nals = ns]
    BY <1>1, <1>5 DEF JobsOK, Others, ns
  <2>4. job'[t] = [does |-> job[t].does, at |-> "nal", win |-> w, arg |-> job[t].arg, nals |-> ns]
    BY <2>3 DEF IsJob
  <2>5. NalSeqs'
    BY <1>1, <2>2, <2>3, <2>4, SMTT(30) DEF WInv, NalSeqs, Others
  <2>6. \A u \in Thread, v \in Window :
          Sending(u, v)' <=> (u = t /\ v = w) \/ (u # t /\ Sending(u, v))
    BY <1>1, <2>3, <2>4 DEF Sending, Others
  <2>7. RestOK'
    <3>1. ns[1].of = n
      BY <2>1, <2>2
    <3>2. \A k \in 1..n : ns[k] = [wid |-> w, of |-> n, nal |-> (n - n) + k]
      BY <2>1, <2>2
    <3> QED
      BY <1>1, <2>2, <2>3, <2>4, <2>6, <3>1, <3>2 DEF WInv, RestOK, Rest, Others
  <2>8. ASSUME job'["uv"].win # Freed PROVE EndsOK' /\ OrderOK'
    <3>1. EndsOK /\ OrderOK
      BY <1>1, <2>3, <2>4, <2>8 DEF WInv, Others
    <3>2. OrderOK'
      BY <1>1, <3>1 DEF OrderOK, Between
    <3>3. ASSUME NEW i \in 1..Len(frames), LastOfWindow(i)' PROVE Ends(i)'
      <4>1. Ends(i) /\ frames[i].wid \in Window
        BY <1>1, <3>1, <3>3, NalWindow DEF EndsOK, LastOfWindow, WInv
      <4>2. CASE frames[i].wid = w
        <5>1. \A u \in Thread : ~Sending(u, w)
          BY <1>1, <1>2, OneSender DEF Sending
        <5>2. frames[i].nal = frames[i].of
          BY <4>1, <4>2, <5>1 DEF Ends
        <5>3. ns[1].nal = 1
          BY <2>1, <2>2
        <5> QED
          BY <1>1, <1>2, <2>4, <2>6, <4>2, <5>1, <5>2, <5>3 DEF Ends, Follows
      <4>3. CASE frames[i].wid # w
        <5>1. ~Sending(t, frames[i].wid)
          BY <1>1 DEF Sending
        <5>2. \A u \in Thread : Sending(u, frames[i].wid)' <=> Sending(u, frames[i].wid)
          BY <1>1, <2>6, <4>1, <4>3, <5>1
        <5> QED
          BY <1>1, <2>3, <4>1, <5>1, <5>2 DEF Ends, Others
      <4> QED
        BY <4>2, <4>3
    <3> QED
      BY <1>1, <3>2, <3>3 DEF EndsOK
  <2> QED
    BY <2>5, <2>7, <2>8 DEF WInv
<1> QED
  BY <1>3, <1>4, <1>5 DEF Encode

\* A NAL goes into the list ...
LEMMA WInvQueue ==
  ASSUME LInv, MInv, FInv, WInv, NEW t \in Thread, QueueNal(t)
  PROVE  WInv'
<1> USE DEF Thread
<1>a. \E w, g, L : w = job[t].win /\ g = job[t].nals[1] /\ L = Len(frames)
  OBVIOUS
<1>b. PICK w, g, L : w = job[t].win /\ g = job[t].nals[1] /\ L = Len(frames)
  BY <1>a
<1>1. JobsOK /\ job[t].at = "nal" /\ w # Freed /\ w \in Window
  BY <1>b DEF LInv, QueueNal, At, FInv, HeldOK, Found, MInv, ListOK
<1>2. /\ frames \in Seq(Nal) /\ job[t].nals \in Seq(Nal) /\ job[t].nals # <<>>
      /\ g \in Nal /\ g.wid = w
  <2>1. frames \in Seq(Nal) /\ job[t].nals \in Seq(Nal) /\ Rest(job[t].nals, w)
    BY <1>b, <1>1 DEF WInv, NalSeqs, RestOK, Sending
  <2> QED
    <3>1. job[t].nals # <<>> /\ job[t].nals[1] \in Nal /\ job[t].nals[1].wid = w
      BY <2>1, RestFirst DEF Rest
    <3> QED
      BY <1>b, <2>1, <3>1
<1>3. frames' = Append(frames, g)
  BY <1>b, <1>2 DEF QueueNal
<1>4. /\ frames' \in Seq(Nal) /\ Len(frames') = L + 1 /\ L \in Nat
      /\ \A i \in 1..L : frames'[i] = frames[i]
      /\ frames'[L + 1] = g
  BY <1>b, <1>2, <1>3
<1>5. /\ IsJob(job[t]) /\ Others(t)
      /\ job'[t] = [job[t] EXCEPT !.at = "ring"]
  BY <1>1 DEF QueueNal, Goto, JobsOK, Others
<1>6. job'[t] = [does |-> job[t].does, at |-> "ring", win |-> w, arg |-> job[t].arg,
                 nals |-> job[t].nals]
  BY <1>b, <1>5, PlaceSet
<1>7. \A u \in Thread, v \in Window : Sending(u, v)' <=> Sending(u, v)
  BY <1>1, <1>5, <1>6 DEF Sending, Others
<1>8. \A u \in Thread : job'[u].nals = job[u].nals
  BY <1>5, <1>6 DEF Others
<1>9. NalSeqs' /\ RestOK'
  BY <1>b, <1>4, <1>7, <1>8 DEF WInv, NalSeqs, RestOK
<1>10. \A u \in Thread : Sending(u, w) <=> u = t
  BY <1>b, <1>1, OneSender DEF Sending
<1>11. ASSUME job'["uv"].win # Freed PROVE EndsOK' /\ OrderOK'
  <2>1. EndsOK /\ OrderOK
    BY <1>1, <1>5, <1>6, <1>11 DEF WInv, Others
  <2>2. \A i \in 1..L : frames[i].wid \in Window
    BY <1>b, NalWindow DEF WInv
  <2>3. ASSUME NEW i \in 1..Len(frames'), LastOfWindow(i)' PROVE Ends(i)'
    <3>1. CASE i = L + 1
      <4>1. frames'[i] = g /\ frames'[i].wid = w
        BY <1>2, <1>4, <3>1
      <4>2. \A u \in Thread : Sending(u, w)' <=> u = t
        BY <1>1, <1>7, <1>10
      <4>3. job'[t].at = "ring" /\ job'[t].nals[1] = g
        BY <1>b, <1>6
      <4> QED
        BY <4>1, <4>2, <4>3 DEF Ends
    <3>2. CASE i \in 1..L
      <4>1. frames'[i] = frames[i] /\ frames[i].wid \in Window /\ frames[i].wid # w
        BY <1>2, <1>4, <2>2, <2>3, <3>2 DEF LastOfWindow
      <4>2. Ends(i)
        BY <1>b, <1>4, <2>1, <2>3, <3>2 DEF EndsOK, LastOfWindow
      <4>3. ~Sending(t, frames[i].wid)
        BY <1>b, <4>1 DEF Sending
      <4>4. \A u \in Thread : u # t => job'[u] = job[u]
        BY <1>5 DEF Others
      <4> QED
        BY <1>7, <4>1, <4>2, <4>3, <4>4 DEF Ends
    <3> QED
      BY <1>4, <3>1, <3>2
  <2>4. ASSUME NEW i \in 1..Len(frames'), NEW j \in 1..Len(frames'), i < j,
               frames'[i].wid = frames'[j].wid, Between(i, j)'
        PROVE  Follows(frames'[i], frames'[j])
    <3>1. i \in 1..L /\ frames'[i] = frames[i]
      BY <1>b, <1>4, <2>4
    <3>2. CASE j = L + 1
      <4>1. frames[i].wid = w /\ frames'[j] = g
        BY <1>2, <1>4, <2>4, <3>1, <3>2
      <4>2. LastOfWindow(i)
        BY <1>b, <1>4, <2>4, <3>1, <3>2 DEF LastOfWindow, Between
      <4>3. Ends(i) /\ Sending(t, w)
        BY <1>b, <1>1, <1>10, <2>1, <3>1, <4>2 DEF EndsOK
      <4> QED
        BY <1>b, <1>1, <3>1, <4>1, <4>3 DEF Ends
    <3>3. CASE j \in 1..L
      <4>1. Between(i, j)
        BY <1>b, <1>4, <2>4, <3>1, <3>3 DEF Between
      <4> QED
        BY <1>b, <1>4, <2>1, <2>4, <3>1, <3>3, <4>1 DEF OrderOK
    <3> QED
      BY <1>4, <3>2, <3>3
  <2>5. OrderOK'
    BY <2>4 DEF OrderOK
  <2> QED
    BY <2>3, <2>5 DEF EndsOK
<1> QED
  BY <1>9, <1>11 DEF WInv

\* ... and the thread goes on with the next one, or is done.
LEMMA WInvRing ==
  ASSUME LInv, MInv, FInv, WInv, NEW t \in Thread, Ring(t)
  PROVE  WInv'
<1> USE DEF Thread
<1>a. \E w, ns, ms : w = job[t].win /\ ns = job[t].nals /\ ms = Tail(job[t].nals)
  OBVIOUS
<1>b. PICK w, ns, ms : w = job[t].win /\ ns = job[t].nals /\ ms = Tail(job[t].nals)
  BY <1>a
<1>1. JobsOK /\ job[t].at = "ring" /\ w # Freed /\ w \in Window /\ frames' = frames
  BY <1>b DEF LInv, Ring, At, FInv, HeldOK, Found, MInv, ListOK
<1>2. ns \in Seq(Nal) /\ Rest(ns, w)
  BY <1>b, <1>1 DEF WInv, NalSeqs, RestOK, Sending
<1>3. /\ Len(ns) \in Nat \ {0} /\ 1 \in 1..Len(ns) /\ ns[1] \in Nal /\ ns[1].wid = w
      /\ \A k \in 1..Len(ns) :
           ns[k] = [wid |-> w, of |-> ns[1].of, nal |-> (ns[1].of - Len(ns)) + k]
  BY <1>2, RestFirst DEF Rest
<1>4. ns[1].of \in Nat
  BY <1>3 DEF Nal
<1>5. /\ ms \in Seq(Nal) /\ Len(ms) = Len(ns) - 1
      /\ \A k \in 1..Len(ms) : ms[k] = ns[k + 1]
  BY <1>b, <1>2, <1>3
<1>6. /\ IsJob(job[t]) /\ Others(t)
      /\ job'[t] = [job[t] EXCEPT !.at = IF Len(ns) = 1 THEN "give" ELSE "nal", !.nals = ms]
  BY <1>b, <1>1 DEF Ring, Rung, JobsOK, Others
<1>7. job'[t] = [does |-> job[t].does, at |-> IF Len(ns) = 1 THEN "give" ELSE "nal", win |-> w,
                 arg |-> job[t].arg, nals |-> ms]
  BY <1>b, <1>6 DEF IsJob
<1>8. \A u \in Thread, v \in Window :
        Sending(u, v)' <=> Sending(u, v) /\ (u = t => Len(ns) # 1)
  BY <1>b, <1>1, <1>6, <1>7 DEF Sending, Others
<1>9. NalSeqs'
  BY <1>1, <1>5, <1>6, <1>7, ZenonT(30) DEF WInv, NalSeqs, Others
<1>10. RestOK'
  <2>1. ASSUME Len(ns) # 1 PROVE Rest(ms, w)
    <3>1. ms # <<>> /\ 1 \in 1..Len(ms)
      BY <1>3, <1>5, <2>1
    <3>2. ASSUME NEW k \in 1..Len(ms)
          PROVE  ms[k] = [wid |-> w, of |-> ns[1].of, nal |-> (ns[1].of - Len(ms)) + k]
      <4>1. k + 1 \in 1..Len(ns) /\ ms[k] = ns[k + 1]
        BY <1>3, <1>5
      <4>2. (ns[1].of - Len(ns)) + (k + 1) = (ns[1].of - Len(ms)) + k
        <5>1. k \in Nat /\ Len(ms) = Len(ns) - 1
          BY <1>5
        <5>2. (ns[1].of - Len(ns)) + (k + 1) = (ns[1].of - (Len(ns) - 1)) + k
          BY <1>3, <1>4, <5>1, OneLess, Zenon
        <5>3. (ns[1].of - (Len(ns) - 1)) + k = (ns[1].of - Len(ms)) + k
          BY <5>1, Zenon
        <5> QED
          BY <5>2, <5>3, Zenon
      <4> QED
        BY <1>3, <4>1, <4>2
    <3>3. ms[1].of = ns[1].of
      <4>1. PICK n : ms[1] = [wid |-> w, of |-> ns[1].of, nal |-> n]
        BY <3>1, <3>2
      <4> QED
        BY <4>1
    <3>4. \A k \in 1..Len(ms) : ms[k] = [wid |-> w, of |-> ms[1].of, nal |-> (ms[1].of - Len(ms)) + k]
      BY <3>2, <3>3, Zenon
    <3> QED
      BY <3>1, <3>4 DEF Rest
  <2>2. \A v \in Window : Sending(t, v)' => v = w /\ Len(ns) # 1
    BY <1>b, <1>8 DEF Sending
  <2> QED
    BY <1>6, <1>7, <1>8, <2>1, <2>2 DEF WInv, RestOK, Others
<1>11. ASSUME job'["uv"].win # Freed PROVE EndsOK' /\ OrderOK'
  <2>1. EndsOK /\ OrderOK
    BY <1>1, <1>6, <1>7, <1>11 DEF WInv, Others
  <2>2. OrderOK'
    BY <1>1, <2>1 DEF OrderOK, Between
  <2>3. ASSUME NEW i \in 1..Len(frames), LastOfWindow(i)' PROVE Ends(i)'
    <3>1. Ends(i) /\ frames[i].wid \in Window
      BY <1>1, <2>1, <2>3, NalWindow DEF EndsOK, LastOfWindow, WInv
    <3>2. CASE frames[i].wid = w
      <4>1. \A u \in Thread : Sending(u, w) <=> u = t
        BY <1>b, <1>1, OneSender DEF Sending
      <4>2. frames[i] = ns[1]
        BY <1>b, <1>1, <3>1, <3>2, <4>1 DEF Ends
      <4>3. CASE Len(ns) = 1
        <5>1. \A u \in Thread : ~Sending(u, w)'
          BY <1>1, <1>8, <4>1, <4>3
        <5>2. ns[1].nal = ns[1].of
          BY <1>3, <1>4, <4>3
        <5> QED
          BY <1>1, <3>2, <4>2, <5>1, <5>2 DEF Ends
      <4>4. CASE Len(ns) # 1
        <5>1. /\ ns[1] = [wid |-> w, of |-> ns[1].of, nal |-> (ns[1].of - Len(ns)) + 1]
              /\ ms[1] = [wid |-> w, of |-> ns[1].of, nal |-> (ns[1].of - Len(ns)) + 2]
          <6>1. 2 \in 1..Len(ns) /\ 1 \in 1..Len(ms) /\ ms[1] = ns[2]
            BY <1>3, <1>5, <4>4
          <6> QED
            BY <1>3, <6>1
        <5>2. ns[1].nal = (ns[1].of - Len(ns)) + 1 /\ ns[1].nal # ns[1].of
          <6>1. \A a \in Nat, n \in Nat : n # 1 => (a - n) + 1 # a
            OBVIOUS
          <6>2. (ns[1].of - Len(ns)) + 1 # ns[1].of
            BY <1>3, <1>4, <4>4, <6>1, Zenon
          <6>3. ns[1].nal = (ns[1].of - Len(ns)) + 1
            <7>1. \E p : p = (ns[1].of - Len(ns)) + 1
              OBVIOUS
            <7>2. PICK p : p = (ns[1].of - Len(ns)) + 1
              BY <7>1
            <7>3. ns[1] = [wid |-> w, of |-> ns[1].of, nal |-> p]
              BY <5>1, <7>2, Zenon
            <7> QED
              BY <7>2, <7>3
          <6> QED
            BY <6>2, <6>3, Zenon
        <5>3. ms[1] = [ns[1] EXCEPT !.nal = @ + 1]
          BY <1>4, <5>1, <5>2
        <5>4. Follows(ns[1], ms[1])
          BY <5>2, <5>3 DEF Follows
        <5>5. \A u \in Thread : Sending(u, w)' <=> u = t
          BY <1>1, <1>8, <4>1, <4>4
        <5>6. job'[t].at = "nal" /\ job'[t].nals = ms
          BY <1>7, <4>4
        <5> QED
          BY <1>1, <3>2, <4>2, <5>4, <5>5, <5>6 DEF Ends
      <4> QED
        BY <4>3, <4>4
    <3>3. CASE frames[i].wid # w
      <4>1. ~Sending(t, frames[i].wid)
        BY <1>b, <3>3 DEF Sending
      <4>2. \A u \in Thread, v \in Window : v # w => (Sending(u, v)' <=> Sending(u, v))
        BY <1>b, <1>8 DEF Sending
      <4>3. \A u \in Thread : u # t => job'[u] = job[u]
        BY <1>6 DEF Others
      <4> QED
        <5>1. PICK v \in Window : v = frames[i].wid
          BY <3>1
        <5>2. \A u \in Thread : (Sending(u, v)' <=> Sending(u, v)) /\ (Sending(u, v) => job'[u] = job[u])
          BY <3>3, <4>1, <4>2, <4>3, <5>1
        <5>3. frames'[i] = frames[i]
          BY <1>1
        <5> QED
          BY <3>1, <5>1, <5>2, <5>3 DEF Ends
    <3> QED
      BY <3>2, <3>3
  <2> QED
    BY <1>1, <2>2, <2>3 DEF EndsOK
<1> QED
  BY <1>9, <1>10, <1>11 DEF WInv

\* emit_write takes one.
LEMMA WInvEmit == WInv /\ EmitFrame => WInv'
<1> SUFFICES ASSUME WInv, EmitFrame PROVE WInv'
  OBVIOUS
<1> DEFINE L == Len(frames)
<1>1. /\ frames \in Seq(Nal) /\ frames # <<>> /\ frames' = Tail(frames) /\ job' = job
  BY DEF WInv, NalSeqs, EmitFrame
<1>2. /\ frames' \in Seq(Nal) /\ L \in Nat \ {0} /\ Len(frames') = L - 1
      /\ \A i \in 1..(L - 1) : frames'[i] = frames[i + 1]
  BY <1>1
<1>3. NalSeqs' /\ RestOK'
  BY <1>1, <1>2 DEF WInv, NalSeqs, RestOK, Sending
<1>4. ASSUME EndsOK, OrderOK PROVE EndsOK' /\ OrderOK'
  <2>1. ASSUME NEW i \in 1..(L - 1), LastOfWindow(i)' PROVE Ends(i)'
    <3>1. i + 1 \in 1..L /\ frames'[i] = frames[i + 1]
      BY <1>2
    <3>2. ASSUME NEW j \in 1..L, j > i + 1 PROVE frames[j].wid # frames[i + 1].wid
      <4>1. j - 1 \in 1..(L - 1) /\ j - 1 > i /\ frames'[j - 1] = frames[(j - 1) + 1] /\ (j - 1) + 1 = j
        BY <1>2, <3>2
      <4> QED
        BY <1>2, <2>1, <3>1, <4>1 DEF LastOfWindow
    <3>3. LastOfWindow(i + 1)
      BY <3>2 DEF LastOfWindow
    <3>4. Ends(i + 1)
      BY <1>4, <3>1, <3>3 DEF EndsOK
    <3> QED
      BY <1>1, <3>1, <3>4 DEF Ends, Sending
  <2>2. ASSUME NEW i \in 1..(L - 1), NEW j \in 1..(L - 1), i < j,
               frames'[i].wid = frames'[j].wid, Between(i, j)'
        PROVE  Follows(frames'[i], frames'[j])
    <3>1. /\ i + 1 \in 1..L /\ j + 1 \in 1..L /\ i + 1 < j + 1
          /\ frames'[i] = frames[i + 1] /\ frames'[j] = frames[j + 1]
      BY <1>2, <2>2
    <3>2. ASSUME NEW k \in ((i + 1) + 1)..((j + 1) - 1) PROVE frames[k].wid # frames[i + 1].wid
      <4>1. /\ k - 1 \in (i + 1)..(j - 1) /\ k - 1 \in 1..(L - 1)
            /\ frames'[k - 1] = frames[(k - 1) + 1] /\ (k - 1) + 1 = k
        BY <1>2, <3>2
      <4> QED
        BY <2>2, <3>1, <4>1 DEF Between
    <3>3. Between(i + 1, j + 1)
      BY <3>2 DEF Between
    <3> QED
      BY <1>4, <2>2, <3>1, <3>3 DEF OrderOK
  <2>3. EndsOK'
    BY <1>2, <2>1 DEF EndsOK
  <2> QED
    BY <1>2, <2>2, <2>3 DEF OrderOK
<1> QED
  BY <1>1, <1>3, <1>4 DEF WInv

\* A thread goes on outside the sending of a frame.
LEMMA WInvOutside ==
  ASSUME LInv, WInv, NEW t \in Thread, frames' = frames,
         \/ Return(t)
         \/ \E p : Goto(t, p)
         \/ \E does, at, win, arg : Start(t, does, at, win, arg),
         job[t].at \notin {"nal", "ring"}, job'[t].at \notin {"nal", "ring"}, job[t].win # Freed
  PROVE  WInv'
<1> USE DEF Thread
<1>1. JobsOK
  BY DEF LInv
<1>2. <<>> \in Seq(Nal)
  OBVIOUS
<1>3. Others(t) /\ job'[t].nals \in Seq(Nal)
  <2>1. CASE Return(t)
    <3>1. job'[t] = NoJob /\ Others(t)
      BY <1>1, <2>1 DEF Return, JobsOK, Others
    <3> QED
      BY <1>2, <3>1 DEF NoJob
  <2>2. ASSUME NEW p, Goto(t, p) PROVE Others(t) /\ job'[t].nals \in Seq(Nal)
    <3>1. IsJob(job[t]) /\ Others(t) /\ job'[t] = [job[t] EXCEPT !.at = p]
      BY <1>1, <2>2 DEF Goto, JobsOK, Others
    <3>2. job'[t] = [does |-> job[t].does, at |-> p, win |-> job[t].win, arg |-> job[t].arg,
                     nals |-> job[t].nals]
      BY <3>1, PlaceSet
    <3> QED
      BY <3>1, <3>2 DEF WInv, NalSeqs
  <2>3. ASSUME NEW does, NEW at, NEW win, NEW arg, Start(t, does, at, win, arg)
        PROVE  Others(t) /\ job'[t].nals \in Seq(Nal)
    <3>1. /\ Others(t)
          /\ job'[t] = [does |-> does, at |-> at, win |-> win, arg |-> arg, nals |-> <<>>]
      BY <1>1, <2>3 DEF Start, JobsOK, Others
    <3> QED
      BY <1>2, <3>1
  <2> QED
    BY <2>1, <2>2, <2>3
<1>4. NalSeqs'
  BY <1>3 DEF WInv, NalSeqs, Others
<1> QED
  BY <1>3, <1>4, WInvKeep DEF Sending, Others

LEMMA WInvJob == \A t \in Thread : LInv /\ MInv /\ FInv /\ WInv /\ JobStep(t) => WInv'
<1> SUFFICES ASSUME NEW t \in Thread, LInv, MInv, FInv, WInv, JobStep(t) PROVE WInv'
  OBVIOUS
<1>1. JobsOK
  BY DEF LInv
<1>2. CASE Find(t) \/ TakeLock(t) \/ InitStream(t) \/ GiveLock(t) \/ (Clean(t) /\ ~Misuse(t))
  <2>1. /\ frames' = frames /\ job[t].win # Freed
        /\ job[t].at \in {"find", "take", "init", "give", "clean"}
        /\ Return(t) \/ \E p \in {"take", "work", "clean", "give", "init"} : Goto(t, p)
    BY <1>2 DEF Find, TakeLock, InitStream, GiveLock, Clean, At, vars
  <2>2. job'[t].at \notin {"nal", "ring"}
    BY <1>1, <2>1, GotoMoves, ReturnMoves
  <2>3. Return(t) \/ \E p : Goto(t, p)
    BY <2>1
  <2> QED
    BY <2>1, <2>2, <2>3, WInvOutside
<1>3. CASE Clean(t) /\ Misuse(t)
  <2>1. frames' = frames /\ job' = job
    BY <1>3 DEF Misuse
  <2> QED
    BY <2>1, WInvKeep DEF WInv, NalSeqs, Sending
<1> QED
  BY <1>2, <1>3, WInvEncode, WInvQueue, WInvRing DEF JobStep

LEMMA WInvXorg == LInv /\ WInv /\ (XTakes \/ XGoesOn) => WInv'
<1> SUFFICES ASSUME LInv, WInv, XTakes \/ XGoesOn PROVE WInv'
  OBVIOUS
<1> USE DEF Thread
<1>1. JobsOK /\ Idle("xorg") /\ job["xorg"].at = "done" /\ job["xorg"].win # Freed
  BY XorgJobs, StreamAssumption, ConstantsAssumption DEF LInv, Idle, NoJob
<1>2. frames' = frames
  BY DEF XTakes, XGoesOn, Plain, svars, XApply, Damage, CreateStream, DestroyStream, ResizeStream
<1>3. CASE UNCHANGED job
  BY <1>2, <1>3, WInvKeep DEF WInv, NalSeqs, Sending
<1>4. ASSUME NEW does, NEW at \in {"init", "take", "find"}, NEW win, Start("xorg", does, at, win, None)
      PROVE  WInv'
  <2>1. job'["xorg"].at = at
    BY <1>1, <1>4, StartMoves
  <2> QED
    BY <1>1, <1>2, <1>4, <2>1, WInvOutside
<1>5. CASE DestroyStream /\ ~UNCHANGED job
  <2>1. job' = [job EXCEPT !["uv"].win = Freed]
    BY <1>5 DEF DestroyStream
  <2>2. /\ IsJob(job["uv"]) /\ job'["uv"] = [job["uv"] EXCEPT !.win = Freed]
        /\ job'["xorg"] = job["xorg"]
    BY <1>1, <2>1 DEF JobsOK
  <2>3. job'["uv"] = [does |-> job["uv"].does, at |-> job["uv"].at, win |-> Freed,
                      arg |-> job["uv"].arg, nals |-> job["uv"].nals]
    BY <2>2 DEF IsJob
  <2>4. job'["uv"].win = Freed /\ job'["uv"].nals = job["uv"].nals
    BY <2>3
  <2>5. NalSeqs'
    BY <1>2, <2>2, <2>4 DEF WInv, NalSeqs
  <2>6. \A w \in Window : ~Sending("uv", w)'
    BY <2>4, ConstantsAssumption DEF Sending
  <2> QED
    BY <1>2, <2>2, <2>4, <2>5, <2>6, WInvKeep DEF Sending
<1> QED
  BY <1>3, <1>4, <1>5
     DEF XTakes, XGoesOn, Plain, svars, XApply, Damage, CreateStream, ResizeStream

LEMMA WInvUv == LInv /\ WInv /\ (Input \/ UvGoesOn \/ Wake) => WInv'
<1> SUFFICES ASSUME LInv, WInv, Input \/ UvGoesOn \/ Wake PROVE WInv'
  OBVIOUS
<1> USE DEF Thread
<1>1. JobsOK
  BY DEF LInv
<1>2. CASE EmitFrame
  BY <1>2, WInvEmit
<1>3. CASE UNCHANGED <<frames, job>>
  BY <1>3, WInvKeep DEF WInv, NalSeqs, Sending
<1>4. ASSUME frames' = frames, job["uv"].win # Freed, job["uv"].at \notin {"nal", "ring"},
             Return("uv") \/ \E p \in {"spin", "store", "tell"} : Goto("uv", p)
      PROVE  WInv'
  <2>1. job'["uv"].at \notin {"nal", "ring"}
    BY <1>1, <1>4, ReturnMoves, GotoMoves
  <2>2. Return("uv") \/ \E p : Goto("uv", p)
    BY <1>4
  <2> QED
    BY <1>4, <2>1, <2>2, WInvOutside
<1>5. ASSUME frames' = frames, job["uv"].win # Freed, job["uv"].at \notin {"nal", "ring"},
             NEW does, NEW at \in {"seek", "find", "take"}, NEW win, NEW arg,
             Start("uv", does, at, win, arg)
      PROVE  WInv'
  <2>1. job'["uv"].at \notin {"nal", "ring"}
    BY <1>1, <1>5, StartMoves
  <2> QED
    BY <1>5, <2>1, WInvOutside
<1>6. CASE Idle("uv") /\ (Input \/ GreetOne)
  <2>1. job["uv"].win # Freed /\ job["uv"].at \notin {"nal", "ring"}
    BY <1>6, ConstantsAssumption DEF Idle, NoJob
  <2>2. CASE \E w \in Window : InputShowReady(w)
    BY <1>5, <2>1, <2>2 DEF InputShowReady
  <2>3. CASE \E w \in Window, p \in Pos : InputMove(w, p)
    BY <1>5, <2>1, <2>3 DEF InputMove
  <2>4. CASE \E w \in Window, n \in Size : InputResize(w, n)
    BY <1>5, <2>1, <2>4 DEF InputResize
  <2>5. CASE ConnectDisplay
    BY <1>3, <2>5 DEF ConnectDisplay, svars
  <2>6. CASE GreetOne
    BY <1>3, <1>5, <2>1, <2>6 DEF GreetOne
  <2> QED
    BY <1>6, <2>2, <2>3, <2>4, <2>5, <2>6 DEF Input
<1>7. CASE Seek \/ StoreGeometry
  BY <1>4, <1>7 DEF Seek, StoreGeometry
<1>8. CASE TellX
  <2>1. frames' = frames /\ job["uv"].win # Freed /\ job["uv"].at \notin {"nal", "ring"}
    BY <1>8 DEF TellX
  <2>2. CASE Return("uv")
    BY <1>4, <2>1, <2>2
  <2>3. CASE Start("uv", "reset", "take", job["uv"].win, None)
    BY <1>5, <2>1, <2>3
  <2> QED
    BY <1>8, <2>2, <2>3 DEF TellX
<1>9. CASE Spin
  <2>1. /\ frames' = frames /\ job["uv"].win # Freed /\ job["uv"].at \notin {"nal", "ring"}
        /\ Start("uv", "frame", "find", job["uv"].win, None)
    BY <1>9 DEF Spin
  <2> QED
    BY <1>5, <2>1
<1> QED
  BY <1>2, <1>3, <1>6, <1>7, <1>8, <1>9
     DEF Input, InputShowReady, InputMove, InputResize, ConnectDisplay, AtLoop, UvGoesOn, GreetOne, Wake,
         Plain, svars, GreetNext, UvFault

LEMMA WInvStep == LInv /\ MInv /\ FInv /\ WInv /\ [StreamNext]_allvars => WInv'
<1> SUFFICES ASSUME LInv, MInv, FInv, WInv, [StreamNext]_allvars PROVE WInv'
  OBVIOUS
<1>1. CASE Stopped \/ UNCHANGED allvars
  <2>1. frames' = frames /\ job' = job
    BY <1>1 DEF Stopped, allvars, svars
  <2> QED
    BY <2>1, WInvKeep DEF WInv, NalSeqs, Sending
<1> QED
  BY <1>1, WInvJob, WInvXorg, WInvUv DEF StreamNext

\* The NALs of a frame stay together among those of their window, whichever
\* threads send frames of it, for every number of NALs and any queue.
THEOREM WholeFrames == StreamSpec => []FramesAreWhole
<1>1. WInv => FramesAreWhole
  <2> SUFFICES ASSUME WInv, job["uv"].win # Freed, NEW i \in DOMAIN frames, NEW j \in DOMAIN frames,
                      i < j, frames[i].wid = frames[j].wid,
                      \A k \in (i + 1)..(j - 1) : frames[k].wid # frames[i].wid
               PROVE  Follows(frames[i], frames[j])
    BY DEF FramesAreWhole
  <2>1. DOMAIN frames = 1..Len(frames)
    BY DEF WInv, NalSeqs
  <2> QED
    BY <2>1 DEF WInv, OrderOK, Between
<1> QED
  BY <1>1, WInvInit, WInvStep, FitInit, FitStep, PTL DEF StreamSpec

-----------------------------------------------------------------------------
(* Types. *)

Sound(r) == r \in Stream /\ (r.encoder = "open" <=> r.pic = "made")
SoundOK == stream = [w \in Window |-> stream[w]] /\ \A w \in Window : Sound(stream[w])
HolderOK == lock \in [Window -> Thread \cup {None}]
WinOK == \A t \in Thread : job[t].win \in Window \cup {None, Freed}
CurOK ==
  /\ cur \in Window \cup {None, Freed} /\ todo \in SUBSET Window
  /\ uvpc \in {"loop", "drain", "greet", "greeted"}
  /\ misuse \in {"none", "early", "spoilt"}

TInv == SoundOK /\ HolderOK /\ WinOK /\ CurOK

LEMMA TInvInit == StreamInit => TInv
<1> SUFFICES ASSUME StreamInit PROVE TInv
  OBVIOUS
<1>1. Sound(Wild)
  BY DEF Sound, Wild, Stream
<1>2. SoundOK /\ HolderOK
  BY <1>1 DEF StreamInit, SoundOK, HolderOK
<1>3. WinOK /\ CurOK
  BY DEF StreamInit, Init, WinOK, CurOK, NoJob
<1> QED
  BY <1>2, <1>3 DEF TInv

\* stream_init leaves a picture and an encoder, or neither.
LEMMA InitialisedSound ==
  ASSUME NEW w \in Window, Sound(stream[w]), entry[w].size \in Size,
         NEW s, s = Initialised(w) \/ s = [Initialised(w) EXCEPT !.ready = TRUE]
  PROVE  Sound(s)
<1>1. PICK e \in Extent : e = Even(entry[w].size)
  BY DEF Extent, Even
<1>2. PICK r : r = stream[w]
  OBVIOUS
<1>3. /\ r.even \in Extent \cup {None} /\ r.pic \in {"wild", "made", "clean"} /\ r.ready \in BOOLEAN
      /\ r.encoder \in {"wild", "open", "closed", "null"} /\ r.made \in Extent \cup {None}
      /\ r = [even |-> r.even, pic |-> r.pic, encoder |-> r.encoder, made |-> r.made, ready |-> r.ready]
      /\ r.encoder = "open" <=> r.pic = "made"
  BY <1>2 DEF Sound, Stream
<1>4. \/ Initialised(w) = [r EXCEPT !.even = e]
      \/ Initialised(w) = [r EXCEPT !.even = e, !.pic = "clean", !.encoder = "null", !.made = None]
      \/ Initialised(w) = [r EXCEPT !.even = e, !.pic = "made", !.encoder = "open", !.made = e]
  BY <1>1, <1>2 DEF Initialised
<1>5. Sound(Initialised(w))
  <2>1. CASE Initialised(w) = [r EXCEPT !.even = e]
    <3>1. Initialised(w) = [even |-> e, pic |-> r.pic, encoder |-> r.encoder, made |-> r.made,
                            ready |-> r.ready]
      BY <1>3, <2>1
    <3> QED
      BY <1>1, <1>3, <3>1 DEF Sound, Stream
  <2>2. CASE Initialised(w) = [r EXCEPT !.even = e, !.pic = "clean", !.encoder = "null", !.made = None]
    <3>1. Initialised(w) = [even |-> e, pic |-> "clean", encoder |-> "null", made |-> None,
                            ready |-> r.ready]
      BY <1>3, <2>2
    <3> QED
      BY <1>1, <1>3, <3>1 DEF Sound, Stream
  <2>3. CASE Initialised(w) = [r EXCEPT !.even = e, !.pic = "made", !.encoder = "open", !.made = e]
    <3>1. Initialised(w) = [even |-> e, pic |-> "made", encoder |-> "open", made |-> e,
                            ready |-> r.ready]
      BY <1>3, <2>3
    <3> QED
      BY <1>1, <1>3, <3>1 DEF Sound, Stream
  <2> QED
    BY <1>4, <2>1, <2>2, <2>3
<1>6. PICK q : q = Initialised(w)
  OBVIOUS
<1>7. CASE s = [q EXCEPT !.ready = TRUE]
  <2>1. s = [even |-> q.even, pic |-> q.pic, encoder |-> q.encoder, made |-> q.made, ready |-> TRUE]
    BY <1>5, <1>6, <1>7 DEF Sound, Stream
  <2> QED
    BY <1>5, <1>6, <2>1 DEF Sound, Stream
<1> QED
  BY <1>5, <1>6, <1>7

LEMMA SoundJob ==
  ASSUME LInv, MInv, FInv, GeomOK, SoundOK, NEW t \in Thread, JobStep(t)
  PROVE  SoundOK'
<1> USE DEF Thread, Linked
<1>1. CASE UNCHANGED stream
  BY <1>1 DEF SoundOK
<1>2. CASE Clean(t) /\ ~UNCHANGED stream
  <2>1. PICK w : w = job[t].win
    BY SMTT(30)
  <2>2. /\ w \in Window
        /\ stream' = [stream EXCEPT ![w].pic = "clean", ![w].encoder = "closed", ![w].made = None]
    BY <1>2, <2>1 DEF Clean, Misuse, At, FInv, HeldOK, Found, MInv, ListOK
  <2>3. PICK r : r = stream[w]
    OBVIOUS
  <2>4. /\ stream' = [v \in Window |-> stream'[v]]
        /\ \A v \in Window \ {w} : stream'[v] = stream[v]
        /\ stream'[w] = [r EXCEPT !.pic = "clean", !.encoder = "closed", !.made = None]
    BY <2>2, <2>3 DEF SoundOK
  <2>5. stream'[w] = [even |-> r.even, pic |-> "clean", encoder |-> "closed", made |-> None,
                      ready |-> r.ready]
    <3>1. r = [even |-> r.even, pic |-> r.pic, encoder |-> r.encoder, made |-> r.made, ready |-> r.ready]
      BY <2>2, <2>3 DEF SoundOK, Sound, Stream
    <3> QED
      BY <2>4, <3>1
  <2>6. r.even \in Extent \cup {None} /\ r.ready \in BOOLEAN
    BY <2>2, <2>3 DEF SoundOK, Sound, Stream
  <2>7. \A q : q = stream'[w] => Sound(q)
    BY <2>5, <2>6 DEF Sound, Stream
  <2> QED
    BY <2>4, <2>7 DEF SoundOK, Sound
<1>3. CASE InitStream(t)
  <2>1. PICK w : w = job[t].win
    OBVIOUS
  <2>2. w \in windows /\ w \in Window /\ ~Linked(w)
    BY <1>3, <2>1 DEF InitStream, At, FInv, ShapeOK, HeldOK, Found, MInv, ListOK
  <2>3. entry[w].size \in Size
    BY <2>2 DEF GeomOK
  <2>4. PICK s : s = stream'[w]
    OBVIOUS
  <2>5. /\ stream' = [v \in Window |-> stream'[v]]
        /\ \A v \in Window \ {w} : stream'[v] = stream[v]
        /\ s = Initialised(w) \/ s = [Initialised(w) EXCEPT !.ready = TRUE]
    BY <1>3, <2>1, <2>2, <2>4 DEF InitStream, SoundOK
  <2>6. Sound(s)
    BY <2>2, <2>3, <2>5, InitialisedSound DEF SoundOK
  <2> QED
    BY <2>4, <2>5, <2>6 DEF SoundOK, Sound
<1> QED
  BY <1>1, <1>2, <1>3
     DEF JobStep, Find, TakeLock, Encode, Misuse, QueueNal, Ring, GiveLock

LEMMA SoundXorg == SoundOK /\ (XTakes \/ XGoesOn) => SoundOK'
<1> SUFFICES ASSUME SoundOK, XTakes \/ XGoesOn PROVE SoundOK'
  OBVIOUS
<1>1. CASE UNCHANGED stream
  BY <1>1 DEF SoundOK
<1>2. CASE DestroyStream
  <2>1. PICK w : w = ev.wid
    OBVIOUS
  <2>2. stream' = [stream EXCEPT ![w] = Wild]
    BY <1>2, <2>1 DEF DestroyStream
  <2>3. /\ stream' = [v \in Window |-> stream'[v]]
        /\ \A v \in Window : stream'[v] = stream[v] \/ stream'[v] = Wild
    BY <2>2 DEF SoundOK
  <2>4. Sound(Wild)
    BY SMTT(30) DEF Sound, Wild, Stream
  <2> QED
    BY <2>3, <2>4 DEF SoundOK, Sound
<1> QED
  BY <1>1, <1>2
     DEF XTakes, XGoesOn, Plain, svars, XApply, Damage, CreateStream, ResizeStream

LEMMA HolderStep == HolderOK /\ [StreamNext]_allvars => HolderOK'
<1> SUFFICES ASSUME HolderOK, [StreamNext]_allvars PROVE HolderOK'
  OBVIOUS
<1>1. CASE UNCHANGED lock
  BY <1>1 DEF HolderOK
<1>2. CASE DestroyStream
  BY <1>2 DEF DestroyStream, HolderOK
<1>3. ASSUME NEW t \in Thread, TakeLock(t) \/ GiveLock(t) PROVE HolderOK'
  BY <1>3 DEF TakeLock, GiveLock, HolderOK
<1> QED
  BY <1>1, <1>2, <1>3, ZenonT(30)
    DEF StreamNext, XTakes, XGoesOn, Plain, svars, XApply, Damage, CreateStream, ResizeStream, allvars,
         Input, InputShowReady, InputMove, InputResize, ConnectDisplay, UvGoesOn, Wake, EmitFrame, Seek,
         StoreGeometry, TellX, Spin, GreetOne, GreetNext, UvFault, Stopped,
         JobStep, Find, Encode, Misuse, QueueNal, Ring, Clean, InitStream

\* Jobs go on with the window they have, or start with one.
LEMMA WinStep == LInv /\ MInv /\ CurOK /\ WinOK /\ HeldOK' /\ MInv' /\ [StreamNext]_allvars => WinOK'
<1> SUFFICES ASSUME LInv, MInv, CurOK, WinOK, HeldOK', MInv', [StreamNext]_allvars PROVE WinOK'
  OBVIOUS
<1> USE DEF Thread
<1>1. JobsOK
  BY DEF LInv
<1>2. CASE UNCHANGED job
  BY <1>2 DEF WinOK
<1>3. ASSUME NEW t \in Thread, Others(t), job'[t].win \in Window \cup {None, Freed, job[t].win}
      PROVE  WinOK'
  BY <1>3 DEF WinOK, Others
<1>4. ASSUME NEW t \in Thread, Return(t) \/ \E p : Goto(t, p) PROVE WinOK'
  <2>1. job'[t].win \in {None, job[t].win} /\ Others(t)
    <3>1. CASE Return(t)
      <4>1. job'[t] = NoJob /\ Others(t)
        BY <1>1, <3>1 DEF Return, JobsOK, Others
      <4> QED
        BY <4>1 DEF NoJob
    <3> QED
      BY <1>1, <1>4, <3>1, GotoMoves
  <2> QED
    BY <1>3, <2>1
<1>5. ASSUME NEW t \in Thread, NEW does, NEW at, NEW win \in Window \cup {None, Freed}, NEW arg,
             Start(t, does, at, win, arg)
      PROVE  WinOK'
  BY <1>1, <1>3, <1>5, StartsAs
<1>6. ASSUME NEW t \in Thread, JobStep(t) PROVE WinOK'
  <2>1. CASE Ring(t)
    <3>1. job' = [job EXCEPT ![t].at = IF Len(job[t].nals) = 1 THEN "give" ELSE "nal",
                             ![t].nals = Tail(job[t].nals)]
      BY <2>1 DEF Ring, Rung
    <3> QED
      BY <1>1, <1>3, <3>1, NalsMove
  <2>2. ASSUME NEW n,
               job' = [job EXCEPT ![t].at = "nal",
                                  ![t].nals = [k \in 1..n |-> [wid |-> job[t].win, nal |-> k, of |-> n]]]
        PROVE  WinOK'
    BY <1>1, <1>3, <2>2, NalsMove
  <2>3. CASE Encode(t)
    BY <1>2, <1>4, <2>2, <2>3 DEF Encode, Misuse
  <2>4. CASE Find(t) \/ TakeLock(t) \/ QueueNal(t) \/ Clean(t) \/ InitStream(t) \/ GiveLock(t)
    BY <1>2, <1>4, <2>4 DEF Find, TakeLock, QueueNal, Clean, Misuse, InitStream, GiveLock
  <2> QED
    BY <1>6, <2>1, <2>3, <2>4 DEF JobStep
<1>7. CASE XTakes \/ XGoesOn
  <2>1. CASE DestroyStream
    <3>1. job'["uv"].win \in {Freed, job["uv"].win} /\ job'["xorg"] = job["xorg"]
      BY <1>1, <1>7, <2>1, XorgJobs DEF DestroyStream, JobsOK
    <3> QED
      BY <3>1 DEF WinOK
  <2>2. ASSUME NEW w \in Window, Damage(w) PROVE WinOK'
    BY <1>5, <2>2 DEF Damage
  <2>3. ASSUME NEW does, NEW at \in {"init", "take"}, NEW win, Start("xorg", does, at, win, None)
        PROVE  WinOK'
    <3>1. job'["xorg"].at = at /\ job'["xorg"].win = win /\ Others("xorg")
      BY <1>1, <2>3, StartsAs
    <3>2. win \in Window
      BY <3>1 DEF HeldOK, Found, MInv, ListOK
    <3> QED
      BY <1>3, <3>1, <3>2
  <2>4. CASE CreateStream
    BY <2>3, <2>4 DEF CreateStream
  <2>5. CASE ResizeStream
    BY <1>2, <2>3, <2>5 DEF ResizeStream
  <2> QED
    BY <1>2, <1>7, <2>1, <2>2, <2>4, <2>5 DEF XTakes, XGoesOn, Plain, svars, XApply
<1>8. CASE Input \/ UvGoesOn \/ Wake
  <2>1. CASE \E w \in Window : InputShowReady(w)
    BY <1>5, <2>1 DEF InputShowReady
  <2>2. CASE \E w \in Window, p \in Pos : InputMove(w, p)
    BY <1>5, <2>2 DEF InputMove
  <2>3. CASE \E w \in Window, n \in Size : InputResize(w, n)
    BY <1>5, <2>3 DEF InputResize
  <2>4. CASE GreetOne
    BY <1>2, <1>5, <2>4 DEF GreetOne, CurOK
  <2>5. CASE Seek \/ StoreGeometry
    BY <1>4, <2>5 DEF Seek, StoreGeometry
  <2>6. CASE TellX
    <3>1. CASE Start("uv", "reset", "take", job["uv"].win, None)
      BY <1>5, <3>1 DEF WinOK
    <3> QED
      BY <1>4, <2>6, <3>1 DEF TellX
  <2>7. CASE Spin
    <3>1. Start("uv", "frame", "find", job["uv"].win, None)
      BY <2>7 DEF Spin
    <3> QED
      BY <1>5, <3>1 DEF WinOK
  <2> QED
    BY <1>2, <1>8, <2>1, <2>2, <2>3, <2>4, <2>5, <2>6, <2>7
       DEF Input, ConnectDisplay, UvGoesOn, Wake, Plain, svars, EmitFrame, GreetNext, UvFault
<1> QED
  BY <1>2, <1>6, <1>7, <1>8 DEF StreamNext, Stopped, allvars, svars

LEMMA CurStep == LInv /\ MInv /\ CurOK /\ [StreamNext]_allvars => CurOK'
<1> SUFFICES ASSUME LInv, MInv, CurOK, [StreamNext]_allvars PROVE CurOK'
  OBVIOUS
<1>1. CASE UNCHANGED <<uvpc, cur, todo, misuse>>
  BY <1>1 DEF CurOK
<1>2. CASE DestroyStream
  BY <1>2 DEF DestroyStream, DestroyUnlink, CurOK
<1>3. ASSUME NEW ahead \in SUBSET Window, GreetFrom(ahead), misuse' = misuse PROVE CurOK'
  BY <1>3 DEF GreetFrom, CurOK
<1>4. CASE ConnectDisplay \/ GreetNext
  BY <1>3, <1>4 DEF ConnectDisplay, GreetNext, svars, CurOK, MInv, ListOK
<1>5. CASE GreetOne \/ Plain(EmitBegin) \/ Plain(EmitEnd)
  BY <1>5 DEF GreetOne, Plain, EmitBegin, EmitEnd, svars, CurOK
<1>6. ASSUME NEW t \in Thread, Misuse(t) PROVE CurOK'
  BY <1>6, SMTT(30) DEF Misuse, vars, uvvars, CurOK
<1>7. ASSUME NEW t \in Thread, JobStep(t), ~Misuse(t) PROVE CurOK'
  BY <1>1, <1>7 DEF JobStep, Find, TakeLock, Encode, QueueNal, Ring, Clean, InitStream, GiveLock, vars, uvvars
<1>8. CASE XTakes \/ XGoesOn
  BY <1>1, <1>2, <1>8
     DEF XTakes, XGoesOn, Plain, svars, vars, uvvars, XApply, Damage, CreateStream, CreateInit, ResizeStream,
         ConfigureResize, CreateLink, MapViewable, Enqueue, ConfigureMove, AsyncSend,
         XEvent, XCreate, XDestroy, XMap, XUnmap, XConfigure, Take
<1>9. CASE Input \/ UvGoesOn
  BY <1>1, <1>4, <1>5, <1>9
     DEF Input, InputShowReady, InputMove, InputResize, UvGoesOn, EmitFrame, Seek, Plain, EmitNext,
         StoreGeometry, TellX, Spin, UvFault, vars, uvvars, svars
<1> QED
  BY <1>1, <1>5, <1>6, <1>7, <1>8, <1>9 DEF StreamNext, Wake, Stopped, allvars, vars, uvvars, svars

LEMMA TInvStep ==
  /\ LInv /\ MInv /\ GeomOK /\ FInv /\ TInv /\ [StreamNext]_allvars
  /\ (LInv /\ MInv /\ GeomOK /\ FInv)'
  => TInv'
<1> SUFFICES ASSUME LInv, MInv, GeomOK, FInv, TInv, [StreamNext]_allvars,
                    (LInv /\ MInv /\ GeomOK /\ FInv)'
             PROVE  TInv'
  OBVIOUS
<1>1. ASSUME UNCHANGED stream PROVE SoundOK'
  BY <1>1 DEF TInv, SoundOK
<1>2. SoundOK'
  BY <1>1, SoundJob, SoundXorg
     DEF TInv, StreamNext, Stopped, allvars, svars, Input, InputShowReady, InputMove, InputResize,
         ConnectDisplay, UvGoesOn, Wake, Plain, EmitFrame, Seek, StoreGeometry, TellX, Spin, GreetOne,
         GreetNext, UvFault
<1>3. HolderOK' /\ CurOK' /\ WinOK'
  BY HolderStep, CurStep, WinStep DEF TInv, FInv
<1> QED
  BY <1>2, <1>3 DEF TInv

\* The variables of WindowStream keep their types; picture and encoder
\* exist together.
THEOREM StreamTypes == StreamSpec => []StreamTypeOK
<1>1. LInv /\ MInv /\ FInv /\ TInv => StreamTypeOK
  <2> SUFFICES ASSUME LInv, MInv, FInv, TInv PROVE StreamTypeOK
    OBVIOUS
  <2>1. stream \in [Window -> Stream] /\ \A w \in Window : stream[w].encoder = "open" <=> stream[w].pic = "made"
    BY DEF TInv, SoundOK, Sound
  <2>2. \A t \in Thread :
          job[t].at \in {"done", "seek", "store", "tell", "spin", "find", "take", "work", "nal",
                         "ring", "clean", "init", "give"}
    BY DEF FInv, ShapeOK
  <2>3. spoilt \in SUBSET Window
    BY DEF FInv, GoneOK, MInv, ListOK
  <2> QED
    BY <2>1, <2>2, <2>3 DEF TInv, HolderOK, WinOK, CurOK, StreamTypeOK
<1> QED
  BY <1>1, TInvInit, TInvStep, FitInit, FitStep, PTL DEF StreamSpec
=============================================================================
