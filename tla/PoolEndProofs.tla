----------------------------- MODULE PoolEndProofs -----------------------------
(***************************************************************************)
(* The ends of a media pool's transfers, for every number of transfers,    *)
(* chunks, frames and ids: what the client counts as done, the device has. *)
(* What is told of a transfer adds up (Tells): its fields with what the    *)
(* device stored (Account), what it is asked for with what was taken       *)
(* (Asked), and what is on its way in either direction with both (Course). *)
(* The first part says what keeps this up, the second what the handlers    *)
(* and the events of the queue do to it, the third what the device does,   *)
(* the last that every step of the pool keeps it (InTells).  From it       *)
(* follows that a promise resolves only if all of its transfer is done.    *)
(***************************************************************************)
EXTENDS PoolDataProofs

-----------------------------------------------------------------------------
(* What is told of a transfer *)

Is(c, type, id) == c.type = type /\ c.id = id

\* Transfer t, with fields x, is done if the device has the frames in d (ResolvedIsDone).
IsDone(t, x, d) ==
    CASE Kind[t] = "clip"     -> d = 1 .. Frames[t]
      [] Kind[t] = "upload"   -> d # {}
      [] Kind[t] = "download" -> d # {} /\ x.moved = Chunks[t]

\* What was counted for it: a clip's frames are taken one after the other, and a resolved
\* transfer is done.
Account(t, x, d) ==
    /\ Kind[t] = "clip" => /\ x.numFrames \in 0 .. Frames[t] /\ d \subseteq 1 .. x.numFrames
                           /\ x.promise = "resolved" => x.numFrames = Frames[t]
    /\ x.promise = "resolved" => IsDone(t, x, d)

\* The device is asked for frames that were taken, and is at one.
Asked(fields, p, u) ==
    /\ \A i \in DOMAIN p : p[i].type = "request" /\ Kind[p[i].of] = "clip" =>
          p[i].frame \in 1 .. fields[p[i].of].numFrames
    /\ u.of # NoTransfer => u.of \in Transfers
    /\ u.of # NoTransfer /\ Kind[u.of] = "clip" => u.frame \in 1 .. fields[u.of].numFrames
    /\ u.of # NoTransfer /\ Kind[u.of] = "download" => u.got \in 0 .. Chunks[u.of] - 1

\* A download goes to and fro: a chunk is under way, or its acknowledgement, or the end.
Once(id, w, r) ==
    /\ \A i, j \in DOMAIN r : Is(r[i], "data", id) /\ Is(r[j], "data", id) => i = j
    /\ \A i, j \in DOMAIN w :
          Is(w[i].command, "data", id) /\ Is(w[j].command, "data", id) => i = j
    /\ \A i \in DOMAIN w, j \in DOMAIN r : ~(Is(w[i].command, "data", id) /\ Is(r[j], "data", id))
OneAck(id, p) ==
    \A i, j \in DOMAIN p : Is(p[i], "dataAck", id) /\ Is(p[j], "dataAck", id) => i = j
Hears(w, r, type, id) == \E c : Heard(w, r, c) /\ Is(c, type, id)
Has(p, type, id) == \E i \in DOMAIN p : Is(p[i], type, id)
Alternates(id, t, x, w, p, r, u) ==
    /\ Once(id, w, r) /\ OneAck(id, p)
    /\ Hears(w, r, "data", id) => /\ ~Has(p, "dataAck", id) /\ ~Hears(w, r, "complete", id)
                                  /\ At(u, id) => u.got = x.moved
    /\ Has(p, "dataAck", id) => /\ ~Hears(w, r, "complete", id)
                                /\ At(u, id) => u.got + 1 = x.moved
    /\ Hears(w, r, "complete", id) => x.moved = Chunks[t]
    /\ Has(p, "request", id) => x.moved = 0 /\ ~Has(p, "dataAck", id)
    /\ x.promise = "resolved" => /\ ~Hears(w, r, "data", id) /\ ~Has(p, "dataAck", id)
                                 /\ ~At(u, id) /\ ~Has(p, "request", id)

\* The course of a transfer: the frames before the last one taken are stored, and the
\* last one when that is told.
Course(id, t, x, state, w, p, r, u, d) ==
    /\ Kind[t] = "clip" /\ state # "Pending" => 1 .. (x.numFrames - 1) \subseteq d
    /\ Kind[t] = "clip" /\ state = "Pending" => x.numFrames = 0
    /\ \A i \in DOMAIN p : Is(p[i], "request", id) => p[i].frame = x.numFrames
    /\ At(u, id) => u.frame = x.numFrames
    /\ Hears(w, r, "complete", id) => x.numFrames \in d
    /\ Kind[t] = "download" => Alternates(id, t, x, w, p, r, u)

\* All that is told of the transfers adds up.
CourseOf(q, p, r, u, stores) ==
    Course(q.active.id, q.active.of, q.fields[q.active.of], StateOf(q), q.waiting, p, r, u,
           stores[q.active.of])
NoFailure(w, r) ==
    (\E t \in Transfers : Kind[t] = "clip") => \A c : Heard(w, r, c) => c.type # "error"
TakenStored(q, stores) ==
    q.running.wait = "nextFrame" =>
        /\ q.running.of \in Transfers
        /\ 1 .. q.fields[q.running.of].numFrames \subseteq stores[q.running.of]
Tells(q, s, r, u, live, stores) ==
    /\ \A t \in Transfers : Account(t, q.fields[t], stores[t])
    /\ Asked(q.fields, Way(q, s, live), u)
    /\ IsActive(q) => CourseOf(q, Way(q, s, live), r, u, stores)
    /\ TakenStored(q, stores)
    /\ NoFailure(q.waiting, r)

\* Less is under way: what is asked for, what was answered, what the device is at.
Within(p2, p) == \A i \in DOMAIN p2 : \/ p2[i].type \notin {"request", "dataAck"}
                                      \/ \E j \in DOMAIN p : p2[i] = p[j]
Quieter(w2, r2, w, r) ==
    \A c : Heard(w2, r2, c) => Heard(w, r, c) \/ c.type \notin {"data", "complete", "error"}
Fewer(id, w2, r2, w, r) ==
    \A type \in {"data", "complete"} : Hears(w2, r2, type, id) => Hears(w, r, type, id)
SameAt(id, t, u2, u) ==
    At(u2, id) => At(u, id) /\ u2.frame = u.frame /\ (Kind[t] = "download" => u2.got = u.got)
SameOrNone(u2, u) ==
    u2.of = NoTransfer \/ (u2.of = u.of /\ u2.id = u.id /\ u2.got = u.got /\ u2.frame = u.frame)
Sparser(id, w2, p2, r2, w, p, r) ==
    /\ Once(id, w, r) => Once(id, w2, r2)
    /\ OneAck(id, p) => OneAck(id, p2)

\* A transfer after which nothing changed but that it may be aborted.
Alike(y, x) == /\ y.moved = x.moved /\ y.numFrames = x.numFrames
               /\ y.promise = "resolved" => x.promise = "resolved"

\* What is heard, and what the device is at.
LEMMA LessAtAll ==
    ASSUME NEW id, NEW t, NEW w, NEW r, NEW u, NEW w2, NEW r2, NEW u2
    PROVE  /\ Quieter(w2, r2, w, r) => Fewer(id, w2, r2, w, r)
           /\ SameOrNone(u2, u) => SameAt(id, t, u2, u)
BY DEF Hears, Is, Quieter, Fewer, SameAt, SameOrNone, At

\* The course of a download.
LEMMA LessAlternates ==
    ASSUME NEW id, NEW t, NEW x, NEW w, NEW p, NEW r, NEW u, Alternates(id, t, x, w, p, r, u),
           NEW y, NEW w2, NEW p2, NEW r2, NEW u2, Alike(y, x), Sparser(id, w2, p2, r2, w, p, r),
           Fewer(id, w2, r2, w, r), Within(p2, p), SameAt(id, t, u2, u), Kind[t] = "download"
    PROVE  Alternates(id, t, y, w2, p2, r2, u2)
<1>1. /\ Hears(w2, r2, "data", id) => Hears(w, r, "data", id)
      /\ Hears(w2, r2, "complete", id) => Hears(w, r, "complete", id)
  BY DEF Fewer
<1>2. /\ Has(p2, "dataAck", id) => Has(p, "dataAck", id)
      /\ Has(p2, "request", id) => Has(p, "request", id)
  BY DEF Has, Is, Within
<1>3. y.moved = x.moved /\ (y.promise = "resolved" => x.promise = "resolved")
  BY DEF Alike
<1>4. At(u2, id) => At(u, id) /\ u2.got = u.got
  BY DEF SameAt
<1> QED
  BY <1>1, <1>2, <1>3, <1>4 DEF Alternates, Sparser

\* The course of a transfer.
LEMMA LessCourse ==
    ASSUME NEW id, NEW t, NEW x, NEW state, NEW w, NEW p, NEW r, NEW u, NEW d,
           Course(id, t, x, state, w, p, r, u, d),
           NEW y, NEW state2, NEW w2, NEW p2, NEW r2, NEW u2, NEW d2, Alike(y, x),
           Kind[t] = "download" => Sparser(id, w2, p2, r2, w, p, r), d \subseteq d2,
           Fewer(id, w2, r2, w, r), Within(p2, p), SameAt(id, t, u2, u),
           state2 = "Pending" <=> state = "Pending"
    PROVE  Course(id, t, y, state2, w2, p2, r2, u2, d2)
<1>1. Hears(w2, r2, "complete", id) => Hears(w, r, "complete", id)
  BY DEF Fewer
<1>2. y.numFrames = x.numFrames
  BY DEF Alike
<1>3. \A i \in DOMAIN p2 : Is(p2[i], "request", id) => p2[i].frame = y.numFrames
  <2> SUFFICES ASSUME NEW i \in DOMAIN p2, Is(p2[i], "request", id)
               PROVE  p2[i].frame = x.numFrames
    BY <1>2
  <2>1. PICK j \in DOMAIN p : p2[i] = p[j]
    BY DEF Is, Within
  <2> QED
    BY <2>1 DEF Course
<1>4. Kind[t] = "download" => Alternates(id, t, y, w2, p2, r2, u2)
  <2>1. Kind[t] = "download" => Alternates(id, t, x, w, p, r, u)
    BY DEF Course
  <2> QED
    BY <2>1, LessAlternates
<1>5. At(u2, id) => At(u, id) /\ u2.frame = u.frame
  BY DEF SameAt
<1> QED
  BY <1>1, <1>2, <1>3, <1>4, <1>5 DEF Course

\* What is asked for, when no frame is given back.
LEMMA AskedStays ==
    ASSUME NEW fields, NEW p, NEW u, Asked(fields, p, u), Chained(p, u), NEW fields2, NEW p2, NEW u2,
           \A t \in Transfers : Kind[t] = "clip" =>
               1 .. fields[t].numFrames \subseteq 1 .. fields2[t].numFrames,
           \A i \in DOMAIN p2 : p2[i].type = "request" /\ Kind[p2[i].of] = "clip" =>
               \/ \E j \in DOMAIN p : p2[i] = p[j]
               \/ p2[i].frame \in 1 .. fields2[p2[i].of].numFrames,
           SameOrNone(u2, u)
    PROVE  Asked(fields2, p2, u2)
<1>1. ASSUME NEW i \in DOMAIN p2, p2[i].type = "request", Kind[p2[i].of] = "clip",
             NEW j \in DOMAIN p, p2[i] = p[j]
      PROVE  p2[i].frame \in 1 .. fields2[p2[i].of].numFrames
  <2>1. p[j].of \in Transfers
    BY <1>1 DEF Chained
  <2> QED
    BY <1>1, <2>1 DEF Asked
<1>2. \A i \in DOMAIN p2 : p2[i].type = "request" /\ Kind[p2[i].of] = "clip" =>
          p2[i].frame \in 1 .. fields2[p2[i].of].numFrames
  BY <1>1
<1>3. u2.of # NoTransfer /\ Kind[u2.of] = "clip" => u2.frame \in 1 .. fields2[u2.of].numFrames
  BY DEF Asked, SameOrNone
<1> QED
  BY <1>2, <1>3 DEF Asked, SameOrNone

\* The accounts do not change.
LEMMA AccountsStay ==
    ASSUME NEW fields, NEW fields2, NEW stores, \A t \in Transfers : Alike(fields2[t], fields[t]),
           \A t \in Transfers : Account(t, fields[t], stores[t])
    PROVE  /\ \A t \in Transfers : Account(t, fields2[t], stores[t])
           /\ \A t \in Transfers : fields2[t].numFrames = fields[t].numFrames
<1>1. ASSUME NEW t \in Transfers PROVE Account(t, fields2[t], stores[t])
  <2>1. Alike(fields2[t], fields[t]) /\ Account(t, fields[t], stores[t])
    OBVIOUS
  <2> QED
    BY <2>1 DEF Account, Alike, IsDone
<1> QED
  BY <1>1 DEF Alike

\* All that is told, if less is.
LEMMA LessTells ==
    ASSUME NEW q, NEW s, NEW r, NEW u, NEW live, NEW stores, Tells(q, s, r, u, live, stores),
           Chained(Way(q, s, live), u),
           NEW q2, NEW s2, NEW r2, NEW u2, NEW live2, IsQueue(q),
           \A t \in Transfers : Alike(q2.fields[t], q.fields[t]),
           Quieter(q2.waiting, r2, q.waiting, r), Within(Way(q2, s2, live2), Way(q, s, live)),
           SameOrNone(u2, u), q2.running = q.running \/ q2.running.wait # "nextFrame",
           IsActive(q2) =>
               /\ IsActive(q) /\ q2.active.id = q.active.id /\ q2.active.of = q.active.of
               /\ StateOf(q2) = "Pending" <=> StateOf(q) = "Pending"
               /\ Kind[q.active.of] = "download" =>
                     Sparser(q.active.id, q2.waiting, Way(q2, s2, live2), r2,
                             q.waiting, Way(q, s, live), r)
    PROVE  Tells(q2, s2, r2, u2, live2, stores)
<1> DEFINE p == Way(q, s, live)
           p2 == Way(q2, s2, live2)
<1> HIDE DEF p, p2
<1>1. /\ \A t \in Transfers : Account(t, q2.fields[t], stores[t])
      /\ \A t \in Transfers : q2.fields[t].numFrames = q.fields[t].numFrames
  <2>1. \A t \in Transfers : Account(t, q.fields[t], stores[t])
    BY DEF Tells
  <2> QED
    BY <2>1, AccountsStay
<1>2. Asked(q2.fields, p2, u2)
  <2>1. Asked(q.fields, p, u) /\ Chained(p, u)
    BY DEF Tells, p
  <2>2. \A t \in Transfers : Kind[t] = "clip" =>
            1 .. q.fields[t].numFrames \subseteq 1 .. q2.fields[t].numFrames
    BY <1>1
  <2>3. \A i \in DOMAIN p2 : p2[i].type = "request" /\ Kind[p2[i].of] = "clip" =>
            \/ \E j \in DOMAIN p : p2[i] = p[j]
            \/ p2[i].frame \in 1 .. q2.fields[p2[i].of].numFrames
    BY DEF Within, p, p2
  <2> QED
    BY <2>1, <2>2, <2>3, AskedStays
<1>3. ASSUME IsActive(q2) PROVE CourseOf(q2, p2, r2, u2, stores)
  <2> DEFINE id == q.active.id
             t == q.active.of
             d == stores[t]
             w == q.waiting
             w2 == q2.waiting
             state == StateOf(q)
             state2 == StateOf(q2)
             x == q.fields[t]
             y == q2.fields[t]
  <2>1. Course(id, t, x, state, w, p, r, u, d)
    BY <1>3 DEF Tells, CourseOf, p
  <2>2. t \in Transfers
    BY <1>3 DEF IsQueue, IsActive
  <2>3. Alike(y, x)
    BY <2>2
  <2>4. Kind[t] = "download" => Sparser(id, w2, p2, r2, w, p, r)
    BY <1>3 DEF p, p2
  <2>5. Quieter(w2, r2, w, r) /\ Within(p2, p) /\ (state2 = "Pending" <=> state = "Pending")
    BY <1>3 DEF p, p2
  <2> HIDE DEF id, t, d, w, w2, state, state2, x, y
  <2>6. Fewer(id, w2, r2, w, r) /\ SameAt(id, t, u2, u) /\ d \subseteq d
    BY ONLY SameOrNone(u2, u), <2>5, LessAtAll
  <2>7. Course(id, t, y, state2, w2, p2, r2, u2, d)
    BY ONLY <2>1, <2>3, <2>4, <2>5, <2>6, LessCourse
  <2> QED
    BY <1>3, <2>7 DEF CourseOf, id, t, d, w2, state2, y
<1>4. TakenStored(q2, stores)
  BY <1>1 DEF Tells, TakenStored
<1>5. NoFailure(q2.waiting, r2)
  BY DEF NoFailure, Tells, Quieter
<1> QED
  BY <1>1, <1>2, <1>3, <1>4, <1>5 DEF Tells, p, p2

-----------------------------------------------------------------------------
(* What is told, as transfers begin and end *)

\* The first that is said of a transfer: it is requested.
LEMMA FreshCourse ==
    ASSUME NEW id, NEW t, NEW x, NEW state, NEW w, NEW p, NEW r, NEW u, NEW d, NEW p2,
           Free(id, w, p, r, u), \A h : Holds(w, h) => \E c : h = Handle(c),
           \A i \in DOMAIN p2 :
               \/ \E j \in DOMAIN p : p2[i] = p[j]
               \/ p2[i].type # "dataAck" /\ (Is(p2[i], "request", id) => p2[i].frame = x.numFrames),
           Kind[t] = "clip" => IF state = "Pending" THEN x.numFrames = 0
                                                    ELSE 1 .. (x.numFrames - 1) \subseteq d,
           Kind[t] = "download" => x.moved = 0 /\ x.promise # "resolved"
    PROVE  Course(id, t, x, state, w, p2, r, u, d)
<1>1. \A c : Heard(w, r, c) => ~Is(c, "data", id) /\ ~Is(c, "complete", id)
  BY DEF Free, Silent, About, Is, Answers, Parts
<1>2. ~Hears(w, r, "data", id) /\ ~Hears(w, r, "complete", id)
  BY <1>1 DEF Hears
<1>3. \A i \in DOMAIN w : Heard(w, r, w[i].command)
  <2> SUFFICES ASSUME NEW i \in DOMAIN w PROVE Heard(w, r, w[i].command)
    OBVIOUS
  <2>1. PICK c : w[i] = Handle(c)
    BY DEF Holds
  <2> QED
    BY <2>1 DEF Heard, Holds, Handle
<1>4. \A i \in DOMAIN r : Heard(w, r, r[i])
  BY DEF Heard, Holds
<1>5. Once(id, w, r)
  BY <1>1, <1>3, <1>4 DEF Once
<1>6. \A j \in DOMAIN p : ~Is(p[j], "dataAck", id) /\ ~Is(p[j], "request", id)
  BY DEF Free, About, Is
<1>7. \A i \in DOMAIN p2 : /\ ~Is(p2[i], "dataAck", id)
                           /\ Is(p2[i], "request", id) => p2[i].frame = x.numFrames
  BY <1>6 DEF Is
<1>8. ~At(u, id)
  BY DEF Free
<1>9. Kind[t] = "download" => Alternates(id, t, x, w, p2, r, u)
  BY <1>2, <1>5, <1>7, <1>8 DEF Alternates, OneAck, Has
<1> QED
  BY <1>2, <1>7, <1>8, <1>9 DEF Course

\* The next transfer begins.
LEMMA DequeueTells ==
    ASSUME NEW q, NEW s, NEW r, NEW u, NEW live, NEW stores, Tells(q, s, r, u, live, stores),
           Talks(q, s, r, u, live), IsQueue(q), Handlers(q), IsSequence(s), IdIsFree(q),
           ~IsActive(q) => Free(q.nextId, q.waiting, Way(q, s, live), r, u)
    PROVE  Tells(DequeueAndRun(q), s, r, u, live, stores)
<1> DEFINE d == DequeueAndRun(q)
<1>1. CASE IsActive(q) \/ q.tasks = <<>>
  BY <1>1 DEF DequeueAndRun
<1>2. CASE ~IsActive(q) /\ q.tasks # <<>>
  <2> DEFINE t == Head(q.tasks)
  <2>1. /\ t \in Transfers /\ d.active.id = q.nextId /\ d.active.of = t
        /\ d.active.state = "Pending" /\ d.waiting = <<>> /\ d.running = q.running
        /\ d.fields = q.fields /\ d.active.queuedCommands = <<>>
    BY <1>2, DequeueEffect, DequeueSends
  <2>2. Holds(q.tasks, t)
    <3>1. IsSequence(q.tasks)
      BY DEF IsQueue, IsSequence
    <3> QED
      BY <1>2, <3>1, TailHolds
  <2> HIDE DEF d, t
  <2>3. IsActive(d) /\ ~Own(d) /\ ~Own(q)
    BY <1>2, <2>1, TransfersAssumption DEF IsActive, IdIsFree, Own, Waits
  <2>4. Given(d) = <<>> /\ Given(q) = <<>> /\ StateOf(d) = "Pending" /\ q.active.queuedCommands = <<>>
    BY <1>2, <2>1, <2>3 DEF Given, StateOf, Talks, Lined
  <2>5. Way(d, s, live) = s /\ Way(q, s, live) = s
    BY <2>1, <2>4, NothingUnsent
  <2>6. \A e : ~Holds(<<>>, e)
    BY ShortHolds
  <2>7. \A c : Heard(d.waiting, r, c) => Heard(q.waiting, r, c)
    BY <2>1, <2>6 DEF Heard
  <2>8. q.fields[t] = NewTransfer
    BY <2>2 DEF Talks, Lined
  <2>9. CourseOf(d, s, r, u, stores)
    <3> DEFINE id == q.nextId
               x == q.fields[t]
               w == d.waiting
               e == stores[t]
    <3>1. Free(id, w, s, r, u)
      BY <1>2, <2>5, <2>7 DEF Free, Silent
    <3>2. x.numFrames = 0 /\ x.moved = 0 /\ x.promise # "resolved"
      BY <2>8 DEF NewTransfer
    <3>3. \A h : Holds(w, h) => \E c : h = Handle(c)
      BY <2>1, <2>6
    <3> HIDE DEF id, x, w, e
    <3>4. Course(id, t, x, "Pending", w, s, r, u, e)
      BY <3>1, <3>2, <3>3, FreshCourse
    <3> QED
      BY <2>1, <2>4, <3>4 DEF CourseOf, id, x, w, e
  <2>10. TakenStored(d, stores) /\ NoFailure(d.waiting, r)
    BY <2>1, <2>7 DEF Tells, TakenStored, NoFailure
  <2>11. Tells(d, s, r, u, live, stores)
    BY <2>1, <2>5, <2>9, <2>10 DEF Tells
  <2> QED
    BY <2>11 DEF d
<1> QED
  BY <1>1, <1>2

\* The active transfer is dropped.
LEMMA DroppedTells ==
    ASSUME NEW q, NEW q2, NEW s, NEW r, NEW u, NEW live, NEW stores, Tells(q, s, r, u, live, stores),
           Talks(q, s, r, u, live), IsQueue(q), Typed(q), IsSequence(s), q2.active = NoActive,
           q2.running = q.running, q2.waiting = q.waiting \/ q2.waiting = <<>>,
           \A t \in Transfers : Alike(q2.fields[t], q.fields[t])
    PROVE  Tells(q2, s, r, u, live, stores)
<1>1. ~IsActive(q2) /\ ~Own(q2) /\ q2.active.queuedCommands = <<>>
  BY DEF IsActive, Own, NoActive
<1>2. Way(q2, s, live) = s
  BY <1>1, NothingUnsent DEF Given
<1>3. Way(q, s, live) \in {s, s \o Unsent(q)} /\ IsSequence(Unsent(q))
  BY WayIs DEF Way
<1>4. Within(s, Way(q, s, live))
  <2>1. /\ Len(s) \in Nat /\ Len(Unsent(q)) \in Nat /\ DOMAIN s = 1 .. Len(s)
        /\ DOMAIN (s \o Unsent(q)) = 1 .. Len(s) + Len(Unsent(q))
        /\ \A i \in 1 .. Len(s) : (s \o Unsent(q))[i] = s[i]
    BY <1>3, JoinAt
  <2>2. \A i \in DOMAIN s : i \in DOMAIN (s \o Unsent(q)) /\ (s \o Unsent(q))[i] = s[i]
    BY <2>1
  <2> QED
    BY <1>3, <2>2 DEF Within
<1>5. Quieter(q2.waiting, r, q.waiting, r)
  <2>1. \A e : ~Holds(<<>>, e)
    BY ShortHolds
  <2> QED
    BY <2>1 DEF Quieter, Heard
<1>6. Chained(Way(q, s, live), u) /\ SameOrNone(u, u)
  BY DEF Talks, SameOrNone
<1>7. Within(Way(q2, s, live), Way(q, s, live))
  BY <1>2, <1>4
<1> QED
  BY <1>1, <1>5, <1>6, <1>7, LessTells

\* The active transfer ends, and the next one begins.
LEMMA EndTells ==
    ASSUME NEW q, NEW s, NEW r, NEW u, NEW live, NEW stores, Tells(q, s, r, u, live, stores),
           Talks(q, s, r, u, live), IsQueue(q), Handlers(q), Typed(q), IsSequence(s), IdIsFree(q),
           Free(q.nextId, q.waiting, Way(q, s, live), r, u)
    PROVE  Tells(EndActive(q), s, r, u, live, stores)
<1> DEFINE a == [TransferCompleted(q) EXCEPT !.active = NoActive]
<1>1. /\ DOMAIN a = DOMAIN q /\ a.active = NoActive
      /\ \A f \in {"tasks", "urgent", "waiting", "running", "nextId", "fields"} : a[f] = q[f]
  BY DEF TransferCompleted, SendLock, IsQueue
<1>2. EndActive(q) = DequeueAndRun(a)
  BY DEF EndActive
<1> HIDE DEF a
<1>3. /\ a.tasks = q.tasks /\ a.waiting = q.waiting /\ a.running = q.running /\ a.nextId = q.nextId
      /\ a.fields = q.fields /\ a.urgent = q.urgent
  BY <1>1
<1>4. IsQueue(a) /\ Handlers(a) /\ IdIsFree(a)
  BY <1>1, <1>3 DEF IsQueue, Handlers, NoActive, IdIsFree, Waits
<1>5. /\ Talks(a, s, r, u, live) /\ Way(a, s, live) = s
      /\ \A id : Free(id, q.waiting, Way(q, s, live), r, u) => Free(id, a.waiting, s, r, u)
  <2>1. a.tasks = q.tasks \/ a.tasks = <<>>
    BY <1>3
  <2>2. a.waiting = q.waiting \/ a.waiting = <<>>
    BY <1>3
  <2>3. \A t : Holds(a.tasks, t) => a.fields[t] = q.fields[t]
    BY <1>3
  <2> QED
    BY <1>1, <1>3, <2>1, <2>2, <2>3, DroppedTalks
<1>6. Free(a.nextId, a.waiting, Way(a, s, live), r, u)
  BY <1>3, <1>5
<1>7. Tells(a, s, r, u, live, stores)
  <2>1. \A t \in Transfers : Alike(a.fields[t], q.fields[t])
    BY <1>3 DEF Alike
  <2> QED
    BY <1>1, <1>3, <2>1, DroppedTells
<1> QED
  BY <1>2, <1>4, <1>5, <1>6, <1>7, DequeueTells

\* Aborting changes nothing that is counted.
LEMMA AbortAlike ==
    ASSUME NEW x, IsTransfer(x)
    PROVE  Alike(Abort(x), x) /\ IsTransfer(Abort(x))
BY DEF Abort, Settle, IsTransfer, Alike

\* All transfers are dropped.
LEMMA ClearTells ==
    ASSUME NEW q, NEW s, NEW r, NEW u, NEW live, NEW stores, Tells(q, s, r, u, live, stores),
           Talks(q, s, r, u, live), IsQueue(q), Typed(q), IsSequence(s)
    PROVE  Tells(ClearQueue(q), s, r, u, live, stores)
<1> DEFINE aborted == {q.tasks[i] : i \in DOMAIN q.tasks} \union
                      (IF IsActive(q) THEN {q.active.of} ELSE {})
           a == TransferCompleted(ClearHandlers([q EXCEPT !.tasks = <<>>]))
           fields == [t \in Transfers |-> IF t \in aborted THEN Abort(a.fields[t]) ELSE a.fields[t]]
           c == ClearQueue(q)
<1>1. DOMAIN q = {"tasks", "active", "isLocked", "urgent", "waiting", "running", "nextId",
                  "lockCommands", "fields"}
  BY DEF IsQueue
<1>2. /\ DOMAIN a = DOMAIN q /\ a.waiting = <<>> /\ a.running = q.running /\ a.fields = q.fields
  BY <1>1 DEF TransferCompleted, ClearHandlers, SendLock
<1>3. c = [a EXCEPT !.active = NoActive, !.fields = fields]
  BY DEF ClearQueue
<1> HIDE DEF a, fields, c, aborted
<1>4. c.waiting = <<>> /\ c.running = q.running /\ c.active = NoActive /\ c.fields = fields
  BY <1>1, <1>2, <1>3
<1>5. ASSUME NEW t \in Transfers PROVE Alike(c.fields[t], q.fields[t])
  <2>1. c.fields[t] \in {Abort(q.fields[t]), q.fields[t]}
    BY <1>2, <1>4 DEF fields
  <2>2. IsTransfer(q.fields[t])
    BY DEF IsQueue
  <2> QED
    BY <2>1, <2>2, AbortAlike DEF Alike
<1>6. Tells(c, s, r, u, live, stores)
  BY <1>4, <1>5, DroppedTells
<1> QED
  BY <1>6 DEF c

\* A queue that differs in nothing that is told.
LEMMA SameTells ==
    ASSUME NEW q, NEW q2, NEW s, NEW r, NEW u, NEW live, NEW stores, Tells(q, s, r, u, live, stores),
           Talks(q, s, r, u, live), IsQueue(q),
           q2.fields = q.fields \/ \A t \in Transfers : Alike(q2.fields[t], q.fields[t]),
           q2.waiting = q.waiting, Way(q2, s, live) = Way(q, s, live),
           q2.active.id = q.active.id, q2.active.of = q.active.of,
           StateOf(q2) = "Pending" <=> StateOf(q) = "Pending",
           q2.running = q.running \/ q2.running.wait # "nextFrame"
    PROVE  Tells(q2, s, r, u, live, stores)
<1>1. \A t \in Transfers : Alike(q2.fields[t], q.fields[t])
  BY DEF Alike
<1>2. /\ Quieter(q2.waiting, r, q.waiting, r) /\ SameOrNone(u, u)
      /\ Within(Way(q2, s, live), Way(q, s, live)) /\ Chained(Way(q, s, live), u)
      /\ Sparser(q.active.id, q2.waiting, Way(q2, s, live), r, q.waiting, Way(q, s, live), r)
  BY DEF Quieter, SameOrNone, Within, Talks, Sparser
<1>3. IsActive(q2) => IsActive(q)
  BY DEF IsActive
<1> QED
  BY <1>1, <1>2, <1>3, LessTells

\* The start of a transfer begins.
LEMMA StartTells ==
    ASSUME NEW q, NEW s, NEW r, NEW u, NEW live, NEW stores, Tells(q, s, r, u, live, stores),
           Talks(q, s, r, u, live), IsQueue(q), Handlers(q),
           Typed(q), IsSequence(s), q.running = Idle,
           \A t \in Transfers : Kind[t] = "download" => Chunks[t] # 0
    PROVE  Tells(BeginStart(q), s, r, u, live, stores)
<1> DEFINE t == q.active.of
           x == Active(q)
           c == Request(t, q.active.id, x.numFrames)
           b == BeginStart(q)
<1>1. ~Waits(q) /\ ~Own(q) /\ Given(q) = <<>> /\ StateOf(q) = q.active.state
  BY DEF Waits, Own, Given, Idle, StateOf
<1>2. /\ DOMAIN q = {"tasks", "active", "isLocked", "urgent", "waiting", "running", "nextId",
                     "lockCommands", "fields"}
      /\ IsActive(q) => t \in Transfers
  BY DEF IsQueue, IsActive
<1>3. ASSUME NEW e, e.fields = q.fields, e.waiting = q.waiting, e.active = q.active,
             Given(e) = <<>>, StateOf(e) = q.active.state, e.running.wait # "nextFrame"
      PROVE  Tells(e, s, r, u, live, stores)
  <2>1. Way(e, s, live) = Way(q, s, live)
    BY <1>1, <1>3 DEF Way, Unsent
  <2> QED
    BY <1>1, <1>3, <2>1, SameTells
<1>4. CASE ~IsActive(q) \/ q.active.state # "Pending"
  <2>1. b = [q EXCEPT !.running = Returning]
    BY <1>4 DEF BeginStart
  <2>2. /\ b.active = q.active /\ b.fields = q.fields /\ b.waiting = q.waiting
        /\ ~Waits(b) /\ b.running.wait # "nextFrame"
    BY <1>2, <2>1 DEF Waits, Returning
  <2> HIDE DEF b
  <2>3. Given(b) = <<>> /\ StateOf(b) = q.active.state
    BY <2>2, OthersGive
  <2>4. Tells(b, s, r, u, live, stores)
    BY <1>3, <2>2, <2>3
  <2> QED
    BY <2>4 DEF b
<1>5. CASE IsActive(q) /\ q.active.state = "Pending"
  <2>1. CASE Locking /\ ~q.isLocked
    <3>1. b = [SendLock(q, TRUE) EXCEPT !.running = Storing(q, Progress(x, "Pending", <<>>))]
      BY <1>5, <2>1 DEF BeginStart
    <3>2. /\ b.active = q.active /\ b.fields = q.fields /\ b.waiting = q.waiting
          /\ b.running.wait = "store" /\ b.running.result = Progress(x, "Pending", <<>>)
      BY <1>2, <3>1 DEF SendLock, Storing
    <3>3. b.running.result.newState = "Pending" /\ b.running.result.commands = <<>>
      BY <3>2 DEF Progress
    <3> HIDE DEF b, x
    <3>4. Given(b) = <<>> /\ StateOf(b) = q.active.state
      BY <1>5, <3>2, <3>3 DEF Given, StateOf
    <3>5. Tells(b, s, r, u, live, stores)
      BY <1>3, <3>2, <3>4
    <3> QED
      BY <3>5 DEF b
  <2>2. CASE ~(Locking /\ ~q.isLocked) /\ Kind[t] = "clip"
    <3>1. b = [q EXCEPT !.running = FirstFrame(q)]
      BY <1>5, <2>2 DEF BeginStart
    <3>2. /\ b.active = q.active /\ b.fields = q.fields /\ b.waiting = q.waiting
          /\ b.running.wait = "firstFrame"
      BY <1>2, <3>1 DEF FirstFrame
    <3> HIDE DEF b
    <3>3. Given(b) = <<>> /\ StateOf(b) = q.active.state
      BY <3>2 DEF Given, StateOf
    <3>4. Tells(b, s, r, u, live, stores)
      BY <1>3, <3>2, <3>3
    <3> QED
      BY <3>4 DEF b
  <2>3. CASE ~(Locking /\ ~q.isLocked) /\ Kind[t] # "clip"
    <3> DEFINE result == StartBuffer(t, x, q.active.id)
    <3>1. b = [q EXCEPT !.running = Storing(q, result)]
      BY <1>5, <2>3 DEF BeginStart
    <3>2. result.newState = "Ready" /\ result.commands = <<c>>
      BY DEF StartBuffer, Progress
    <3> HIDE DEF result
    <3>3. /\ b.active = q.active /\ b.fields = q.fields /\ b.waiting = q.waiting
          /\ b.running.wait = "store" /\ b.running.result = result /\ b.running.id = q.active.id
      BY <1>2, <3>1 DEF Storing
    <3>4. c.type = "request" /\ c.frame = x.numFrames /\ c.of = t /\ x = q.fields[t]
      BY DEF Request, Active
    <3> HIDE DEF b, x, c
    <3>5. IsActive(b) /\ Own(b) /\ Given(b) = <<c>> /\ StateOf(b) = "Ready" /\ StateOf(q) = "Pending"
      BY <1>1, <1>5, <3>2, <3>3 DEF IsActive, Own, Waits, Given, StateOf
    <3> DEFINE p == Way(q, s, live)
               p2 == Way(b, s, live)
    <3>6. IsSequence(p)
      BY WayIs
    <3>7. p2 = p \/ p2 = p \o <<c>>
      <4>1. IsSequence(Given(b)) /\ b.active.queuedCommands = q.active.queuedCommands
        BY <3>3, <3>5, GivenSequences
      <4>2. Way(b, s, live) = IF live THEN Way(q, s, live) \o Given(b) ELSE s
        BY <1>1, <4>1, GivenWay
      <4>3. p2 = IF live THEN p \o <<c>> ELSE s
        BY <3>5, <4>2
      <4>4. ~live => p = s
        BY DEF Way
      <4> QED
        BY <4>3, <4>4
    <3> HIDE DEF p, p2
    <3>8. Free(q.active.id, q.waiting, p, r, u) /\ x.moved = 0 /\ Chained(p, u)
      BY <1>5, <3>4, <3>5 DEF Talks, DialogOf, Dialog, p
    <3>9. \A i \in DOMAIN p2 : (\E j \in DOMAIN p : p2[i] = p[j]) \/ p2[i] = c
      <4>1. /\ DOMAIN p = 1 .. Len(p) /\ Len(p) \in Nat /\ DOMAIN (p \o <<c>>) = 1 .. Len(p) + 1
            /\ (p \o <<c>>)[Len(p) + 1] = c /\ \A i \in 1 .. Len(p) : (p \o <<c>>)[i] = p[i]
        BY <3>6, OneMoreAt
      <4>2. \A i \in DOMAIN (p \o <<c>>) : i \in DOMAIN p \/ i = Len(p) + 1
        BY <4>1
      <4> QED
        BY <3>7, <4>1, <4>2
    <3>10. CourseOf(b, p2, r, u, stores)
      <4> DEFINE id == q.active.id
                 w == q.waiting
                 d == stores[t]
      <4>1. \A h : Holds(w, h) => \E e : h = Handle(e)
        BY DEF Handlers
      <4>2. \A i \in DOMAIN p2 :
               \/ \E j \in DOMAIN p : p2[i] = p[j]
               \/ p2[i].type # "dataAck" /\ (Is(p2[i], "request", id) => p2[i].frame = x.numFrames)
        BY <3>4, <3>9
      <4>3. Kind[t] = "download" => x.moved = 0 /\ x.promise # "resolved"
        <5>1. t \in Transfers /\ Account(t, x, stores[t])
          BY <1>2, <1>5, <3>4 DEF Tells
        <5> QED
          BY <3>8, <5>1 DEF Account, IsDone
      <4> HIDE DEF id, w, d
      <4>4. Free(id, w, p, r, u)
        BY <3>8 DEF id, w
      <4> HIDE DEF t
      <4>5. Kind[t] # "clip"
        BY <2>3 DEF t
      <4>6. Course(id, t, x, "Ready", w, p2, r, u, d)
        BY ONLY <4>1, <4>2, <4>3, <4>4, <4>5, FreshCourse
      <4> QED
        BY <3>3, <3>4, <3>5, <4>6 DEF CourseOf, id, w, d, t
    <3>11. Asked(b.fields, p2, u)
      <4>1. Asked(q.fields, p, u) /\ Chained(p, u)
        BY <3>8 DEF Tells, p
      <4>2. \A i \in DOMAIN p2 : p2[i].type = "request" /\ Kind[p2[i].of] = "clip" =>
               \/ \E j \in DOMAIN p : p2[i] = p[j]
               \/ p2[i].frame \in 1 .. b.fields[p2[i].of].numFrames
        BY <2>3, <3>4, <3>9
      <4>3. \A e \in Transfers : Kind[e] = "clip" =>
               1 .. q.fields[e].numFrames \subseteq 1 .. b.fields[e].numFrames
        BY <3>3
      <4>4. SameOrNone(u, u)
        BY DEF SameOrNone
      <4> QED
        BY <4>1, <4>2, <4>3, <4>4, AskedStays
    <3>12. TakenStored(b, stores) /\ NoFailure(b.waiting, r)
      BY <3>3 DEF Tells, TakenStored
    <3> QED
      BY <3>3, <3>10, <3>11, <3>12 DEF Tells, b, p2
  <2> QED
    BY <2>1, <2>2, <2>3
<1> QED
  BY <1>4, <1>5

\* A transfer is aborted, if it is still the active one.
LEMMA AbortTells ==
    ASSUME NEW q, NEW id, NEW s, NEW r, NEW u, NEW live, NEW stores,
           Tells(q, s, r, u, live, stores), Talks(q, s, r, u, live), IsQueue(q),
           Handlers(q), Typed(q), IsSequence(s), q.running = Idle,
           Free(q.nextId, q.waiting, Way(q, s, live), r, u)
    PROVE  Tells(BeginAbort(q, id), s, r, u, live, stores)
<1> DEFINE b == [q EXCEPT !.running = Returning]
           a == AbortActive(b)
<1>1. BeginAbort(q, id) = IF IsActive(q) /\ q.active.id = id THEN EndActive(a) ELSE b
  BY DEF BeginAbort
<1>2. ~Waits(q) /\ Given(q) = <<>> /\ StateOf(q) = q.active.state
  BY OthersGive DEF Waits, Idle
<1>3. CASE ~(IsActive(q) /\ q.active.id = id)
  <2>1. /\ b.active = q.active /\ b.fields = q.fields /\ b.waiting = q.waiting
        /\ b.running = Returning
    BY DEF IsQueue
  <2> HIDE DEF b, a
  <2>2. ~Waits(b) /\ b.running.wait # "nextFrame"
    BY <2>1 DEF Waits, Returning
  <2>3. Given(b) = <<>> /\ StateOf(b) = StateOf(q)
    BY <1>2, <2>1, <2>2, OthersGive
  <2>4. Way(b, s, live) = Way(q, s, live)
    BY <1>2, <2>1, <2>3 DEF Way, Unsent
  <2>5. Tells(b, s, r, u, live, stores)
    BY <2>1, <2>2, <2>3, <2>4, SameTells
  <2> QED
    BY <1>1, <1>3, <2>5
<1>4. CASE IsActive(q) /\ q.active.id = id
  <2>1. /\ Talks(a, s, r, u, live) /\ Way(a, s, live) = Way(q, s, live)
        /\ IsQueue(a) /\ Handlers(a) /\ Typed(a) /\ IdIsFree(a)
        /\ Free(a.nextId, a.waiting, Way(a, s, live), r, u)
        /\ a.active = q.active /\ a.waiting = q.waiting /\ a.running = Returning
        /\ a.fields = [q.fields EXCEPT ![q.active.of] = Abort(@)]
    BY <1>4, AbortedTalks
  <2> HIDE DEF b, a
  <2>2. ~Waits(a) /\ a.running.wait # "nextFrame"
    BY <2>1 DEF Waits, Returning
  <2>3. StateOf(a) = StateOf(q)
    BY <1>2, <2>1, <2>2, OthersGive
  <2>4. ASSUME NEW t \in Transfers PROVE Alike(a.fields[t], q.fields[t])
    <3>1. IsTransfer(q.fields[t]) /\ DOMAIN q.fields = Transfers
      BY DEF IsQueue
    <3>2. a.fields[t] \in {Abort(q.fields[t]), q.fields[t]}
      BY <2>1, <3>1
    <3> QED
      BY <3>1, <3>2, AbortAlike DEF Alike
  <2>5. Tells(a, s, r, u, live, stores)
    BY <2>1, <2>2, <2>3, <2>4, SameTells
  <2>6. Tells(EndActive(a), s, r, u, live, stores)
    BY <2>1, <2>5, EndTells
  <2> QED
    BY <1>1, <1>4, <2>6
<1> QED
  BY <1>3, <1>4

-----------------------------------------------------------------------------
(* What the handlers tell *)

\* A command is taken from those that wait.
LEMMA TakenIs ==
    ASSUME NEW id, NEW w, NEW p, NEW r, IsSequence(w), w # <<>>
    PROVE  /\ Quieter(Tail(w), r, w, r) /\ Sparser(id, Tail(w), p, r, w, p, r)
           /\ Once(id, w, r) /\ Is(Head(w).command, "data", id) =>
                 /\ \A i \in DOMAIN Tail(w) : ~Is(Tail(w)[i].command, "data", id)
                 /\ \A i \in DOMAIN r : ~Is(r[i], "data", id)
<1>1. /\ 1 \in DOMAIN w /\ Head(w) = w[1]
      /\ \A i \in DOMAIN Tail(w) : i \in Nat /\ i >= 1 /\ i + 1 \in DOMAIN w /\ Tail(w)[i] = w[i + 1]
  BY RestAt
<1>2. Quieter(Tail(w), r, w, r)
  BY TailHolds DEF Quieter, Heard
<1>3. ASSUME Once(id, w, r)
      PROVE  Once(id, Tail(w), r)
  <2>1. ASSUME NEW i \in DOMAIN Tail(w), NEW j \in DOMAIN Tail(w),
               Is(Tail(w)[i].command, "data", id), Is(Tail(w)[j].command, "data", id)
        PROVE  i = j
    <3>1. /\ i \in Nat /\ i + 1 \in DOMAIN w /\ Tail(w)[i] = w[i + 1]
          /\ j \in Nat /\ j + 1 \in DOMAIN w /\ Tail(w)[j] = w[j + 1]
      BY <1>1
    <3>2. i + 1 = j + 1
      BY <1>3, <2>1, <3>1 DEF Once
    <3> QED
      BY <3>1, <3>2
  <2>2. ASSUME NEW i \in DOMAIN Tail(w), NEW j \in DOMAIN r
        PROVE  ~(Is(Tail(w)[i].command, "data", id) /\ Is(r[j], "data", id))
    BY <1>1, <1>3 DEF Once
  <2> QED
    BY <1>3, <2>1, <2>2 DEF Once
<1>4. ASSUME Once(id, w, r), Is(Head(w).command, "data", id)
      PROVE  /\ \A i \in DOMAIN Tail(w) : ~Is(Tail(w)[i].command, "data", id)
             /\ \A i \in DOMAIN r : ~Is(r[i], "data", id)
  <2>1. ASSUME NEW i \in DOMAIN Tail(w), Is(Tail(w)[i].command, "data", id)
        PROVE  FALSE
    <3>1. i \in Nat /\ i >= 1 /\ i + 1 \in DOMAIN w /\ Tail(w)[i] = w[i + 1]
      BY <1>1
    <3>2. i + 1 = 1
      BY <1>1, <1>4, <2>1, <3>1 DEF Once
    <3> QED
      BY <3>1, <3>2
  <2> QED
    BY <1>1, <1>4, <2>1 DEF Once
<1> QED
  BY <1>2, <1>3, <1>4 DEF Sparser

\* What an upload answers: chunks, until it is complete or fails.
LEMMA UploadAnswers ==
    ASSUME NEW t \in Transfers, NEW x, IsTransfer(x), NEW state, NEW c,
           c.type \in {"continue", "complete", "error"}, Answer(c), x.moved \in 0 .. Chunks[t],
           state \in {"Ready", "Transferring"}
    PROVE  LET f == HandleUpload(t, x, c, state)
           IN  /\ f.fields.numFrames = x.numFrames /\ DOMAIN f.fields = DOMAIN x /\ ~f.frameDone
               /\ f.fields.promise = "resolved" => x.promise = "resolved" \/ c.type = "complete"
               /\ f.newState = "Finished" => c.type \in {"complete", "error"}
               /\ \A i \in DOMAIN f.commands : f.commands[i].type \in Parts
<1> DEFINE f == HandleUpload(t, x, c, state)
<1>1. ASSUME NEW y, NEW newState, y.numFrames = x.numFrames, DOMAIN y = DOMAIN x,
             y.promise = "resolved" => x.promise = "resolved" \/ c.type = "complete",
             newState = "Finished" => c.type \in {"complete", "error"},
             NEW l, \A i \in DOMAIN l : l[i].type \in Parts, f = Progress(y, newState, l)
      PROVE  /\ f.fields.numFrames = x.numFrames /\ DOMAIN f.fields = DOMAIN x /\ ~f.frameDone
             /\ f.fields.promise = "resolved" => x.promise = "resolved" \/ c.type = "complete"
             /\ f.newState = "Finished" => c.type \in {"complete", "error"}
             /\ \A i \in DOMAIN f.commands : f.commands[i].type \in Parts
  <2>1. f.fields = y /\ f.newState = newState /\ f.commands = l /\ ~f.frameDone
    <3> HIDE DEF f
    <3> QED
      BY <1>1 DEF Progress
  <2> HIDE DEF f
  <2> QED
    BY <1>1, <2>1
<1>2. DOMAIN <<>> = {}
  OBVIOUS
<1>3. CASE c.type = "error"
  <2>1. f = Progress(Abort(x), "Finished", <<>>)
    BY <1>3 DEF HandleUpload, HandleError, Answer
  <2>2. /\ Abort(x).numFrames = x.numFrames /\ DOMAIN Abort(x) = DOMAIN x
        /\ Abort(x).promise = "resolved" => x.promise = "resolved"
    BY DEF Abort, Settle, IsTransfer
  <2> HIDE DEF f
  <2> QED
    BY <1>1, <1>2, <1>3, <2>1, <2>2 DEF f
<1>4. CASE c.type = "complete"
  <2> DEFINE y == Settle(x, "resolved")
  <2>1. y.numFrames = x.numFrames /\ DOMAIN y = DOMAIN x
    BY DEF Settle, IsTransfer
  <2>2. f = Progress(y, "Finished", <<>>) \/ f = Progress(x, state, <<>>)
    BY <1>4 DEF HandleUpload, Complete
  <2> HIDE DEF f, y
  <2> QED
    BY <1>1, <1>2, <1>4, <2>1, <2>2 DEF f
<1>5. CASE c.type = "continue"
  <2> DEFINE n == ChunksDue(t, x, c.count)
             e == IF state = "Ready" THEN <<Description(c.id)>> ELSE <<>>
             d == [i \in 1 .. n |-> Data(c.id, x.moved + i)]
             y == [x EXCEPT !.moved = @ + n]
  <2>1. n \in Nat
    <3>1. x.moved \in Nat /\ Chunks[t] \in Nat /\ x.moved <= Chunks[t]
      BY TransfersAssumption
    <3> QED
      BY <1>5, <3>1 DEF ChunksDue, Answer
  <2>2. f = Progress(y, "Transferring", e \o d)
    BY <1>5 DEF HandleUpload, Continue
  <2>3. y.numFrames = x.numFrames /\ DOMAIN y = DOMAIN x /\ y.promise = x.promise
    BY DEF IsTransfer
  <2> HIDE DEF f, y, n
  <2>4. IsSequence(e) /\ IsSequence(d)
    <3>1. IsSequence(e)
      BY GivenSequences
    <3> DEFINE S == {Data(c.id, x.moved + i) : i \in 1 .. n}
    <3>2. \A i \in 1 .. n : Data(c.id, x.moved + i) \in S
      OBVIOUS
    <3> HIDE DEF S
    <3>3. d \in Seq(S)
      BY <2>1, <3>2
    <3> QED
      BY <3>1, <3>3 DEF IsSequence
  <2>5. (\A i \in DOMAIN e : e[i].type \in Parts) /\ (\A i \in DOMAIN d : d[i].type \in Parts)
    BY DEF Description, Data, Parts
  <2> HIDE DEF e, d
  <2>6. \A i \in DOMAIN (e \o d) : (e \o d)[i].type \in Parts
    <3>1. /\ Len(e) \in Nat /\ Len(d) \in Nat /\ DOMAIN e = 1 .. Len(e) /\ DOMAIN d = 1 .. Len(d)
          /\ DOMAIN (e \o d) = 1 .. Len(e) + Len(d)
          /\ \A i \in 1 .. Len(e) : (e \o d)[i] = e[i]
          /\ \A i \in 1 .. Len(d) : (e \o d)[Len(e) + i] = d[i]
      BY <2>4, JoinAt
    <3> SUFFICES ASSUME NEW i \in DOMAIN (e \o d) PROVE (e \o d)[i].type \in Parts
      OBVIOUS
    <3>2. CASE i \in 1 .. Len(e)
      BY <2>5, <3>1, <3>2
    <3>3. CASE i \notin 1 .. Len(e)
      <4>1. i - Len(e) \in 1 .. Len(d) /\ i = Len(e) + (i - Len(e))
        BY <3>1, <3>3
      <4> QED
        BY <2>5, <3>1, <4>1
    <3> QED
      BY <3>2, <3>3
  <2> QED
    BY <1>1, <2>2, <2>3, <2>6 DEF f
<1> QED
  BY <1>3, <1>4, <1>5

\* What a clip answers is its frame's.
LEMMA ClipAnswers ==
    ASSUME NEW t \in Transfers, NEW x, IsTransfer(x), NEW state, NEW c,
           c.type \in {"continue", "complete", "error"}, Answer(c), x.moved \in 0 .. Chunks[t],
           state \in {"Ready", "Transferring"}
    PROVE  LET g == HandleFrame(t, x, c, state)
           IN  /\ g.fields.numFrames = x.numFrames /\ g.fields.promise = x.promise
               /\ g.frameDone => c.type \in {"complete", "error"}
               /\ \A i \in DOMAIN g.commands : g.commands[i].type \in Parts
<1> DEFINE f == HandleUpload(t, x, c, state)
           g == HandleFrame(t, x, c, state)
<1>1. /\ f.fields.numFrames = x.numFrames /\ DOMAIN f.fields = DOMAIN x
      /\ f.newState = "Finished" => c.type \in {"complete", "error"}
      /\ \A i \in DOMAIN f.commands : f.commands[i].type \in Parts
  BY UploadAnswers
<1>2. /\ g.fields = [f.fields EXCEPT !.promise = x.promise] /\ g.commands = f.commands
      /\ g.frameDone <=> f.newState = "Finished"
  BY DEF HandleFrame
<1> HIDE DEF f, g
<1>3. g.fields.numFrames = x.numFrames /\ g.fields.promise = x.promise
  BY <1>1, <1>2 DEF IsTransfer
<1> QED
  BY <1>1, <1>2, <1>3 DEF g

\* What a download answers: that it received a chunk.
LEMMA DownloadAnswers ==
    ASSUME NEW t, NEW x, IsTransfer(x), NEW state, NEW c, c.type \in Answers, Answer(c)
    PROVE  LET f == HandleDownload(t, x, c, state)
           IN  /\ f.fields.numFrames = x.numFrames /\ ~f.frameDone
               /\ f.commands = <<>> \/ (c.type = "data" /\ f.commands = <<DataAck(c.id)>>)
               /\ f.fields.moved = IF c.type = "data" THEN x.moved + 1 ELSE x.moved
               /\ f.fields.promise = "resolved" => x.promise = "resolved" \/ c.type = "complete"
<1> DEFINE f == HandleDownload(t, x, c, state)
<1>1. ASSUME NEW y, NEW newState, NEW l, f = Progress(y, newState, l)
      PROVE  f.fields = y /\ f.commands = l /\ ~f.frameDone
  <2> HIDE DEF f
  <2> QED
    BY <1>1 DEF Progress
<1>2. /\ Abort(x).numFrames = x.numFrames /\ Abort(x).moved = x.moved
      /\ Abort(x).promise = "resolved" => x.promise = "resolved"
  BY DEF Abort, Settle, IsTransfer
<1>3. CASE c.type = "error"
  <2>1. f = Progress(Abort(x), "Finished", <<>>)
    BY <1>3 DEF HandleDownload, HandleError, Answer
  <2> HIDE DEF f
  <2> QED
    BY <1>1, <1>2, <1>3, <2>1 DEF f
<1>4. CASE c.type = "data"
  <2> DEFINE y == [x EXCEPT !.moved = @ + 1]
  <2>1. f = Progress(Abort(y), "Finished", <<>>) \/ f = Progress(y, state, <<DataAck(c.id)>>)
    BY <1>4 DEF HandleDownload, Receive
  <2>2. /\ y.numFrames = x.numFrames /\ y.moved = x.moved + 1 /\ y.promise = x.promise
        /\ IsTransfer(y)
    BY DEF IsTransfer
  <2> HIDE DEF f, y
  <2>3. /\ Abort(y).numFrames = y.numFrames /\ Abort(y).moved = y.moved
        /\ Abort(y).promise = "resolved" => y.promise = "resolved"
    BY <2>2 DEF Abort, Settle, IsTransfer
  <2> QED
    BY <1>1, <1>4, <2>1, <2>2, <2>3 DEF f
<1>5. CASE c.type = "complete"
  <2>1. f = Progress(Settle(x, "resolved"), "Finished", <<>>)
    BY <1>5 DEF HandleDownload
  <2>2. Settle(x, "resolved").numFrames = x.numFrames /\ Settle(x, "resolved").moved = x.moved
    BY DEF Settle, IsTransfer
  <2> HIDE DEF f
  <2> QED
    BY <1>1, <1>5, <2>1, <2>2 DEF f
<1>6. CASE c.type = "continue"
  <2>1. f = Progress(x, state, <<>>)
    BY <1>6 DEF HandleDownload
  <2> HIDE DEF f
  <2> QED
    BY <1>1, <1>6, <2>1 DEF f
<1> QED
  BY <1>3, <1>4, <1>5, <1>6 DEF Answers

\* A download has received a chunk or its end.
LEMMA AnsweredAlternates ==
    ASSUME NEW id, NEW t, NEW x, NEW w, NEW p, NEW r, NEW u, Alternates(id, t, x, w, p, r, u),
           NEW c, IsSequence(w), w # <<>>, IsSequence(p), Head(w) = Handle(c), c.id = id,
           ~Requested(p, id), Ends(c, id) => ~At(u, id), x.moved \in Int, NEW y, NEW p2,
           p2 = p \/ (c.type = "data" /\ p2 = p \o <<DataAck(id)>>),
           y.moved = IF c.type = "data" THEN x.moved + 1 ELSE x.moved,
           y.promise = "resolved" => x.promise = "resolved" \/ c.type = "complete"
    PROVE  Alternates(id, t, y, Tail(w), p2, r, u)
<1>1. Head(w).command = c /\ Holds(w, Handle(c)) /\ Heard(w, r, c)
  <2>1. Holds(w, Handle(c))
    BY TailHolds
  <2> QED
    BY <2>1 DEF Handle, Heard
<1>2. /\ Quieter(Tail(w), r, w, r) /\ Once(id, Tail(w), r)
      /\ c.type = "data" => /\ \A i \in DOMAIN Tail(w) : ~Is(Tail(w)[i].command, "data", id)
                            /\ \A i \in DOMAIN r : ~Is(r[i], "data", id)
  <2>1. Once(id, w, r)
    BY DEF Alternates
  <2>2. /\ Quieter(Tail(w), r, w, r) /\ Sparser(id, Tail(w), p, r, w, p, r)
        /\ Once(id, w, r) /\ Is(Head(w).command, "data", id) =>
              /\ \A i \in DOMAIN Tail(w) : ~Is(Tail(w)[i].command, "data", id)
              /\ \A i \in DOMAIN r : ~Is(r[i], "data", id)
    BY TakenIs
  <2> QED
    BY <1>1, <2>1, <2>2 DEF Sparser, Is
<1>3. /\ Hears(Tail(w), r, "data", id) => Hears(w, r, "data", id)
      /\ Hears(Tail(w), r, "complete", id) => Hears(w, r, "complete", id)
  BY <1>2 DEF Hears, Is, Quieter
<1>4. ~Has(p, "request", id)
  BY DEF Requested, Has, Is
<1>5. CASE c.type = "data"
  <2>1. Hears(w, r, "data", id)
    BY <1>1, <1>5 DEF Hears, Is
  <2>2. ~Hears(Tail(w), r, "data", id)
    <3>1. ASSUME NEW e, Holds(Tail(w), Handle(e)) PROVE ~Is(e, "data", id)
      BY <1>2, <1>5, <3>1 DEF Holds, Handle
    <3>2. ASSUME NEW e, Holds(r, e) PROVE ~Is(e, "data", id)
      BY <1>2, <1>5, <3>2 DEF Holds
    <3> QED
      BY <3>1, <3>2 DEF Hears, Heard
  <2>3. ~Has(p, "dataAck", id) /\ ~Hears(w, r, "complete", id) /\ (At(u, id) => u.got = x.moved)
        /\ x.promise # "resolved"
    BY <2>1 DEF Alternates
  <2>4. OneAck(id, p2) /\ ~Has(p2, "request", id)
    <3>1. CASE p2 = p
      BY <1>4, <2>3, <3>1 DEF OneAck, Has
    <3>2. CASE p2 = p \o <<DataAck(id)>>
      <4>1. /\ DOMAIN p = 1 .. Len(p) /\ Len(p) \in Nat /\ DOMAIN p2 = 1 .. Len(p) + 1
            /\ p2[Len(p) + 1] = DataAck(id) /\ \A i \in 1 .. Len(p) : p2[i] = p[i]
        BY <3>2, OneMoreAt
      <4>2. \A i \in DOMAIN p2 : i = Len(p) + 1 \/ (i \in DOMAIN p /\ p2[i] = p[i])
        BY <4>1
      <4>3. DataAck(id).type = "dataAck"
        BY DEF DataAck
      <4> QED
        BY <1>4, <2>3, <4>1, <4>2, <4>3 DEF OneAck, Has, Is
    <3> QED
      BY <3>1, <3>2
  <2>5. y.moved = x.moved + 1 /\ y.promise # "resolved"
    BY <1>5, <2>3
  <2>6. At(u, id) => u.got + 1 = y.moved
    BY <2>3, <2>5
  <2> QED
    BY <1>2, <1>3, <2>2, <2>3, <2>4, <2>5, <2>6 DEF Alternates
<1>6. CASE c.type # "data"
  <2>1. p2 = p /\ y.moved = x.moved
    BY <1>6
  <2>2. y.promise = "resolved" =>
            ~Hears(Tail(w), r, "data", id) /\ ~Has(p, "dataAck", id) /\ ~At(u, id)
    <3>1. CASE c.type = "complete"
      <4>1. Hears(w, r, "complete", id) /\ ~At(u, id)
        BY <1>1, <3>1 DEF Hears, Is, Ends
      <4> QED
        BY <1>3, <4>1 DEF Alternates
    <3>2. CASE c.type # "complete"
      BY <1>3, <3>2 DEF Alternates
    <3> QED
      BY <3>1, <3>2
  <2> QED
    BY <1>2, <1>3, <1>4, <2>1, <2>2 DEF Alternates
<1> QED
  BY <1>5, <1>6

\* A transfer has answered the first command that waits, as to its course.
Proceeds(result, id, t, x, state2, w, p, p2, r, u, d) ==
    /\ Account(t, result.fields, d) /\ result.fields.numFrames = x.numFrames
    /\ Course(id, t, result.fields, state2, Tail(w), p2, r, u, d)
    /\ result.frameDone => 1 .. x.numFrames \subseteq d
    /\ \A i \in DOMAIN p2 : p2[i].type = "request" => \E j \in DOMAIN p : p2[i] = p[j]

\* A transfer faces the first command that waits.
Facing(id, t, x, state, w, p, r, u, d, c) ==
    /\ t \in Transfers /\ IsTransfer(x) /\ x.moved \in Int
    /\ IsSequence(w) /\ w # <<>> /\ IsSequence(p)
    /\ \E live : Dialog(id, t, x.moved, state, w, p, r, u, live)
    /\ Course(id, t, x, state, w, p, r, u, d) /\ Account(t, x, d) /\ NoFailure(w, r)
    /\ Head(w) = Handle(c) /\ c.type \in Answers /\ c.id = id /\ Answer(c)

\* What a transfer makes of a command, as to its course.
LEMMA AnswerCourse ==
    ASSUME NEW id, NEW t, NEW x, NEW state, NEW w, NEW p, NEW r, NEW u, NEW d, NEW c,
           Facing(id, t, x, state, w, p, r, u, d, c),
           NEW result, result = HandleCommand(t, x, c, state), IsSequence(result.commands),
           NEW p2, p2 = p \/ p2 = p \o result.commands, NEW state2, state2 # "Pending"
    PROVE  Proceeds(result, id, t, x, state2, w, p, p2, r, u, d)
<1> /\ t \in Transfers /\ IsTransfer(x) /\ x.moved \in Int
    /\ IsSequence(w) /\ w # <<>> /\ IsSequence(p)
    /\ Course(id, t, x, state, w, p, r, u, d) /\ Account(t, x, d) /\ NoFailure(w, r)
    /\ Head(w) = Handle(c) /\ c.type \in Answers /\ c.id = id /\ Answer(c)
  BY DEF Facing
<1> DEFINE y == result.fields
<1>1. Heard(w, r, c) /\ About(c, id)
  <2>1. Holds(w, Handle(c))
    BY TailHolds
  <2> QED
    BY <2>1 DEF Heard, About
<1>2. ~Requested(p, id) /\ state # "Pending" /\ (Ends(c, id) => ~At(u, id))
  <2>1. PICK live : Dialog(id, t, x.moved, state, w, p, r, u, live)
    BY DEF Facing
  <2> QED
    BY <1>1, <2>1, AskedDialog
<1>3. Quieter(Tail(w), r, w, r)
  BY TakenIs
<1>4. c.type = "complete" => x.numFrames \in d
  BY <1>1 DEF Course, Hears, Is
<1>5. Hears(Tail(w), r, "complete", id) => x.numFrames \in d
  BY <1>3 DEF Course, Hears, Is, Quieter
<1>6. (\A i \in DOMAIN result.commands : result.commands[i].type # "request")
      => \A i \in DOMAIN p2 : p2[i].type = "request" => \E j \in DOMAIN p : p2[i] = p[j]
  <2> DEFINE l == result.commands
  <2>1. /\ Len(p) \in Nat /\ Len(l) \in Nat /\ DOMAIN p = 1 .. Len(p) /\ DOMAIN l = 1 .. Len(l)
        /\ DOMAIN (p \o l) = 1 .. Len(p) + Len(l)
        /\ \A i \in 1 .. Len(p) : (p \o l)[i] = p[i]
        /\ \A i \in 1 .. Len(l) : (p \o l)[Len(p) + i] = l[i]
    BY JoinAt
  <2> HIDE DEF l
  <2>2. \A i \in DOMAIN (p \o l) : \/ i \in DOMAIN p /\ (p \o l)[i] = p[i]
                                   \/ \E j \in DOMAIN l : (p \o l)[i] = l[j]
    <3> SUFFICES ASSUME NEW i \in DOMAIN (p \o l), i \notin 1 .. Len(p)
                 PROVE  \E j \in DOMAIN l : (p \o l)[i] = l[j]
      BY <2>1
    <3>1. i - Len(p) \in 1 .. Len(l) /\ i = Len(p) + (i - Len(p))
      BY <2>1
    <3> QED
      BY <2>1, <3>1
  <2>3. p2 = p \/ p2 = p \o l
    BY DEF l
  <2>4. (\A i \in DOMAIN l : l[i].type # "request")
        => \A i \in DOMAIN p2 : p2[i].type = "request" => \E j \in DOMAIN p : p2[i] = p[j]
    BY <2>2, <2>3
  <2> QED
    BY <2>4 DEF l
<1>7. CASE Kind[t] # "download"
  <2>1. /\ c.type \in {"continue", "complete", "error"} /\ x.moved \in 0 .. Chunks[t]
        /\ state \in {"Ready", "Transferring"}
    <3>1. PICK live : Dialog(id, t, x.moved, state, w, p, r, u, live)
      BY DEF Facing
    <3> QED
      BY <1>1, <1>7, <3>1, AskedUpload DEF Answers
  <2>2. /\ y.numFrames = x.numFrames
        /\ y.promise = "resolved" => x.promise = "resolved" \/ (Kind[t] = "upload" /\ c.type = "complete")
        /\ result.frameDone => Kind[t] = "clip" /\ c.type \in {"complete", "error"}
        /\ \A i \in DOMAIN result.commands : result.commands[i].type \in Parts
    <3>1. CASE Kind[t] = "upload"
      <4>1. result = HandleUpload(t, x, c, state)
        BY <3>1 DEF HandleCommand
      <4> QED
        BY <2>1, <3>1, <4>1, UploadAnswers
    <3>2. CASE Kind[t] = "clip"
      <4>1. result = HandleFrame(t, x, c, state)
        BY <3>2 DEF HandleCommand
      <4> QED
        BY <2>1, <3>2, <4>1, ClipAnswers
    <3> QED
      BY <1>7, <3>1, <3>2, TransfersAssumption
  <2> HIDE DEF y
  <2>3. Account(t, y, d)
    <3>1. CASE Kind[t] = "upload"
      <4>1. x.promise = "resolved" => d # {}
        BY <3>1 DEF Account, IsDone
      <4>2. y.promise = "resolved" => d # {}
        BY <1>4, <2>2, <4>1
      <4> QED
        BY <3>1, <4>2 DEF Account, IsDone
    <3>2. CASE Kind[t] = "clip"
      <4>1. y.promise = "resolved" => x.promise = "resolved"
        BY <2>2, <3>2
      <4> QED
        BY <2>2, <3>2, <4>1 DEF Account, IsDone
    <3> QED
      BY <1>7, <3>1, <3>2, TransfersAssumption
  <2>4. result.frameDone => 1 .. x.numFrames \subseteq d
    <3> SUFFICES ASSUME result.frameDone PROVE 1 .. x.numFrames \subseteq d
      OBVIOUS
    <3>1. Kind[t] = "clip" /\ c.type = "complete"
      BY <1>1, <2>2 DEF NoFailure
    <3>2. x.numFrames \in d /\ 1 .. (x.numFrames - 1) \subseteq d /\ x.numFrames \in Nat
      BY <1>2, <1>4, <3>1, TransfersAssumption DEF Course, Account
    <3> QED
      BY <3>2
  <2>5. \A i \in DOMAIN p2 : p2[i].type = "request" => \E j \in DOMAIN p : p2[i] = p[j]
    BY <1>6, <2>2 DEF Parts
  <2>6. \A i \in DOMAIN p2 : Is(p2[i], "request", id) => p2[i].frame = y.numFrames
    BY <2>2, <2>5 DEF Course, Is
  <2>7. Course(id, t, y, state2, Tail(w), p2, r, u, d)
    BY <1>2, <1>5, <1>7, <2>2, <2>6 DEF Course
  <2> QED
    BY <2>2, <2>3, <2>4, <2>5, <2>7 DEF y, Proceeds
<1>8. CASE Kind[t] = "download"
  <2>1. result = HandleDownload(t, x, c, state)
    BY <1>8 DEF HandleCommand
  <2>2. /\ y.numFrames = x.numFrames /\ ~result.frameDone
        /\ result.commands = <<>> \/ (c.type = "data" /\ result.commands = <<DataAck(c.id)>>)
        /\ y.moved = IF c.type = "data" THEN x.moved + 1 ELSE x.moved
        /\ y.promise = "resolved" => x.promise = "resolved" \/ c.type = "complete"
    BY <2>1, DownloadAnswers
  <2> HIDE DEF y
  <2>3. p2 = p \/ (c.type = "data" /\ p2 = p \o <<DataAck(id)>>)
    <3>1. p \o <<>> = p
      BY JoinThree, GivenSequences
    <3> QED
      BY <2>2, <3>1
  <2>4. Alternates(id, t, x, w, p, r, u)
    BY <1>8 DEF Course
  <2>5. Alternates(id, t, y, Tail(w), p2, r, u)
    BY <1>2, <2>2, <2>3, <2>4, AnsweredAlternates
  <2>6. Account(t, y, d)
    <3>1. c.type = "complete" => y.moved = Chunks[t]
      BY <1>1, <2>2, <2>4 DEF Alternates, Hears, Is
    <3>2. x.promise = "resolved" => c.type # "data"
      BY <1>1, <2>4 DEF Alternates, Hears, Is
    <3>3. x.promise = "resolved" => d # {} /\ x.moved = Chunks[t]
      BY <1>8 DEF Account, IsDone
    <3>4. y.promise = "resolved" => d # {} /\ y.moved = Chunks[t]
      BY <1>4, <2>2, <3>1, <3>2, <3>3
    <3> QED
      BY <1>8, <3>4 DEF Account, IsDone
  <2>7. \A i \in DOMAIN result.commands : result.commands[i].type # "request"
    <3>1. DataAck(id).type = "dataAck" /\ DOMAIN <<>> = {}
      BY DEF DataAck
    <3> QED
      BY <2>2, <3>1
  <2>8. \A i \in DOMAIN p2 : p2[i].type = "request" => \E j \in DOMAIN p : p2[i] = p[j]
    BY <1>6, <2>7
  <2>9. \A i \in DOMAIN p2 : Is(p2[i], "request", id) => p2[i].frame = y.numFrames
    BY <2>2, <2>8 DEF Course, Is
  <2>10. Course(id, t, y, state2, Tail(w), p2, r, u, d)
    BY <1>5, <1>8, <2>2, <2>5, <2>9 DEF Course
  <2> QED
    BY <2>2, <2>6, <2>8, <2>10 DEF y, Proceeds
<1> QED
  BY <1>7, <1>8

\* A handler begins with a command of the device.
LEMMA HandleTells ==
    ASSUME NEW q, NEW c, NEW s, NEW r, NEW u, NEW live, NEW stores, Tells(q, s, r, u, live, stores),
           Talks(q, s, r, u, live), IsQueue(q), Handlers(q), Typed(q), IsSequence(s),
           q.running = Idle, q.waiting # <<>>, Head(q.waiting) = Handle(c)
    PROVE  Tells(BeginHandle([q EXCEPT !.waiting = Tail(@)], c), s, r, u, live, stores)
<1> DEFINE a == [q EXCEPT !.waiting = Tail(@)]
           b == BeginHandle(a, c)
           t == q.active.of
           x == Active(q)
           result == HandleCommand(t, x, c, q.active.state)
           newState == IF result.frameDone THEN "Between" ELSE result.newState
           w == q.waiting
           id == q.active.id
           p == Way(q, s, live)
           d == stores[t]
<1>1. /\ DOMAIN q = {"tasks", "active", "isLocked", "urgent", "waiting", "running", "nextId",
                     "lockCommands", "fields"}
      /\ DOMAIN q.fields = Transfers /\ IsSequence(w)
  BY DEF IsQueue, Handlers
<1>2. /\ DOMAIN a = DOMAIN q /\ a.tasks = q.tasks /\ a.active = q.active /\ a.fields = q.fields
      /\ a.waiting = Tail(w) /\ a.lockCommands = q.lockCommands
  BY <1>1
<1>3. ~Waits(q) /\ ~Own(q) /\ Given(q) = <<>> /\ StateOf(q) = q.active.state
  BY DEF Waits, Own, Given, StateOf, Idle
<1>4. Quieter(Tail(w), r, w, r) /\ Sparser(id, Tail(w), p, r, w, p, r)
  BY <1>1, TakenIs
<1>5. CASE ~IsActive(q) \/ q.active.id # c.id \/ q.active.state = "Pending"
  <2>1. b = [a EXCEPT !.running = Returning]
    BY <1>2, <1>5 DEF BeginHandle, IsActive
  <2> HIDE DEF a
  <2>2. /\ b.active = q.active /\ b.fields = q.fields /\ b.waiting = Tail(w) /\ ~Waits(b)
        /\ b.running.wait # "nextFrame"
    BY <1>1, <1>2, <2>1 DEF Waits, Returning
  <2> HIDE DEF b
  <2>3. Given(b) = <<>> /\ StateOf(b) = StateOf(q)
    BY <1>3, <2>2, OthersGive
  <2>4. Way(b, s, live) = p
    BY <1>3, <2>2, <2>3 DEF Way, Unsent
  <2>5. \A e \in Transfers : Alike(b.fields[e], q.fields[e])
    BY <2>2 DEF Alike
  <2>6. /\ Quieter(b.waiting, r, w, r) /\ SameOrNone(u, u)
        /\ Within(Way(b, s, live), p) /\ Chained(p, u)
        /\ Sparser(id, b.waiting, Way(b, s, live), r, w, p, r)
    BY <1>4, <2>2, <2>4 DEF SameOrNone, Within, Talks
  <2>7. IsActive(b) => IsActive(q) /\ b.active.id = q.active.id /\ b.active.of = q.active.of
    BY <2>2 DEF IsActive
  <2>8. Tells(b, s, r, u, live, stores)
    BY <2>2, <2>3, <2>5, <2>6, <2>7, LessTells
  <2> QED
    BY <2>8 DEF b, a
<1>6. CASE IsActive(q) /\ id = c.id /\ q.active.state # "Pending"
  <2>1. t \in Transfers /\ IsTransfer(x) /\ x = q.fields[t] /\ x.moved \in Int
    BY <1>6 DEF IsQueue, IsActive, Active, Typed
  <2>2. b = [a EXCEPT !.fields[t] = result.fields,
                      !.running = IF result.frameDone THEN FrameAfter(a, result)
                                                      ELSE Storing(a, result)]
    BY <1>2, <1>6 DEF BeginHandle, IsActive, Active
  <2> HIDE DEF a, b, result, x
  <2>3. /\ b.active = q.active /\ b.waiting = Tail(w)
        /\ b.fields[t] = result.fields /\ \A e : e \in Transfers /\ e # t => b.fields[e] = q.fields[e]
        /\ b.running = IF result.frameDone THEN FrameAfter(a, result) ELSE Storing(a, result)
    BY <1>1, <1>2, <2>1, <2>2
  <2>4. /\ b.running.id = id
        /\ result.frameDone => /\ b.running.wait = "nextFrame" /\ b.running.of = t
                               /\ b.running.commands = result.commands
        /\ ~result.frameDone => b.running.wait = "store" /\ b.running.result = result
    BY <1>2, <2>3 DEF FrameAfter, Storing
  <2>5. 1 \in DOMAIN w /\ Head(w) = w[1]
    BY <1>1, RestAt
  <2>6. Holds(w, Handle(c)) /\ Heard(w, r, c)
    BY <2>5 DEF Holds, Heard
  <2>7. c.type \in Answers /\ Answer(c)
    <3>1. w[1].command = c
      BY <2>5 DEF Handle
    <3> QED
      BY <2>5, <2>6, <3>1 DEF Talks, Lined
  <2>8. Dialog(id, t, x.moved, q.active.state, w, p, r, u, live) /\ Chained(p, u) /\ IsSequence(p)
    <3>1. IsSequence(p)
      BY WayIs
    <3> QED
      BY <1>3, <1>6, <2>1, <3>1 DEF Talks, DialogOf
  <2>9. /\ Course(id, t, x, q.active.state, w, p, r, u, d) /\ Account(t, x, d)
        /\ NoFailure(w, r) /\ Asked(q.fields, p, u)
    BY <1>3, <1>6, <2>1 DEF Tells, CourseOf
  <2> HIDE DEF w, id, p, t, d
  <2> DEFINE p2 == IF live THEN p \o result.commands ELSE p
             state == q.active.state
  <2>10. IsSequence(w) /\ w # <<>> /\ Head(w) = Handle(c) /\ c.id = id
         /\ result = HandleCommand(t, x, c, state)
    BY <1>1, <1>6 DEF w, id, result
  <2>11. newState # "Pending"
    <3> HIDE DEF newState, state
    <3>1. Dialog(id, t, x.moved, state, w, p, r, u, live)
      BY <2>8 DEF state
    <3>2. IsTransfer(x) /\ t \in Transfers /\ IsSequence(p) /\ Chained(p, u)
          /\ c.type \in Answers /\ Answer(c)
      BY <2>1, <2>7, <2>8
    <3>3. Answered(HandleCommand(t, x, c, state), id, t, w, p, r, u, live)
      BY ONLY <2>10, <3>1, <3>2, AnswerDialog
    <3> QED
      BY <2>10, <3>3 DEF Answered, newState
  <2>12. IsSequence(result.commands)
    <3>1. Counted(c)
      BY <2>7 DEF Answer, Counted
    <3>2. Orders(result.commands)
      BY <2>1, <3>1, AnswerTyped DEF result
    <3> QED
      BY <3>2 DEF Orders
  <2>13. /\ Account(t, result.fields, d) /\ result.fields.numFrames = x.numFrames
         /\ Course(id, t, result.fields, newState, Tail(w), p2, r, u, d)
         /\ result.frameDone => 1 .. x.numFrames \subseteq d
         /\ \A i \in DOMAIN p2 : p2[i].type = "request" => \E j \in DOMAIN p : p2[i] = p[j]
    <3> HIDE DEF newState, state
    <3>1. Dialog(id, t, x.moved, state, w, p, r, u, live) /\ Course(id, t, x, state, w, p, r, u, d)
      BY <2>8, <2>9 DEF state
    <3>2. p2 = p \/ p2 = p \o result.commands
      OBVIOUS
    <3> HIDE DEF p2
    <3>3. Facing(id, t, x, state, w, p, r, u, d, c)
      BY <2>1, <2>7, <2>8, <2>9, <2>10, <3>1 DEF Facing
    <3>4. result = HandleCommand(t, x, c, state) /\ IsSequence(result.commands)
      BY <2>10, <2>12
    <3>5. Proceeds(result, id, t, x, newState, w, p, p2, r, u, d)
      BY ONLY <2>11, <3>2, <3>3, <3>4, AnswerCourse, SMTT(60)
    <3> QED
      BY <3>5 DEF Proceeds
  <2> HIDE DEF newState
  <2>14. IsActive(b) /\ Own(b) /\ Given(b) = result.commands /\ StateOf(b) = newState
    <3>1. IsActive(b)
      BY <1>6, <2>3 DEF IsActive
    <3>2. Own(b)
      BY <2>3, <2>4, <3>1 DEF Own, Waits, id
    <3> QED
      BY <2>4, <3>1, <3>2 DEF Given, StateOf, newState
  <2>15. Way(b, s, live) = p2
    <3>1. Way(b, s, live) = IF live THEN Way(q, s, live) \o Given(b) ELSE s
      <4>1. b.active.queuedCommands = q.active.queuedCommands /\ IsSequence(Given(b))
        BY <2>3, <2>12, <2>14
      <4> QED
        BY ONLY Typed(q), IsSequence(s), <1>3, <4>1, GivenWay, SMTT(30)
    <3>2. ~live => p = s
      BY DEF Way, p
    <3> QED
      BY <2>14, <3>1, <3>2 DEF p
  <2> HIDE DEF p2
  <2>16. \A e \in Transfers : /\ Account(e, b.fields[e], stores[e])
                              /\ b.fields[e].numFrames = q.fields[e].numFrames
    BY <2>1, <2>3, <2>13 DEF Tells, d
  <2>17. Asked(b.fields, p2, u)
    <3>1. SameOrNone(u, u)
      BY DEF SameOrNone
    <3>2. \A e \in Transfers : Kind[e] = "clip" =>
              1 .. q.fields[e].numFrames \subseteq 1 .. b.fields[e].numFrames
      BY <2>16
    <3> QED
      BY <2>8, <2>9, <2>13, <3>1, <3>2, AskedStays
  <2>18. CourseOf(b, p2, r, u, stores)
    <3>1. b.active.id = id /\ b.active.of = t
      BY <2>3 DEF id, t
    <3> QED
      BY <2>3, <2>13, <2>14, <3>1 DEF CourseOf, d
  <2>19. TakenStored(b, stores)
    BY <2>1, <2>3, <2>4, <2>13 DEF TakenStored, d
  <2>20. NoFailure(b.waiting, r)
    BY <1>4, <2>3, <2>9 DEF NoFailure, Quieter, w
  <2>21. Tells(b, s, r, u, live, stores)
    BY <2>15, <2>16, <2>17, <2>18, <2>19, <2>20 DEF Tells
  <2> QED
    BY <2>21 DEF b, a
<1> QED
  BY <1>5, <1>6

\* The next handler begins.
LEMMA RunNextTells ==
    ASSUME NEW q, NEW s, NEW r, NEW u, NEW live, NEW stores, Tells(q, s, r, u, live, stores),
           Talks(q, s, r, u, live), Formed(q), IsSequence(s),
           Free(q.nextId, q.waiting, Way(q, s, live), r, u),
           \A t \in Transfers : Kind[t] = "download" => Chunks[t] # 0
    PROVE  Tells(RunNext(q), s, r, u, live, stores)
<1> DEFINE a == [q EXCEPT !.urgent = Tail(@)]
           h == Head(q.urgent)
           d == Head(q.waiting)
<1>1. IsQueue(q) /\ Handlers(q) /\ Typed(q)
  BY DEF Formed
<1>2. DOMAIN q = {"tasks", "active", "isLocked", "urgent", "waiting", "running", "nextId",
                  "lockCommands", "fields"}
  BY <1>1 DEF IsQueue
<1>3. CASE q.running # Idle \/ (q.urgent = <<>> /\ q.waiting = <<>>)
  <2>1. RunNext(q) = q
    BY <1>3 DEF RunNext
  <2> QED
    BY <2>1
<1>4. CASE q.running = Idle /\ q.urgent # <<>>
  <2>1. RunNext(q) = Begin(a, h)
    BY <1>4 DEF RunNext
  <2>2. /\ IsSequence(q.urgent) /\ IsSequence(Tail(q.urgent))
        /\ \A x : Holds(q.urgent, x) <=> x = h \/ Holds(Tail(q.urgent), x)
    BY <1>1, <1>4, TailHolds DEF Handlers
  <2>3. /\ DOMAIN a = DOMAIN q /\ a.urgent = Tail(q.urgent) /\ a.tasks = q.tasks /\ a.active = q.active
        /\ a.fields = q.fields /\ a.waiting = q.waiting /\ a.running = Idle
        /\ a.lockCommands = q.lockCommands /\ a.nextId = q.nextId
    BY <1>2, <1>4
  <2> HIDE DEF a, h
  <2>4. IsQueue(a) /\ Handlers(a) /\ Typed(a)
    <3>1. IsQueue(a)
      BY <1>1, <2>3 DEF IsQueue
    <3>2. Handlers(a)
      BY <1>1, <2>2, <2>3 DEF Handlers, Idle
    <3>3. Typed(a)
      BY <1>1, <2>3 DEF Typed, Idle
    <3> QED
      BY <3>1, <3>2, <3>3
  <2>5. a.running = q.running
    BY <1>4, <2>3
  <2>6. Talks(a, s, r, u, live) /\ Way(a, s, live) = Way(q, s, live)
    <3>1. a.lockCommands \in {q.lockCommands, <<>>}
      BY <2>3
    <3> QED
      BY <2>3, <2>5, <3>1, SameTalks
  <2>7. Tells(a, s, r, u, live, stores)
    <3>1. StateOf(a) = StateOf(q)
      BY <2>3, <2>5 DEF StateOf, Own, Waits, IsActive
    <3> QED
      BY <1>1, <2>3, <2>5, <2>6, <3>1, SameTells
  <2>8. h = Start \/ \E id : h = AbortOf(id)
    BY <1>1, <2>2 DEF Handlers
  <2>9. CASE h = Start
    <3>1. Begin(a, h) = BeginStart(a)
      BY <2>9 DEF Begin, Start
    <3>2. Tells(BeginStart(a), s, r, u, live, stores)
      BY <2>3, <2>4, <2>6, <2>7, StartTells
    <3> QED
      BY <2>1, <3>1, <3>2
  <2>10. ASSUME NEW id, h = AbortOf(id) PROVE Tells(RunNext(q), s, r, u, live, stores)
    <3>1. Begin(a, h) = BeginAbort(a, id)
      BY <2>10 DEF Begin, AbortOf
    <3>2. Free(a.nextId, a.waiting, Way(a, s, live), r, u)
      BY <2>3, <2>6
    <3>3. Tells(BeginAbort(a, id), s, r, u, live, stores)
      BY <2>3, <2>4, <2>6, <2>7, <3>2, AbortTells
    <3> QED
      BY <2>1, <3>1, <3>3
  <2> QED
    BY <2>8, <2>9, <2>10
<1>5. CASE q.running = Idle /\ q.urgent = <<>> /\ q.waiting # <<>>
  <2> DEFINE b == [q EXCEPT !.waiting = Tail(@)]
  <2>1. RunNext(q) = Begin(b, d)
    BY <1>5 DEF RunNext
  <2>2. Holds(q.waiting, d)
    BY <1>1, <1>5, TailHolds DEF Handlers
  <2>3. PICK c : d = Handle(c)
    BY <1>1, <2>2 DEF Handlers
  <2>4. Begin(b, d) = BeginHandle(b, c)
    BY <2>3 DEF Begin, Handle
  <2>5. Tells(BeginHandle(b, c), s, r, u, live, stores)
    BY <1>1, <1>5, <2>3, HandleTells
  <2> QED
    BY <2>1, <2>4, <2>5
<1> QED
  BY <1>3, <1>4, <1>5

\* A result is stored.
LEMMA StoredTells ==
    ASSUME NEW q, NEW s, NEW r, NEW u, NEW live, NEW stores, Tells(q, s, r, u, live, stores),
           Talks(q, s, r, u, live), Good(q), Typed(q),
           IsSequence(s), q.running.wait = "store", q.lockCommands = <<>>
    PROVE  Tells(HandlerDone(Resumed(q)), s, r, u, live, stores)
<1> DEFINE a == Resumed(q)
           h == HandlerDone(a)
           id == q.running.id
           result == q.running.result
<1>1. /\ DOMAIN q = {"tasks", "active", "isLocked", "urgent", "waiting", "running", "nextId",
                     "lockCommands", "fields"}
      /\ DOMAIN q.active = {"id", "of", "state", "queuedCommands"} /\ IsQueue(q)
  BY DEF Good, Begun, IsQueue
<1>2. Rests(q, h) /\ Way(h, s, live) = Way(q, s, live)
  <2>1. q.running # Idle
    BY DEF Idle
  <2> QED
    BY <2>1, ResumedRests, StoredTalks
<1>3. a = StoreResult(q, id, result)
  BY DEF Resumed
<1>4. /\ DOMAIN a = DOMAIN q /\ a.fields = q.fields /\ a.active.of = q.active.of
      /\ a.active.id = q.active.id
  BY <1>1, <1>3, StoreEffect DEF SameHandlers
<1> HIDE DEF a
<1>5. h.fields = q.fields /\ h.active = a.active
  BY <1>1, <1>4 DEF HandlerDone
<1> HIDE DEF h
<1>6. /\ h.running = Idle /\ h.waiting = q.waiting
      /\ ~Own(q) => h.active = q.active
      /\ Own(q) => h.active.state = result.newState
  BY <1>2 DEF Rests
<1>7. ~Waits(h) /\ h.running.wait # "nextFrame"
  BY <1>6 DEF Waits, Idle
<1>8. StateOf(h) = StateOf(q)
  BY <1>6, <1>7, OthersGive DEF StateOf
<1> HIDE DEF result, id
<1>9. Tells(h, s, r, u, live, stores)
  BY <1>1, <1>2, <1>4, <1>5, <1>6, <1>7, <1>8, SameTells
<1> QED
  BY <1>9 DEF h, a

\* A clip has another frame, or what was counted of it is the same.
LEMMA FrameTells ==
    ASSUME NEW q, NEW s, NEW r, NEW u, NEW live, NEW stores, Tells(q, s, r, u, live, stores),
           Chained(Way(q, s, live), u), NEW h, NEW t \in Transfers,
           h.waiting = q.waiting, h.running = Idle,
           \A e \in Transfers : e # t => h.fields[e] = q.fields[e],
           Account(t, h.fields[t], stores[t]),
           1 .. q.fields[t].numFrames \subseteq 1 .. h.fields[t].numFrames,
           \A i \in DOMAIN Way(h, s, live) :
               \/ \E j \in DOMAIN Way(q, s, live) : Way(h, s, live)[i] = Way(q, s, live)[j]
               \/ Way(h, s, live)[i].type # "request"
               \/ Way(h, s, live)[i].of = t /\ Way(h, s, live)[i].frame \in 1 .. h.fields[t].numFrames,
           IsActive(h) => CourseOf(h, Way(h, s, live), r, u, stores)
    PROVE  Tells(h, s, r, u, live, stores)
<1> DEFINE p == Way(q, s, live)
           p2 == Way(h, s, live)
<1> HIDE DEF p, p2
<1>1. \A e \in Transfers : /\ Account(e, h.fields[e], stores[e])
                           /\ 1 .. q.fields[e].numFrames \subseteq 1 .. h.fields[e].numFrames
  BY DEF Tells
<1>2. Asked(h.fields, p2, u)
  <2>1. Asked(q.fields, p, u) /\ Chained(p, u) /\ SameOrNone(u, u)
    BY DEF Tells, p, SameOrNone
  <2>2. \A i \in DOMAIN p2 : p2[i].type = "request" /\ Kind[p2[i].of] = "clip" =>
            \/ \E j \in DOMAIN p : p2[i] = p[j]
            \/ p2[i].frame \in 1 .. h.fields[p2[i].of].numFrames
    BY DEF p, p2
  <2> QED
    BY <1>1, <2>1, <2>2, AskedStays
<1>3. TakenStored(h, stores) /\ NoFailure(h.waiting, r)
  BY DEF Tells, TakenStored, Idle
<1> QED
  BY <1>1, <1>2, <1>3 DEF Tells, p2

\* What p2 holds is from p or from l.
Adds(p2, p, l) ==
    \A i \in DOMAIN p2 : (\E j \in DOMAIN p : p2[i] = p[j]) \/ (\E j \in DOMAIN l : p2[i] = l[j])

\* What is on its way when a result is stored.
LEMMA StoredWay ==
    ASSUME NEW q, NEW h, NEW s, NEW live, NEW l, Typed(q), IsSequence(s), IsSequence(l),
           Given(q) = <<>>, Given(h) = <<>>,
           h.active.queuedCommands = q.active.queuedCommands \o l
    PROVE  Adds(Way(h, s, live), Way(q, s, live), l)
<1> DEFINE k == q.active.queuedCommands
           p == Way(q, s, live)
<1>1. IsSequence(k) /\ IsSequence(p)
  BY WayIs
<1>2. Unsent(q) = k
  BY <1>1, JoinThree DEF Unsent
<1>3. p = IF live THEN s \o k ELSE s
  BY <1>2 DEF Way
<1> HIDE DEF k, p
<1>4. IsSequence(k \o l) /\ (k \o l) \o <<>> = k \o l /\ s \o (k \o l) = (s \o k) \o l
  <2>1. IsSequence(k \o l)
    BY <1>1, JoinThree
  <2> QED
    BY <1>1, <2>1, JoinThree
<1>5. Unsent(h) = k \o l
  BY <1>4 DEF Unsent, k
<1>6. Way(h, s, live) = IF live THEN p \o l ELSE p
  BY <1>3, <1>4, <1>5 DEF Way
<1>7. Adds(p \o l, p, l)
  <2>1. \A i \in DOMAIN (p \o l) : \/ \E j \in DOMAIN p : (p \o l)[i] = p[j]
                                   \/ \E j \in DOMAIN l : (p \o l)[i] = l[j]
    BY ONLY IsSequence(l), <1>1, MoreIn
  <2> QED
    BY <2>1 DEF Adds
<1>8. Adds(p, p, l)
  BY DEF Adds
<1> QED
  BY <1>6, <1>7, <1>8 DEF p

\* What was counted of a clip, with its next frame and when there is none.
LEMMA TakenAccount ==
    ASSUME NEW t \in Transfers, NEW x, NEW d, IsTransfer(x), Kind[t] = "clip", Account(t, x, d)
    PROVE  /\ FramesLeft(t, x) => /\ Account(t, TakeFrame(x), d) /\ TakeFrame(x).moved = 0
                                  /\ TakeFrame(x).numFrames = x.numFrames + 1
           /\ ~FramesLeft(t, x) /\ 1 .. x.numFrames \subseteq d =>
                  Account(t, Settle(x, "resolved"), d)
           /\ Settle(x, "resolved").numFrames = x.numFrames
<1> DEFINE y == TakeFrame(x)
           z == Settle(x, "resolved")
<1>1. /\ y.numFrames = x.numFrames + 1 /\ y.moved = 0 /\ y.promise = x.promise
      /\ z.numFrames = x.numFrames
  BY DEF IsTransfer, TakeFrame, Settle
<1> HIDE DEF y, z
<1>2. /\ x.numFrames \in 0 .. Frames[t] /\ d \subseteq 1 .. x.numFrames /\ Frames[t] \in Nat
      /\ x.promise = "resolved" => x.numFrames = Frames[t]
  BY TransfersAssumption DEF Account
<1>3. ASSUME FramesLeft(t, x) PROVE Account(t, y, d)
  <2>1. x.numFrames < Frames[t]
    BY <1>3 DEF FramesLeft
  <2>2. y.numFrames \in 0 .. Frames[t] /\ d \subseteq 1 .. y.numFrames /\ y.promise # "resolved"
    BY <1>1, <1>2, <2>1
  <2> QED
    BY <2>2 DEF Account
<1>4. ASSUME ~FramesLeft(t, x), 1 .. x.numFrames \subseteq d PROVE Account(t, z, d)
  <2>1. x.numFrames = Frames[t]
    BY <1>2, <1>4 DEF FramesLeft
  <2>2. d = 1 .. Frames[t]
    BY <1>2, <1>4, <2>1
  <2>3. z.numFrames \in 0 .. Frames[t] /\ d \subseteq 1 .. z.numFrames /\ z.numFrames = Frames[t]
    BY <1>1, <1>2, <2>1
  <2> QED
    BY <2>2, <2>3 DEF Account, IsDone
<1> QED
  BY <1>1, <1>3, <1>4 DEF y, z

\* A clip begins with its first frame.
LEMMA FirstFrameTells ==
    ASSUME NEW q, NEW s, NEW r, NEW u, NEW live, NEW stores, Tells(q, s, r, u, live, stores),
           Talks(q, s, r, u, live), Good(q), Typed(q), IsSequence(s),
           q.running.wait = "firstFrame", q.lockCommands = <<>>
    PROVE  Tells(HandlerDone(Resumed(q)), s, r, u, live, stores)
<1> DEFINE a == Resumed(q)
           h == HandlerDone(a)
           id == q.running.id
           t == q.running.of
           x == q.fields[t]
           y == TakeFrame(x)
           result == StartClip(t, x, id)
           b == StoreFields(q, t, result)
           p == Way(q, s, live)
           p2 == Way(h, s, live)
           f == Request(t, id, y.numFrames)
<1>1. /\ DOMAIN q = {"tasks", "active", "isLocked", "urgent", "waiting", "running", "nextId",
                     "lockCommands", "fields"}
      /\ DOMAIN q.active = {"id", "of", "state", "queuedCommands"} /\ IsQueue(q)
      /\ DOMAIN q.fields = Transfers /\ t \in Transfers /\ IsTransfer(x) /\ Kind[t] = "clip"
  BY DEF Good, Begun, IsQueue, OwnFrame
<1>2. Rests(q, h)
  <2>1. q.running # Idle
    BY DEF Idle
  <2> QED
    BY <2>1, ResumedRests
<1>3. Given(q) = <<>> /\ StateOf(q) = q.active.state
  BY OthersGive
<1>4. /\ IsActive(q) /\ q.active.of = t => Own(q)
      /\ Own(q) => q.active.state = "Pending" /\ q.active.of = t /\ id = q.active.id /\ IsActive(q)
  BY DEF Talks, Lined, Good, Begun, OwnFrame, Own
<1>5. ~Waits(h) /\ ~Own(h) /\ Given(h) = <<>> /\ StateOf(h) = h.active.state
  BY <1>2, OthersGive DEF Rests, Waits, Own, Idle, Given
<1>6. h.running = Idle /\ h.waiting = q.waiting /\ (~Own(q) => h.active = q.active)
  BY <1>2 DEF Rests
<1>7. CASE NoFrames(q)
  <2>1. a = q
    BY <1>7 DEF Resumed
  <2>2. h.fields = q.fields /\ h.active = q.active
    BY <1>1, <2>1 DEF HandlerDone
  <2> HIDE DEF h, a, x, t, id
  <2>3. Way(h, s, live) = Way(q, s, live)
    BY <1>3, <1>5, <2>2 DEF Way, Unsent
  <2>4. h.running.wait # "nextFrame" /\ StateOf(h) = StateOf(q)
    BY <1>3, <1>5, <1>6, <2>2 DEF Idle
  <2>5. Tells(h, s, r, u, live, stores)
    BY <1>1, <1>6, <2>2, <2>3, <2>4, SameTells
  <2> QED
    BY <2>5 DEF h, a
<1>8. CASE ~NoFrames(q)
  <2>1. a = StoreResult(b, id, result)
    BY <1>8 DEF Resumed, ResumeStartClip
  <2>2. /\ result.newState = "Ready" /\ result.fields = y
        /\ result.commands = <<ClearClip>> \o <<f>>
    BY DEF StartClip, StartBuffer, Progress
  <2>3. FramesLeft(t, x)
    BY <1>8 DEF NoFrames
  <2> HIDE DEF result
  <2>4. DOMAIN b = DOMAIN q /\ b.active = q.active /\ b.fields = [q.fields EXCEPT ![t] = result.fields]
    BY <1>1 DEF StoreFields
  <2> HIDE DEF b
  <2>5. /\ DOMAIN a = DOMAIN q /\ a.fields = b.fields /\ a.active.of = q.active.of
        /\ a.active.id = q.active.id
        /\ a.active.state = IF IsActive(b) /\ b.active.id = id THEN result.newState
                                                               ELSE b.active.state
    BY <1>1, <2>1, <2>4, StoreEffect DEF SameHandlers
  <2>6. a.active.queuedCommands = IF IsActive(b) /\ b.active.id = id
                                  THEN b.active.queuedCommands \o result.commands
                                  ELSE b.active.queuedCommands
    BY <1>1, <2>1, <2>4, StoreSends
  <2> HIDE DEF a
  <2>7. h.fields = [q.fields EXCEPT ![t] = y] /\ h.active = a.active
    BY <1>1, <2>2, <2>4, <2>5 DEF HandlerDone
  <2>8. h.fields[t] = y /\ \A e \in Transfers : e # t => h.fields[e] = q.fields[e]
    BY <1>1, <2>7
  <2>9. Chained(p, u) /\ Account(t, x, stores[t])
    BY <1>1 DEF Talks, Tells
  <2>10. Account(t, y, stores[t]) /\ y.moved = 0 /\ y.numFrames = x.numFrames + 1
    BY <1>1, <2>3, <2>9, TakenAccount
  <2>11. x.numFrames \in Nat /\ 1 .. x.numFrames \subseteq 1 .. y.numFrames
         /\ y.numFrames \in 1 .. y.numFrames
    <3>1. x.numFrames \in 0 .. Frames[t] /\ Frames[t] \in Nat
      BY <1>1, <2>9, TransfersAssumption DEF Account
    <3> QED
      BY <2>10, <3>1
  <2> HIDE DEF h
  <2>12. CASE ~Own(q)
    <3>1. Way(h, s, live) = Way(q, s, live)
      BY <1>3, <1>5, <1>6, <2>12 DEF Way, Unsent
    <3>2. IsActive(h) => CourseOf(h, p, r, u, stores)
      <4>1. IsActive(h) => IsActive(q) /\ q.active.of # t /\ q.active.of \in Transfers
        BY <1>1, <1>4, <1>6, <2>12 DEF IsActive, IsQueue
      <4>2. StateOf(h) = StateOf(q)
        BY <1>3, <1>5, <1>6, <2>12
      <4> QED
        BY <1>6, <2>8, <2>12, <4>1, <4>2 DEF Tells, CourseOf
    <3>3. Tells(h, s, r, u, live, stores)
      <4> HIDE DEF t, y, x
      <4>1. t \in Transfers /\ Account(t, h.fields[t], stores[t])
            /\ 1 .. q.fields[t].numFrames \subseteq 1 .. h.fields[t].numFrames
        BY <1>1, <2>8, <2>10, <2>11 DEF x
      <4> QED
        BY <1>6, <2>8, <2>9, <3>1, <3>2, <4>1, FrameTells
    <3> QED
      BY <3>3 DEF h, a
  <2>13. CASE Own(q)
    <3>1. IsActive(b) /\ b.active.id = id /\ IsSequence(<<ClearClip>> \o <<f>>)
      <4>1. IsSequence(<<ClearClip>>) /\ IsSequence(<<f>>)
        BY ONLY GivenSequences
      <4>2. IsSequence(<<ClearClip>> \o <<f>>)
        BY ONLY <4>1, JoinThree
      <4> QED
        BY <1>4, <2>4, <2>13, <4>2 DEF IsActive
    <3>2. /\ h.active.state = "Ready" /\ h.active.id = id /\ h.active.of = t
          /\ h.active.queuedCommands = q.active.queuedCommands \o (<<ClearClip>> \o <<f>>)
      BY <1>4, <2>2, <2>4, <2>5, <2>6, <2>7, <2>13, <3>1
    <3>3. \A i \in DOMAIN p2 : \/ \E j \in DOMAIN p : p2[i] = p[j]
                               \/ p2[i] = ClearClip \/ p2[i] = f
      <4> DEFINE l == <<ClearClip>> \o <<f>>
      <4>1. \A i \in DOMAIN l : l[i] = ClearClip \/ l[i] = f
        OBVIOUS
      <4> HIDE DEF l
      <4>2. IsSequence(l) /\ h.active.queuedCommands = q.active.queuedCommands \o l
        BY <3>1, <3>2 DEF l
      <4>3. Adds(p2, p, l)
        BY ONLY Typed(q), IsSequence(s), <1>3, <1>5, <4>2, StoredWay
      <4> QED
        BY <4>1, <4>3 DEF Adds
    <3>4. /\ f.type = "request" /\ f.of = t /\ f.frame = y.numFrames
          /\ ClearClip.type = "clearClip"
      BY DEF Request, ClearClip
    <3> HIDE DEF p, p2, f
    <3>5. CourseOf(h, p2, r, u, stores)
      <4> DEFINE w == q.waiting
                 d == stores[t]
      <4>1. Free(id, w, p, r, u) /\ x.numFrames = 0
        BY <1>1, <1>3, <1>4, <2>13 DEF Talks, DialogOf, Dialog, Tells, CourseOf, Course, p
      <4>2. \A l : Holds(w, l) => \E c : l = Handle(c)
        BY DEF Good, Begun, Handlers
      <4>3. \A i \in DOMAIN p2 :
               \/ \E j \in DOMAIN p : p2[i] = p[j]
               \/ p2[i].type # "dataAck" /\ (Is(p2[i], "request", id) => p2[i].frame = y.numFrames)
        BY <3>3, <3>4 DEF Is
      <4>4. 1 .. (y.numFrames - 1) \subseteq d
        BY <2>10, <4>1
      <4> HIDE DEF id, w, d, y, t, x
      <4>5. Course(id, t, y, "Ready", w, p2, r, u, d)
        BY <1>1, <4>1, <4>2, <4>3, <4>4, FreshCourse
      <4> QED
        BY <1>5, <1>6, <2>8, <3>2, <4>5 DEF CourseOf, w, d
    <3>6. \A i \in DOMAIN p2 : \/ \E j \in DOMAIN p : p2[i] = p[j]
                               \/ p2[i].type # "request"
                               \/ p2[i].of = t /\ p2[i].frame \in 1 .. y.numFrames
      <4> HIDE DEF y, t
      <4> QED
        BY ONLY <2>11, <3>3, <3>4
    <3>7. Tells(h, s, r, u, live, stores)
      <4> HIDE DEF t, y, x
      <4>1. t \in Transfers /\ Account(t, h.fields[t], stores[t])
            /\ 1 .. q.fields[t].numFrames \subseteq 1 .. h.fields[t].numFrames
        BY <1>1, <2>8, <2>10, <2>11 DEF x
      <4> QED
        BY <1>6, <2>8, <2>9, <3>5, <3>6, <4>1, FrameTells DEF p, p2
    <3> QED
      BY <3>7 DEF h, a
  <2> QED
    BY <2>12, <2>13
<1> QED
  BY <1>7, <1>8

\* A clip goes on with its next frame, or is over.
LEMMA NextFrameTells ==
    ASSUME NEW q, NEW s, NEW r, NEW u, NEW live, NEW stores, Tells(q, s, r, u, live, stores),
           Talks(q, s, r, u, live), Good(q), Typed(q), IsSequence(s),
           q.running.wait = "nextFrame", q.lockCommands = <<>>,
           Free(q.nextId, q.waiting, Way(q, s, live), r, u)
    PROVE  Tells(HandlerDone(Resumed(q)), s, r, u, live, stores)
<1> DEFINE a == ResumeNextFrame(q)
           h == HandlerDone(a)
           t == q.running.of
           x == q.fields[t]
           result == IF FramesLeft(t, x) THEN NextFrame(t, x, q.nextId) ELSE LastFrameDone(x)
           y == result.fields
           l == result.commands
           f == Request(t, q.nextId, x.numFrames + 1)
           p == Way(q, s, live)
           p2 == Way(h, s, live)
           w == q.waiting
           d == stores[t]
<1>1. /\ DOMAIN q = {"tasks", "active", "isLocked", "urgent", "waiting", "running", "nextId",
                     "lockCommands", "fields"}
      /\ DOMAIN q.fields = Transfers /\ t \in Transfers /\ IsTransfer(x) /\ Kind[t] = "clip"
      /\ \A e : Holds(w, e) => \E c : e = Handle(c)
  BY DEF Good, Begun, IsQueue, OwnFrame, Handlers
<1>2. HandlerDone(Resumed(q)) = h
  BY DEF Resumed
<1>3. /\ IsActive(q) /\ q.active.of = t => Own(q)
      /\ q.running.commands = <<>>
      /\ Own(q) => q.active.of = t /\ IsActive(q)
  BY DEF Talks, Lined, Good, Begun, OwnFrame, Own
<1>4. /\ SameHandlers(q, a) /\ a.active.of = q.active.of /\ (~Own(q) => a.active = q.active)
      /\ a.fields = [q.fields EXCEPT ![t] = y]
      /\ a.active.queuedCommands = IF Own(q) THEN q.active.queuedCommands
                                                     \o (q.running.commands \o l)
                                             ELSE q.active.queuedCommands
  BY NextFrameStays
<1>5. Own(q) => /\ a.active.id = IF FramesLeft(t, x) THEN q.nextId ELSE q.active.id
                /\ a.active.state = IF FramesLeft(t, x) THEN "Ready" ELSE "Finished"
  BY NextFrameGives
<1>6. Chained(p, u) /\ Account(t, x, d) /\ 1 .. x.numFrames \subseteq d
  BY <1>1 DEF Talks, Tells, TakenStored
<1>7. FramesLeft(t, x) => y = TakeFrame(x) /\ y.numFrames = x.numFrames + 1 /\ l = <<f>>
  <2>1. TakeFrame(x).numFrames = x.numFrames + 1
    BY <1>1 DEF TakeFrame, IsTransfer
  <2> QED
    BY <2>1 DEF NextFrame, StartBuffer, Progress
<1>8. ~FramesLeft(t, x) => y = Settle(x, "resolved") /\ y.numFrames = x.numFrames /\ l = <<SetClip(x.numFrames)>>
  <2>1. Settle(x, "resolved").numFrames = x.numFrames
    BY <1>1 DEF Settle, IsTransfer
  <2> QED
    BY <2>1 DEF LastFrameDone, Progress
<1> HIDE DEF a, result
<1>9. /\ h.running = Idle /\ h.waiting = w /\ h.active = a.active /\ h.fields = a.fields
  BY <1>1, <1>4 DEF HandlerDone, SameHandlers
<1>10. h.fields[t] = y /\ \A e \in Transfers : e # t => h.fields[e] = q.fields[e]
  BY <1>1, <1>4, <1>9
<1> HIDE DEF h
<1>11. ~Waits(h) /\ ~Own(h) /\ Given(h) = <<>> /\ StateOf(h) = h.active.state
  BY <1>9 DEF Waits, Own, Idle, Given, StateOf
<1>12. Given(q) = <<>> /\ (~Own(q) => StateOf(q) = q.active.state) /\ (Own(q) => StateOf(q) = "Between")
  BY <1>3 DEF Given, StateOf
<1> HIDE DEF y, l
<1>13. Account(t, y, d) /\ x.numFrames \in Nat /\ 1 .. x.numFrames \subseteq 1 .. y.numFrames
       /\ y.numFrames \in {x.numFrames, x.numFrames + 1}
  <2>1. Account(t, y, d)
    BY <1>1, <1>6, <1>7, <1>8, TakenAccount
  <2>2. x.numFrames \in 0 .. Frames[t] /\ Frames[t] \in Nat
    BY <1>1, <1>6, TransfersAssumption DEF Account
  <2>3. y.numFrames = x.numFrames \/ y.numFrames = x.numFrames + 1
    BY <1>7, <1>8
  <2> QED
    BY <2>1, <2>2, <2>3
<1>14. ASSUME IsActive(h) => CourseOf(h, p2, r, u, stores),
              \A i \in DOMAIN p2 : \/ \E j \in DOMAIN p : p2[i] = p[j]
                                   \/ p2[i].type # "request"
                                   \/ p2[i].of = t /\ p2[i].frame \in 1 .. y.numFrames
       PROVE  Tells(h, s, r, u, live, stores)
  <2> HIDE DEF t, x
  <2>1. t \in Transfers /\ Account(t, h.fields[t], stores[t])
        /\ 1 .. q.fields[t].numFrames \subseteq 1 .. h.fields[t].numFrames
    BY <1>1, <1>10, <1>13 DEF x
  <2>2. \A i \in DOMAIN p2 : \/ \E j \in DOMAIN p : p2[i] = p[j]
                             \/ p2[i].type # "request"
                             \/ p2[i].of = t /\ p2[i].frame \in 1 .. h.fields[t].numFrames
    BY <1>10, <1>14
  <2> QED
    BY <1>6, <1>9, <1>10, <1>14, <2>1, <2>2, FrameTells
<1>15. CASE ~Own(q)
  <2>1. h.active = q.active
    BY <1>4, <1>9, <1>15
  <2>2. p2 = p
    BY <1>11, <1>12, <2>1 DEF Way, Unsent
  <2>3. IsActive(h) => CourseOf(h, p2, r, u, stores)
    <3>1. IsActive(h) => IsActive(q) /\ q.active.of # t /\ q.active.of \in Transfers
      BY <1>3, <1>15, <2>1 DEF IsActive, Good, Begun, IsQueue
    <3>2. StateOf(h) = StateOf(q)
      BY <1>11, <1>12, <1>15, <2>1
    <3> QED
      BY <1>9, <1>10, <2>1, <2>2, <3>1, <3>2 DEF Tells, CourseOf
  <2>4. \A i \in DOMAIN p2 : \E j \in DOMAIN p : p2[i] = p[j]
    BY <2>2
  <2> HIDE DEF p, p2, t, y
  <2>5. Tells(h, s, r, u, live, stores)
    BY ONLY <1>14, <2>3, <2>4
  <2> QED
    BY <1>2, <2>5
<1>16. CASE Own(q)
  <2>1. h.active.of = t /\ h.active.of = q.active.of /\ IsActive(q)
    BY <1>3, <1>4, <1>9, <1>16
  <2>2. ASSUME IsSequence(l) PROVE Adds(p2, p, l)
    <3>1. h.active.queuedCommands = q.active.queuedCommands \o l
      BY <1>3, <1>4, <1>9, <1>16, <2>2, JoinThree
    <3> QED
      BY ONLY Typed(q), IsSequence(s), <1>11, <1>12, <2>2, <3>1, StoredWay
  <2>3. Course(q.active.id, t, x, "Between", w, p, r, u, d)
    BY <1>3, <1>12, <1>16 DEF Tells, CourseOf
  <2> HIDE DEF p, p2, f
  <2>4. CASE FramesLeft(t, x)
    <3> DEFINE id == q.nextId
    <3>1. IsSequence(<<f>>)
      BY ONLY GivenSequences
    <3>2. \A i \in DOMAIN p2 : (\E j \in DOMAIN p : p2[i] = p[j]) \/ p2[i] = f
      BY <1>7, <2>2, <2>4, <3>1 DEF Adds
    <3>3. f.type = "request" /\ f.of = t /\ f.frame = y.numFrames
      BY <1>7, <2>4 DEF Request, f
    <3>4. h.active.id = id /\ h.active.state = "Ready"
      BY <1>5, <1>9, <1>16, <2>4
    <3>5. Free(id, w, p, r, u)
      BY DEF p
    <3>6. \A i \in DOMAIN p2 :
             \/ \E j \in DOMAIN p : p2[i] = p[j]
             \/ p2[i].type # "dataAck" /\ (Is(p2[i], "request", id) => p2[i].frame = y.numFrames)
      BY <3>2, <3>3
    <3>7. 1 .. (y.numFrames - 1) \subseteq d
      BY <1>6, <1>7, <1>13, <2>4
    <3>8. Course(id, t, y, "Ready", w, p2, r, u, d)
      <4> HIDE DEF id, w, d, t, x
      <4> QED
        BY <1>1, <3>5, <3>6, <3>7, FreshCourse
    <3>9. CourseOf(h, p2, r, u, stores)
      BY <1>9, <1>10, <1>11, <2>1, <3>4, <3>8 DEF CourseOf
    <3>10. \A i \in DOMAIN p2 : \/ \E j \in DOMAIN p : p2[i] = p[j]
                                \/ p2[i].type # "request"
                                \/ p2[i].of = t /\ p2[i].frame \in 1 .. y.numFrames
      <4> HIDE DEF x
      <4>1. y.numFrames \in 1 .. y.numFrames
        <5>1. y.numFrames = x.numFrames + 1 /\ x.numFrames \in Nat
          BY <1>7, <1>13, <2>4
        <5> QED
          BY ONLY <5>1
      <4> QED
        BY ONLY <3>2, <3>3, <4>1
    <3>11. Tells(h, s, r, u, live, stores)
      <4> HIDE DEF t, y
      <4> QED
        BY ONLY <1>14, <3>9, <3>10
    <3> QED
      BY <1>2, <3>11
  <2>5. CASE ~FramesLeft(t, x)
    <3> DEFINE g == SetClip(x.numFrames)
    <3>1. IsSequence(<<g>>)
      BY ONLY GivenSequences
    <3>2. \A i \in DOMAIN p2 : (\E j \in DOMAIN p : p2[i] = p[j]) \/ p2[i] = g
      BY <1>8, <2>2, <2>5, <3>1 DEF Adds
    <3>3. g.type = "setClip"
      BY DEF SetClip
    <3> HIDE DEF g
    <3>4. h.active.id = q.active.id /\ h.active.state = "Finished" /\ y.numFrames = x.numFrames
      BY <1>5, <1>8, <1>9, <1>16, <2>5
    <3>5. Course(q.active.id, t, y, "Finished", w, p2, r, u, d)
      BY <1>1, <2>3, <3>2, <3>3, <3>4 DEF Course, Is
    <3>6. CourseOf(h, p2, r, u, stores)
      BY <1>9, <1>10, <1>11, <2>1, <3>4, <3>5 DEF CourseOf
    <3>7. \A i \in DOMAIN p2 : (\E j \in DOMAIN p : p2[i] = p[j]) \/ p2[i].type # "request"
      BY <3>2, <3>3
    <3>8. Tells(h, s, r, u, live, stores)
      <4> HIDE DEF t, y
      <4> QED
        BY ONLY <1>14, <3>6, <3>7
    <3> QED
      BY <1>2, <3>8
  <2> QED
    BY <2>4, <2>5
<1> QED
  BY <1>15, <1>16

\* The source of a clip throws.
LEMMA ThrownTells ==
    ASSUME NEW q, NEW s, NEW r, NEW u, NEW live, NEW stores, Tells(q, s, r, u, live, stores),
           Talks(q, s, r, u, live), Good(q), Typed(q), IsSequence(s), q.running.wait # "store",
           q.lockCommands = <<>>
    PROVE  Tells(HandlerDone(q), s, r, u, live, stores)
<1> DEFINE h == HandlerDone(q)
<1>1. DOMAIN q = {"tasks", "active", "isLocked", "urgent", "waiting", "running", "nextId",
                  "lockCommands", "fields"} /\ IsQueue(q)
  BY DEF Good, Begun, IsQueue
<1>2. h.running = Idle /\ h.waiting = q.waiting /\ h.active = q.active /\ h.fields = q.fields
  BY <1>1 DEF HandlerDone
<1>3. Way(h, s, live) = Way(q, s, live)
  BY ThrownTalks
<1> HIDE DEF h
<1>4. StateOf(h) = q.active.state /\ h.running.wait # "nextFrame"
  BY <1>2 DEF Waits, Own, Idle, StateOf
<1>5. StateOf(h) = "Pending" <=> StateOf(q) = "Pending"
  <2>1. CASE Own(q) /\ q.running.wait = "nextFrame"
    BY <1>4, <2>1 DEF StateOf, Talks, Lined
  <2>2. CASE ~(Own(q) /\ q.running.wait = "nextFrame")
    BY <1>4, <2>2 DEF StateOf
  <2> QED
    BY <2>1, <2>2
<1>6. Tells(h, s, r, u, live, stores)
  BY <1>1, <1>2, <1>3, <1>4, <1>5, SameTells
<1> QED
  BY <1>6 DEF h

\* The running handler goes on and ends.
LEMMA ResumedTells ==
    ASSUME NEW q, NEW h, NEW s, NEW r, NEW u, NEW live, NEW stores, Tells(q, s, r, u, live, stores),
           Talks(q, s, r, u, live), Good(q), Typed(q),
           IsSequence(s), q.running # Idle, q.lockCommands = <<>>,
           Free(q.nextId, q.waiting, Way(q, s, live), r, u),
           \/ h = HandlerDone(Resumed(q))
           \/ SourceThrows(q) /\ h = HandlerDone(q)
    PROVE  Tells(h, s, r, u, live, stores)
<1>1. q.running.wait \in {"return", "store", "firstFrame", "nextFrame"}
  BY DEF Good, Begun, Handlers
<1>2. CASE h = HandlerDone(q) /\ q.running.wait # "store"
  BY <1>2, ThrownTells
<1>3. CASE h = HandlerDone(Resumed(q)) /\ q.running.wait = "store"
  BY <1>3, StoredTells
<1>4. CASE h = HandlerDone(Resumed(q)) /\ q.running.wait = "firstFrame"
  BY <1>4, FirstFrameTells
<1>5. CASE h = HandlerDone(Resumed(q)) /\ q.running.wait = "nextFrame"
  BY <1>5, NextFrameTells
<1>6. CASE h = HandlerDone(Resumed(q)) /\ q.running.wait = "return"
  <2>1. h = HandlerDone(q)
    BY <1>6 DEF Resumed
  <2> QED
    BY <1>2, <1>6, <2>1
<1> QED
  BY <1>1, <1>2, <1>3, <1>4, <1>5, <1>6 DEF SourceThrows

-----------------------------------------------------------------------------
(* What is told of the transfers, as the event loop goes on *)

\* No download is empty.
Sized == \A t \in Transfers : Kind[t] = "download" => Chunks[t] # 0

\* A new event begins.
LEMMA FreshTells ==
    ASSUME NEW s, NEW r, NEW u, NEW live, NEW stores, Spoken(s, r, u, live),
           Tells(queue, s, r, u, live, stores)
    PROVE  Tells(Fresh, s, r, u, live, stores)
<1> DEFINE q == Fresh
<1>1. Opens(q, s, r, u, live)
  BY FreshTalks
<1> HIDE DEF q
<1>2. Talks(queue, s, r, u, live) /\ IsQueue(queue)
  BY DEF Spoken, InOrder, Good, Begun
<1>3. /\ q.fields = queue.fields /\ q.waiting = queue.waiting /\ q.active = queue.active
      /\ q.running = queue.running /\ Way(q, s, live) = Way(queue, s, live)
  BY <1>1 DEF Opens, SameTransfers
<1>4. StateOf(q) = StateOf(queue)
  BY <1>3 DEF StateOf, Own, Waits, IsActive
<1>5. Tells(q, s, r, u, live, stores)
  BY <1>2, <1>3, <1>4, SameTells
<1> QED
  BY <1>5 DEF q

\* The turn of the next handler.
LEMMA TurnTells ==
    ASSUME NEW q, NEW s, NEW r, NEW u, NEW live, NEW stores, Sized,
           Tells(q, s, r, u, live, stores), Talks(q, s, r, u, live), Formed(q), IsSequence(s),
           Free(q.nextId, q.waiting, Way(q, s, live), r, u)
    PROVE  Tells(RunNext(q), s, r, u, live, stores)
BY RunNextTells DEF Sized

\* A handler goes on.
LEMMA ResumeTells ==
    ASSUME NEW s, NEW r, NEW u, NEW live, NEW stores, Spoken(s, r, u, live), Sized,
           Tells(queue, s, r, u, live, stores), Resume
    PROVE  Tells(queue', s, r, u, live, stores)
<1> DEFINE q == Fresh
<1>1. Opens(q, s, r, u, live) /\ Tells(q, s, r, u, live, stores)
  BY FreshTalks, FreshTells
<1>2. \/ queue' = RunNext(HandlerDone(Resumed(q)))
      \/ queue' = RunNext(HandlerDone(q)) /\ SourceThrows(queue)
  BY DEF Resume
<1>3. queue.running # Idle
  BY DEF Resume
<1> HIDE DEF q
<1>4. q.running # Idle /\ (SourceThrows(queue) <=> SourceThrows(q)) /\ Good(q) /\ Typed(q)
  BY <1>1, <1>3 DEF Opens, SourceThrows, InOrder, Formed
<1>5. ASSUME NEW h, h = HandlerDone(Resumed(q)) \/ (SourceThrows(q) /\ h = HandlerDone(q))
      PROVE  /\ Talks(h, s, r, u, live) /\ Free(h.nextId, h.waiting, Way(h, s, live), r, u)
             /\ Tells(h, s, r, u, live, stores)
  <2>1. Talks(h, s, r, u, live) /\ Free(h.nextId, h.waiting, Way(h, s, live), r, u)
    BY <1>1, <1>4, <1>5, ResumedTalks DEF Opens
  <2>2. Free(q.nextId, q.waiting, Way(q, s, live), r, u)
    BY <1>1 DEF Opens
  <2>3. Tells(h, s, r, u, live, stores)
    BY <1>1, <1>4, <1>5, <2>2, ResumedTells DEF Opens
  <2> QED
    BY <2>1, <2>3
<1>6. ASSUME NEW h, h = HandlerDone(Resumed(q)) \/ (SourceThrows(q) /\ h = HandlerDone(q)),
             queue' = RunNext(h), Formed(h)
      PROVE  Tells(queue', s, r, u, live, stores)
  <2>1. /\ Talks(h, s, r, u, live) /\ Free(h.nextId, h.waiting, Way(h, s, live), r, u)
        /\ Tells(h, s, r, u, live, stores) /\ IsSequence(s)
    BY <1>1, <1>5, <1>6 DEF Opens
  <2> QED
    BY <1>6, <2>1, TurnTells
<1>7. CASE queue' = RunNext(HandlerDone(Resumed(q)))
  <2> DEFINE h == HandlerDone(Resumed(q))
  <2>1. Good(h) /\ Typed(h)
    BY <1>4, ResumedGood, ResumedTyped
  <2>2. queue' = RunNext(h) /\ Formed(h)
    BY <1>7, <2>1 DEF Formed, Good, Begun
  <2> QED
    BY <1>6, <2>2
<1>8. CASE queue' = RunNext(HandlerDone(q)) /\ SourceThrows(queue)
  <2> DEFINE h == HandlerDone(q)
  <2>1. SameTransfers(q, h) /\ h.running = Idle
    BY <1>1 DEF HandlerDone, SameTransfers, Formed, IsQueue, Opens
  <2>2. Formed(h)
    <3> HIDE DEF h
    <3> QED
      BY <1>1, <2>1 DEF Formed, SameTransfers, IsQueue, Handlers, Typed, Idle, Opens
  <2> QED
    BY <1>4, <1>6, <1>8, <2>2
<1> QED
  BY <1>2, <1>7, <1>8

\* A transfer is enqueued.
LEMMA EnqueueTells ==
    ASSUME NEW s, NEW r, NEW u, NEW live, NEW stores, Spoken(s, r, u, live), Sized,
           Tells(queue, s, r, u, live, stores), NEW t \in Transfers, Unused(t), Enqueue(t)
    PROVE  Tells(queue', s, r, u, live, stores)
<1> DEFINE q == Fresh
           a == [q EXCEPT !.tasks = Append(@, t)]
           b == DequeueAndRun(a)
<1>1. Opens(q, s, r, u, live) /\ Tells(q, s, r, u, live, stores)
  BY FreshTalks, FreshTells
<1>2. queue' = RunNext(b)
  BY DEF Enqueue
<1> HIDE DEF q
<1>3. /\ DOMAIN a = DOMAIN q /\ a.tasks = Append(q.tasks, t) /\ a.active = q.active
      /\ a.fields = q.fields /\ a.urgent = q.urgent /\ a.waiting = q.waiting
      /\ a.running = q.running /\ a.isLocked = q.isLocked /\ a.nextId = q.nextId
      /\ a.lockCommands = q.lockCommands
  BY <1>1 DEF Opens, Formed, IsQueue
<1> HIDE DEF a
<1>4. a.tasks \in Seq(Transfers)
  BY <1>1, <1>3 DEF Opens, Formed, IsQueue
<1>5. Formed(a) /\ IdIsFree(a)
  BY <1>1, <1>3, <1>4 DEF Opens, Formed, IsQueue, Handlers, Typed, IdIsFree, Waits, SameTransfers
<1>6. t # q.active.of /\ q.fields[t] = NewTransfer /\ ~Holds(q.tasks, t)
  BY <1>1 DEF Opens, SameTransfers, Unused, Holds
<1>7. Talks(a, s, r, u, live) /\ Way(a, s, live) = Way(q, s, live)
  <2>1. IsSequence(q.tasks) /\ OwnFrame(q) /\ Talks(q, s, r, u, live)
    BY <1>1 DEF Opens, Formed, IsQueue, IsSequence, InOrder, Good, Begun
  <2> QED
    BY <1>3, <1>6, <2>1, LinedUp
<1>8. /\ Free(a.nextId, a.waiting, Way(a, s, live), r, u)
      /\ Free(After(a.nextId), a.waiting, Way(a, s, live), r, u)
  BY <1>1, <1>3, <1>7 DEF Opens
<1>9. IsQueue(a) /\ Handlers(a) /\ IsSequence(s)
  BY <1>1, <1>5 DEF Formed, Opens
<1>10. Talks(b, s, r, u, live)
  BY <1>5, <1>7, <1>8, <1>9, DequeueTalks
<1>11. Formed(b) /\ Free(b.nextId, b.waiting, Way(b, s, live), r, u)
  <2>1. CASE IsActive(a) \/ a.tasks = <<>>
    BY <1>5, <1>7, <1>8, <1>9, <2>1, DequeueWay
  <2>2. CASE ~IsActive(a) /\ a.tasks # <<>>
    BY <1>5, <1>7, <1>8, <1>9, <2>2, DequeueWay
  <2> QED
    BY <2>1, <2>2
<1>12. Tells(a, s, r, u, live, stores)
  <2>1. StateOf(a) = StateOf(q)
    BY <1>3 DEF StateOf, Own, Waits, IsActive
  <2>2. Talks(q, s, r, u, live) /\ IsQueue(q)
    BY <1>1 DEF Opens, Formed
  <2> QED
    BY <1>1, <1>3, <1>7, <2>1, <2>2, SameTells
<1>13. Tells(b, s, r, u, live, stores)
  BY <1>5, <1>7, <1>8, <1>9, <1>12, DequeueTells
<1> HIDE DEF b
<1> QED
  BY <1>2, <1>9, <1>10, <1>11, <1>13, TurnTells

\* What it says of the transfers.
LEMMA EndedTells ==
    ASSUME NEW q, NEW s, NEW r, NEW u, NEW live, NEW stores, Opens(q, s, r, u, live), Sized,
           Tells(q, s, r, u, live, stores)
    PROVE  Tells(RunNext(EndActive(q)), s, r, u, live, stores)
<1>1. /\ Talks(q, s, r, u, live) /\ IsQueue(q) /\ Handlers(q) /\ Typed(q) /\ IsSequence(s)
      /\ IdIsFree(q) /\ Free(q.nextId, q.waiting, Way(q, s, live), r, u)
  BY DEF Opens, Formed
<1> DEFINE b == EndActive(q)
<1>2. Tells(b, s, r, u, live, stores)
  BY <1>1, EndTells
<1>3. Talks(b, s, r, u, live) /\ Formed(b) /\ Free(b.nextId, b.waiting, Way(b, s, live), r, u)
  BY EndedTalks
<1> HIDE DEF b
<1>4. Tells(RunNext(b), s, r, u, live, stores)
  BY <1>1, <1>2, <1>3, TurnTells
<1> QED
  BY <1>4 DEF b

\* The lock is noted, and perhaps a start or an abort is added.
LEMMA AddedTells ==
    ASSUME NEW q, NEW a, NEW s, NEW r, NEW u, NEW live, NEW stores, Opens(q, s, r, u, live), Sized,
           Tells(q, s, r, u, live, stores),
           DOMAIN a = DOMAIN q, a.tasks = q.tasks, a.active = q.active, a.fields = q.fields,
           a.waiting = q.waiting, a.running = q.running, a.nextId = q.nextId,
           a.lockCommands = q.lockCommands,
           a.urgent = q.urgent \/ \E h : /\ h = Start \/ \E id : h = AbortOf(id)
                                         /\ a.urgent = Append(q.urgent, h)
    PROVE  Tells(a, s, r, u, live, stores) /\ Tells(RunNext(a), s, r, u, live, stores)
<1>1. Formed(q) /\ Talks(q, s, r, u, live) /\ IsSequence(s)
  BY DEF Opens
<1>2. Formed(a)
  BY <1>1, AddedFormed
<1>3. Talks(a, s, r, u, live) /\ Way(a, s, live) = Way(q, s, live)
  BY <1>1, SameTalks
<1>4. Free(a.nextId, a.waiting, Way(a, s, live), r, u)
  BY <1>3 DEF Opens
<1>5. Tells(a, s, r, u, live, stores)
  <2>1. StateOf(a) = StateOf(q)
    BY DEF StateOf, Own, Waits, IsActive
  <2>2. IsQueue(q)
    BY <1>1 DEF Formed
  <2> QED
    BY <1>1, <1>3, <2>1, <2>2, SameTells
<1> QED
  BY <1>1, <1>2, <1>3, <1>4, <1>5, TurnTells

\* The device gave the lock, or took it, or sending failed.
LEMMA NoticeTells ==
    ASSUME NEW s, NEW r, NEW u, NEW live, NEW stores, Spoken(s, r, u, live), Sized,
           Tells(queue, s, r, u, live, stores),
           LockObtained \/ (\E locked : UpdateLock(locked)) \/ SendFailed
    PROVE  Tells(queue', s, r, u, live, stores)
<1> DEFINE q == Fresh
<1>1. Opens(q, s, r, u, live) /\ Tells(q, s, r, u, live, stores)
  BY FreshTalks, FreshTells
<1>2. DOMAIN q = {"tasks", "active", "isLocked", "urgent", "waiting", "running", "nextId",
                  "lockCommands", "fields"}
  BY <1>1 DEF Opens, Formed, IsQueue
<1>3. \/ queue' = RunNext(TryStartTransfer([q EXCEPT !.isLocked = TRUE]))
      \/ \E locked : LET a == [q EXCEPT !.isLocked = locked]
                     IN  queue' = a \/ queue' = RunNext(TryAbortTransfer(a))
      \/ queue' = RunNext(TryAbortTransfer(q))
  BY DEF LockObtained, UpdateLock, SendFailed
<1> HIDE DEF q
<1>4. ASSUME NEW a, NEW b,
             a = q \/ \E locked : a = [q EXCEPT !.isLocked = locked],
             b = a \/ b = TryStartTransfer(a) \/ b = TryAbortTransfer(a)
      PROVE  Tells(b, s, r, u, live, stores) /\ Tells(RunNext(b), s, r, u, live, stores)
  <2>1. /\ DOMAIN a = DOMAIN q /\ a.tasks = q.tasks /\ a.active = q.active /\ a.fields = q.fields
        /\ a.urgent = q.urgent /\ a.waiting = q.waiting /\ a.running = q.running
        /\ a.nextId = q.nextId /\ a.lockCommands = q.lockCommands
    BY <1>2, <1>4
  <2>2. \/ b = a
        \/ \E h : /\ h = Start \/ \E id : h = AbortOf(id)
                  /\ b = [a EXCEPT !.urgent = Append(@, h)]
    BY <1>4 DEF TryStartTransfer, TryAbortTransfer, AddUrgent
  <2>3. CASE b = a
    BY <1>1, <2>1, <2>3, AddedTells
  <2>4. CASE b # a
    <3>1. PICK h : /\ h = Start \/ \E id : h = AbortOf(id)
                   /\ b = [a EXCEPT !.urgent = Append(@, h)]
      BY <2>2, <2>4
    <3>2. /\ DOMAIN b = DOMAIN q /\ b.tasks = q.tasks /\ b.active = q.active /\ b.fields = q.fields
          /\ b.urgent = Append(q.urgent, h) /\ b.waiting = q.waiting /\ b.running = q.running
          /\ b.nextId = q.nextId /\ b.lockCommands = q.lockCommands
      BY <1>2, <2>1, <3>1
    <3>3. \E g : (g = Start \/ \E id : g = AbortOf(id)) /\ b.urgent = Append(q.urgent, g)
      BY <3>1, <3>2
    <3> QED
      BY <1>1, <3>2, <3>3, AddedTells
  <2> QED
    BY <2>3, <2>4
<1>5. CASE queue' = RunNext(TryStartTransfer([q EXCEPT !.isLocked = TRUE]))
  BY <1>4, <1>5
<1>6. CASE \E locked : LET a == [q EXCEPT !.isLocked = locked]
                       IN  queue' = a \/ queue' = RunNext(TryAbortTransfer(a))
  BY <1>4, <1>6
<1>7. CASE queue' = RunNext(TryAbortTransfer(q))
  BY <1>4, <1>7
<1> QED
  BY <1>3, <1>5, <1>6, <1>7

\* The first command is taken from the channel.
LEMMA RestOnce ==
    ASSUME NEW id, NEW w, NEW r, IsSequence(r), r # <<>>, Once(id, w, r)
    PROVE  Once(id, w, Tail(r))
<1>1. \A i \in DOMAIN Tail(r) : i \in Nat /\ i + 1 \in DOMAIN r /\ Tail(r)[i] = r[i + 1]
  BY RestAt
<1>2. ASSUME NEW i \in DOMAIN Tail(r), NEW j \in DOMAIN Tail(r), Is(Tail(r)[i], "data", id),
             Is(Tail(r)[j], "data", id)
      PROVE  i = j
  <2>1. i + 1 = j + 1
    BY <1>1, <1>2 DEF Once
  <2> QED
    BY <1>1, <2>1
<1>3. ASSUME NEW i \in DOMAIN w, NEW j \in DOMAIN Tail(r), Is(w[i].command, "data", id),
             Is(Tail(r)[j], "data", id)
      PROVE  FALSE
  BY <1>1, <1>3 DEF Once
<1>4. \A i, j \in DOMAIN w : Is(w[i].command, "data", id) /\ Is(w[j].command, "data", id) => i = j
  BY DEF Once
<1> QED
  BY <1>2, <1>3, <1>4 DEF Once

\* It waits for its turn.
LEMMA WaitsOnce ==
    ASSUME NEW id, NEW w, NEW r, IsSequence(r), r # <<>>, Once(id, w, r), IsSequence(w)
    PROVE  Once(id, Append(w, Handle(Head(r))), Tail(r))
<1> DEFINE w2 == Append(w, Handle(Head(r)))
           r2 == Tail(r)
<1>1. /\ 1 \in DOMAIN r /\ Head(r) = r[1]
      /\ \A i \in DOMAIN r2 : i \in Nat /\ i >= 1 /\ i + 1 \in DOMAIN r /\ r2[i] = r[i + 1]
  BY RestAt
<1>2. w2 = w \o <<Handle(Head(r))>>
  BY DEF IsSequence
<1>3. /\ DOMAIN w = 1 .. Len(w) /\ DOMAIN w2 = 1 .. Len(w) + 1 /\ Len(w) \in Nat
      /\ w2[Len(w) + 1] = Handle(Head(r)) /\ \A i \in 1 .. Len(w) : w2[i] = w[i]
  BY <1>2, OneMoreAt
<1>4. Handle(Head(r)).command = r[1]
  BY <1>1 DEF Handle
<1> HIDE DEF w2, r2
<1>5. \A i \in DOMAIN w2 : (i \in DOMAIN w /\ w2[i] = w[i]) \/ (i = Len(w) + 1 /\ w2[i].command = r[1])
  BY <1>3, <1>4
<1>6. ASSUME NEW i \in DOMAIN w2, NEW j \in DOMAIN w2, Is(w2[i].command, "data", id),
             Is(w2[j].command, "data", id)
      PROVE  i = j
  BY <1>1, <1>5, <1>6 DEF Once
<1>7. ASSUME NEW i \in DOMAIN w2, NEW j \in DOMAIN r2, Is(w2[i].command, "data", id),
             Is(r2[j], "data", id)
      PROVE  FALSE
  <2>1. j + 1 \in DOMAIN r /\ j + 1 # 1 /\ Is(r[j + 1], "data", id)
    BY <1>1, <1>7
  <2> QED
    BY <1>1, <1>5, <1>7, <2>1 DEF Once
<1>8. Once(id, w, r2)
  BY RestOnce DEF r2
<1>9. Once(id, w2, r2)
  BY <1>6, <1>7, <1>8 DEF Once
<1> QED
  BY <1>9 DEF w2, r2

\* A command has arrived that the queue has no need to hear.
LEMMA UnheardTells ==
    ASSUME NEW q, NEW s, NEW r, NEW u, NEW live, NEW stores, Tells(q, s, r, u, live, stores),
           Talks(q, s, r, u, live), IsQueue(q), IsSequence(r), r # <<>>
    PROVE  Tells(q, s, Tail(r), u, live, stores)
<1> DEFINE r2 == Tail(r)
           w == q.waiting
           p == Way(q, s, live)
           id == q.active.id
<1>1. \A c : Heard(w, r2, c) => Heard(w, r, c)
  BY TailHolds DEF Heard
<1>2. Sparser(id, w, p, r2, w, p, r)
  <2> HIDE DEF w, p, id
  <2> QED
    BY RestOnce DEF Sparser
<1> HIDE DEF r2
<1>3. Quieter(w, r2, w, r) /\ SameOrNone(u, u) /\ Within(p, p)
  BY <1>1 DEF Quieter, SameOrNone, Within
<1>4. Chained(p, u) /\ \A t \in Transfers : Alike(q.fields[t], q.fields[t])
  BY DEF Talks, Alike
<1>5. Tells(q, s, r2, u, live, stores)
  BY <1>2, <1>3, <1>4, LessTells
<1> QED
  BY <1>5 DEF r2

\* A command of the device arrives for a transfer.
LEMMA HearTells ==
    ASSUME NEW s, NEW r, NEW u, NEW live, NEW stores, Spoken(s, r, u, live), Sized,
           Tells(queue, s, r, u, live, stores), r # <<>>,
           HandleReceived(Head(r)), Head(r).type \in Answers, Counted(Head(r))
    PROVE  Tells(queue', s, Tail(r), u, live, stores)
<1> DEFINE q == Fresh
           a == AddCommand(q, Head(r))
<1>1. Opens(q, s, r, u, live) /\ Tells(q, s, r, u, live, stores)
  BY FreshTalks, FreshTells
<1>2. queue' = RunNext(a) \/ queue' = q
  BY DEF HandleReceived
<1> HIDE DEF q
<1>3. IsQueue(q) /\ IsSequence(q.waiting) /\ IsSequence(r) /\ Talks(q, s, r, u, live)
  BY <1>1 DEF Opens, Formed, Handlers
<1>4. CASE queue' = q
  BY <1>1, <1>3, <1>4, UnheardTells
<1>5. CASE queue' = RunNext(a)
  <2>1. /\ DOMAIN a = DOMAIN q /\ a.tasks = q.tasks /\ a.active = q.active /\ a.fields = q.fields
        /\ a.urgent = q.urgent /\ a.running = q.running /\ a.isLocked = q.isLocked
        /\ a.nextId = q.nextId /\ a.lockCommands = q.lockCommands
        /\ a.waiting = Append(q.waiting, Handle(Head(r)))
    BY <1>1 DEF AddCommand, Opens, Formed, IsQueue
  <2> HIDE DEF a
  <2>2. /\ IsSequence(a.waiting)
        /\ \A h : Holds(a.waiting, h) <=> Holds(q.waiting, h) \/ h = Handle(Head(r))
    BY <1>3, <2>1, AppendHolds
  <2>3. Formed(a)
    <3>1. Handle(Head(r)).command = Head(r)
      BY DEF Handle
    <3> QED
      BY <1>1, <2>1, <2>2, <3>1 DEF Opens, Formed, IsQueue, Handlers, Typed
  <2>4. Talks(a, s, Tail(r), u, live) /\ Way(a, s, live) = Way(q, s, live)
    <3>1. IsSequence(q.waiting) /\ Talks(q, s, r, u, live)
      BY <1>3
    <3> QED
      BY ONLY <2>1, <3>1, <1>3, r # <<>>, Head(r).type \in Answers, WaitsTalks
  <2>5. ASSUME NEW c, Heard(a.waiting, Tail(r), c) PROVE Heard(q.waiting, r, c)
    <3>1. Handle(c) = Handle(Head(r)) => c = Head(r)
      BY DEF Handle
    <3>2. Holds(r, Head(r)) /\ \A x : Holds(Tail(r), x) => Holds(r, x)
      BY <1>3, TailHolds
    <3> QED
      BY <2>2, <2>5, <3>1, <3>2 DEF Heard
  <2>6. Free(a.nextId, a.waiting, Way(a, s, live), Tail(r), u)
    <3>1. Free(q.nextId, q.waiting, Way(q, s, live), r, u)
      BY <1>1 DEF Opens
    <3> QED
      BY <2>1, <2>4, <2>5, <3>1 DEF Free, Silent
  <2>7. Tells(a, s, Tail(r), u, live, stores)
    <3> DEFINE r2 == Tail(r)
               w == q.waiting
               w2 == a.waiting
               p == Way(q, s, live)
               id == q.active.id
    <3>1. Sparser(id, w2, p, r2, w, p, r)
      <4>1. w2 = Append(w, Handle(Head(r))) /\ IsSequence(w)
        BY <1>3, <2>1
      <4> HIDE DEF w, w2, p, id
      <4> QED
        BY <1>3, <4>1, WaitsOnce DEF Sparser
    <3>2. \A c : Heard(w2, r2, c) => Heard(w, r, c)
      BY <2>5
    <3> HIDE DEF r2
    <3>3. Quieter(w2, r2, w, r) /\ SameOrNone(u, u) /\ Within(p, p) /\ Way(a, s, live) = p
      BY <2>4, <3>2 DEF Quieter, SameOrNone, Within
    <3>4. Chained(p, u) /\ \A t \in Transfers : Alike(a.fields[t], q.fields[t])
      BY <1>3, <2>1 DEF Talks, Alike
    <3>5. StateOf(a) = StateOf(q) /\ (IsActive(a) <=> IsActive(q))
      BY <2>1 DEF StateOf, Own, Waits, IsActive
    <3>6. Tells(a, s, r2, u, live, stores)
      BY <1>1, <1>3, <2>1, <3>1, <3>3, <3>4, <3>5, LessTells
    <3> QED
      BY <3>6 DEF r2
  <2>8. IsSequence(s)
    BY <1>1 DEF Opens
  <2> QED
    BY <1>5, <2>3, <2>4, <2>6, <2>7, <2>8, TurnTells
<1> QED
  BY <1>2, <1>4, <1>5

\* Sending starts or stops.
LEMMA SendingTells ==
    ASSUME NEW s, NEW r, NEW u, NEW live, NEW stores, Spoken(s, r, u, live),
           Tells(queue, s, r, u, live, stores), StartCommandSending \/ StopCommandSending
    PROVE  Tells(queue', s, r, u, live, stores)
<1> DEFINE q == Fresh
<1>1. Opens(q, s, r, u, live) /\ Tells(q, s, r, u, live, stores)
  BY FreshTalks, FreshTells
<1>2. queue' = q \/ queue' = ClearQueue(q)
  BY DEF StartCommandSending, StopCommandSending
<1> HIDE DEF q
<1>3. Talks(q, s, r, u, live) /\ IsQueue(q) /\ Typed(q) /\ IsSequence(s)
  BY <1>1 DEF Opens, Formed
<1>4. Tells(ClearQueue(q), s, r, u, live, stores)
  BY <1>1, <1>3, ClearTells
<1> QED
  BY <1>1, <1>2, <1>4

\* The interval ticks.
LEMMA TickTells ==
    ASSUME NEW s, NEW r, NEW u, NEW live, NEW stores, Spoken(s, r, u, live), Sized,
           Tells(queue, s, r, u, live, stores), Tick
    PROVE  Tells(queue', IF live THEN s \o Popped ELSE s, r, u, live, stores)
<1> DEFINE q == Fresh
           s2 == IF live THEN s \o Popped ELSE s
<1>1. Opens(q, s, r, u, live) /\ Tells(q, s, r, u, live, stores)
  BY FreshTalks, FreshTells
<1>2. IsActive(queue) /\ Orders(queue.active.queuedCommands) /\ IsSequence(s)
      /\ IsSequence(queue.active.queuedCommands)
  BY DEF Tick, Spoken, Typed, Orders
<1>3. IsSequence(Popped) /\ (queue.active.queuedCommands = <<>> => Popped = <<>>)
  BY <1>2, PoppedTyped DEF Popped, Orders
<1>4. q.active = queue.active
  BY <1>1 DEF Opens, SameTransfers
<1>5. CASE queue.active.queuedCommands = <<>> /\ queue.active.state = "Finished"
  <2>1. queue' = RunNext(EndActive(q))
    BY <1>5 DEF Tick
  <2> HIDE DEF q
  <2>2. s2 = s
    <3>1. Popped = <<>>
      BY <1>3, <1>5
    <3>2. s \o <<>> = s
      BY <1>2, JoinThree, ShortHolds
    <3> QED
      BY <3>1, <3>2
  <2> HIDE DEF s2
  <2>3. Tells(queue', s, r, u, live, stores)
    BY <1>1, <2>1, EndedTells
  <2> QED
    BY <2>2, <2>3 DEF s2
<1>6. CASE ~(queue.active.queuedCommands = <<>> /\ queue.active.state = "Finished")
  <2> DEFINE l == q.active.queuedCommands
             a == [q EXCEPT !.active.queuedCommands = SubSeq(@, Len(Popped) + 1, Len(@))]
  <2>1. queue' = a
    BY <1>6 DEF Tick
  <2> HIDE DEF q
  <2>2. /\ a.fields = q.fields /\ a.waiting = q.waiting /\ a.running = q.running
        /\ a.active.of = q.active.of /\ a.active.id = q.active.id /\ a.active.state = q.active.state
        /\ a.active.queuedCommands = SubSeq(l, Len(Popped) + 1, Len(l))
    BY <1>1 DEF Opens, Formed, IsQueue
  <2> HIDE DEF a
  <2>3. (IsActive(a) <=> IsActive(q)) /\ Given(a) = Given(q) /\ StateOf(a) = StateOf(q)
    BY <2>2 DEF Own, IsActive, Waits, Given, StateOf
  <2>4. IsSequence(a.active.queuedCommands)
    <3>1. Len(Popped) \in Nat
      BY <1>3, JoinAt
    <3> QED
      BY <1>2, <1>4, <2>2, <3>1, PoppedTyped DEF Orders
  <2>5. Popped \o a.active.queuedCommands = l
    BY <1>2, <1>4, <2>2, PoppedJoins
  <2>6. Talks(q, s, r, u, live) /\ IsQueue(q) /\ Typed(q)
    BY <1>1 DEF Opens, Formed
  <2>7. s2 = IF live THEN s \o Popped ELSE s
    OBVIOUS
  <2> HIDE DEF s2
  <2>8. Way(a, s2, live) = Way(q, s, live)
    <3> DEFINE k == Popped
    <3>1. Typed(q) /\ IsSequence(s) /\ IsSequence(k)
      BY <1>2, <1>3, <2>6
    <3>2. k \o a.active.queuedCommands = q.active.queuedCommands
      BY <2>5
    <3>3. (live /\ s2 = s \o k) \/ (~live /\ s2 = s)
      BY <2>7
    <3> HIDE DEF k
    <3> QED
      BY ONLY <2>3, <2>4, <3>1, <3>2, <3>3, TakenWay
  <2>9. Tells(a, s2, r, u, live, stores)
    <3> DEFINE w == q.waiting
               p == Way(q, s, live)
               id == q.active.id
    <3>1. /\ Quieter(w, r, w, r) /\ SameOrNone(u, u) /\ Within(p, p) /\ Chained(p, u)
          /\ Sparser(id, w, p, r, w, p, r)
      BY <2>6 DEF Quieter, SameOrNone, Within, Sparser, Talks
    <3>2. \A t \in Transfers : Alike(a.fields[t], q.fields[t])
      BY <2>2 DEF Alike
    <3> QED
      BY <1>1, <2>2, <2>3, <2>6, <2>8, <3>1, <3>2, LessTells
  <2> QED
    BY <2>1, <2>9 DEF s2
<1> QED
  BY <1>5, <1>6

-----------------------------------------------------------------------------
(* The channels, and what is told of the transfers *)

\* Other commands are sent.
LEMMA MoreWithin ==
    ASSUME NEW s, NEW l, IsSequence(s), IsSequence(l), \A i \in DOMAIN l : Other(l[i])
    PROVE  Within(s \o l, s) /\ \A id : OneAck(id, s) => OneAck(id, s \o l)
<1> DEFINE p == s \o l
<1>1. /\ Len(s) \in Nat /\ Len(l) \in Nat /\ DOMAIN s = 1 .. Len(s)
      /\ DOMAIN l = 1 .. Len(l) /\ DOMAIN p = 1 .. Len(s) + Len(l)
      /\ \A i \in 1 .. Len(s) : p[i] = s[i]
      /\ \A i \in 1 .. Len(l) : p[Len(s) + i] = l[i]
  BY JoinAt
<1> HIDE DEF p
<1>2. ASSUME NEW i \in DOMAIN p PROVE Other(p[i]) \/ (i \in DOMAIN s /\ p[i] = s[i])
  <2>1. CASE i <= Len(s)
    BY <1>1, <2>1
  <2>2. CASE ~(i <= Len(s))
    <3>1. i - Len(s) \in 1 .. Len(l) /\ i = Len(s) + (i - Len(s))
      BY <1>1, <2>2
    <3> QED
      BY <1>1, <3>1
  <2> QED
    BY <2>1, <2>2
<1>3. Within(p, s)
  BY <1>2 DEF Within, Other
<1>4. ASSUME NEW id, OneAck(id, s) PROVE OneAck(id, p)
  BY <1>2, <1>4 DEF OneAck, Is, Other
<1> QED
  BY <1>3, <1>4 DEF p

\* Lock commands are sent.
LEMMA SendTells ==
    ASSUME NEW q, NEW s, NEW l, NEW r, NEW u, NEW live, NEW stores, Speaks(q, s, r, u, live),
           Tells(q, s, r, u, live, stores), IsQueue(q), IsSequence(s), IsSequence(l),
           \A i \in DOMAIN l : Other(l[i]), q.lockCommands = <<>> => l = <<>>
    PROVE  Tells(q, s \o l, r, u, live, stores)
<1>1. CASE l = <<>>
  <2>1. s \o l = s
    BY <1>1, JoinThree, ShortHolds
  <2> QED
    BY <2>1
<1>2. CASE l # <<>>
  <2>1. Talks(q, s, r, u, live)
    BY DEF Speaks
  <2>2. q.active.queuedCommands = <<>> /\ Given(q) = <<>>
    <3>1. CASE IsActive(q)
      BY <1>2, <2>1, <3>1 DEF Talks, Lined
    <3>2. CASE ~IsActive(q)
      BY <2>1, <3>2 DEF Talks, Lined, Given, Own
    <3> QED
      BY <3>1, <3>2
  <2> DEFINE p == s \o l
             w == q.waiting
  <2>3. Way(q, s, live) = s /\ Way(q, p, live) = p
    <3>1. IsSequence(p)
      BY JoinThree
    <3> HIDE DEF p
    <3> QED
      BY <2>2, <3>1, NothingUnsent
  <2>4. Chained(s, u) /\ Within(p, s) /\ \A id : OneAck(id, s) => OneAck(id, p)
    BY <2>1, <2>3, MoreWithin DEF Talks
  <2> HIDE DEF p
  <2>5. Quieter(w, r, w, r) /\ SameOrNone(u, u) /\ \A id : Sparser(id, w, p, r, w, s, r)
    BY <2>4 DEF Quieter, SameOrNone, Sparser
  <2>6. \A t \in Transfers : Alike(q.fields[t], q.fields[t])
    BY DEF Alike
  <2>7. Tells(q, p, r, u, live, stores)
    BY <2>3, <2>4, <2>5, <2>6, LessTells
  <2> QED
    BY <2>7 DEF p
<1> QED
  BY <1>1, <1>2

\* Nothing more can be sent.
LEMMA DeafTells ==
    ASSUME NEW q, NEW s, NEW r, NEW u, NEW live, NEW stores, Speaks(q, s, r, u, live),
           Tells(q, s, r, u, live, stores), IsQueue(q), IsSequence(s)
    PROVE  Tells(q, s, r, u, FALSE, stores)
<1> DEFINE p == Way(q, s, live)
           w == q.waiting
<1>1. IsSequence(Unsent(q)) /\ Talks(q, s, r, u, live)
  BY WayIs DEF Speaks
<1>2. Way(q, s, FALSE) = s /\ (p = s \/ p = s \o Unsent(q)) /\ Chained(p, u)
  BY <1>1 DEF Way, Talks
<1>3. \A i \in DOMAIN s : i \in DOMAIN p /\ s[i] = p[i]
  <2>1. CASE p = s
    BY <2>1
  <2>2. CASE p = s \o Unsent(q)
    <3> DEFINE t == Unsent(q)
    <3>1. IsSequence(t) /\ p = s \o t
      BY <1>1, <2>2
    <3> HIDE DEF t, p
    <3>2. /\ Len(s) \in Nat /\ Len(t) \in Nat /\ DOMAIN s = 1 .. Len(s)
          /\ DOMAIN p = 1 .. Len(s) + Len(t) /\ \A i \in 1 .. Len(s) : p[i] = s[i]
      BY <3>1, JoinAt
    <3> QED
      BY <3>2
  <2> QED
    BY <1>2, <2>1, <2>2
<1> HIDE DEF p
<1>4. Within(s, p) /\ \A id : OneAck(id, p) => OneAck(id, s)
  BY <1>3 DEF Within, OneAck
<1>5. Quieter(w, r, w, r) /\ SameOrNone(u, u) /\ \A id : Sparser(id, w, s, r, w, p, r)
  BY <1>4 DEF Quieter, SameOrNone, Sparser
<1>6. \A t \in Transfers : Alike(q.fields[t], q.fields[t])
  BY DEF Alike
<1> QED
  BY <1>2, <1>4, <1>5, <1>6, LessTells DEF p

\* Whether more can be sent is no matter to a queue without a transfer.
LEMMA IdleTells ==
    ASSUME NEW q, NEW s, NEW r, NEW u, NEW live, NEW stores, Speaks(q, s, r, u, live),
           Tells(q, s, r, u, live, stores), ~IsActive(q), IsSequence(s)
    PROVE  \A on : Tells(q, s, r, u, on, stores)
<1>1. \A on : Way(q, s, on) = s
  BY IdleTalks
<1>2. Way(q, s, live) = s
  <2>1. Given(q) = <<>> /\ q.active.queuedCommands = <<>>
    BY DEF Speaks, Talks, Lined, Given, Own
  <2> QED
    BY <2>1, NothingUnsent
<1> QED
  BY <1>1, <1>2 DEF Tells

\* The connection is lost, and all that was on its way.
LEMMA CutTells ==
    ASSUME NEW q, NEW s, NEW r, NEW u, NEW live, NEW stores, Speaks(q, s, r, u, live),
           Tells(q, s, r, u, live, stores), ~IsActive(q), IsSequence(s)
    PROVE  \A u2, on : u2.of = NoTransfer => Tells(q, <<>>, <<>>, u2, on, stores)
<1>1. Given(q) = <<>> /\ q.active.queuedCommands = <<>>
  BY DEF Speaks, Talks, Lined, Given, Own
<1>2. ASSUME NEW u2, NEW on, u2.of = NoTransfer PROVE Tells(q, <<>>, <<>>, u2, on, stores)
  <2>1. Way(q, <<>>, on) = <<>>
    BY <1>1, NothingUnsent, ShortHolds
  <2>2. \A c : Heard(q.waiting, <<>>, c) => Heard(q.waiting, r, c)
    BY ShortHolds DEF Heard
  <2>3. Asked(q.fields, <<>>, u2)
    BY <1>2 DEF Asked
  <2> QED
    BY <2>1, <2>2, <2>3 DEF Tells, NoFailure
<1> QED
  BY <1>2

-----------------------------------------------------------------------------
(* The device, and what is told of the transfers *)

\* It says one thing more.
LEMMA MoreHeard ==
    ASSUME NEW id, NEW w, NEW r, NEW c, IsSequence(r), \A h : Holds(w, h) => \E d : h = Handle(d)
    PROVE  LET r2 == r \o <<c>>
           IN  /\ IsSequence(r2)
               /\ \A d : Heard(w, r2, d) <=> Heard(w, r, d) \/ d = c
               /\ Once(id, w, r2) => Once(id, w, r)
               /\ Once(id, w, r) /\ ~Is(c, "data", id) => Once(id, w, r2)
               /\ ~Hears(w, r, "data", id) => Once(id, w, r2)
<1> DEFINE r2 == r \o <<c>>
<1>1. /\ IsSequence(r2) /\ Len(r) \in Nat /\ DOMAIN r = 1 .. Len(r) /\ DOMAIN r2 = 1 .. Len(r) + 1
      /\ r2[Len(r) + 1] = c /\ \A i \in 1 .. Len(r) : r2[i] = r[i]
  BY OneMoreAt
<1> HIDE DEF r2
<1>2. /\ \A i \in DOMAIN r : i \in DOMAIN r2 /\ r2[i] = r[i]
      /\ \A i \in DOMAIN r2 : (i \in DOMAIN r /\ r2[i] = r[i]) \/ (i = Len(r) + 1 /\ r2[i] = c)
  BY <1>1
<1>3. Len(r) + 1 \in DOMAIN r2 /\ r2[Len(r) + 1] = c
  BY <1>1
<1>4. \A d : Holds(r2, d) <=> Holds(r, d) \/ d = c
  BY <1>2, <1>3 DEF Holds
<1>5. \A d : Heard(w, r2, d) <=> Heard(w, r, d) \/ d = c
  BY <1>4 DEF Heard
<1>6. Once(id, w, r2) => Once(id, w, r)
  BY <1>2 DEF Once
<1>7. Once(id, w, r) /\ ~Is(c, "data", id) => Once(id, w, r2)
  BY <1>2 DEF Once
<1>8. ASSUME ~Hears(w, r, "data", id) PROVE Once(id, w, r2)
  <2>1. \A i \in DOMAIN r : ~Is(r[i], "data", id)
    BY <1>8 DEF Hears, Heard, Holds
  <2>2. \A i \in DOMAIN w : ~Is(w[i].command, "data", id)
    <3> SUFFICES ASSUME NEW i \in DOMAIN w PROVE ~Is(w[i].command, "data", id)
      OBVIOUS
    <3>1. PICK d : w[i] = Handle(d)
      BY DEF Holds
    <3>2. Heard(w, r, d) /\ w[i].command = d
      BY <3>1 DEF Heard, Holds, Handle
    <3> QED
      BY <1>8, <3>2 DEF Hears
  <2> QED
    BY <1>2, <2>1, <2>2 DEF Once
<1> QED
  BY <1>1, <1>5, <1>6, <1>7, <1>8 DEF r2

\* A command less is on its way to the device.
LEMMA RestWithin ==
    ASSUME NEW p, IsSequence(p), p # <<>>
    PROVE  /\ Within(Tail(p), p) /\ \A id : OneAck(id, p) => OneAck(id, Tail(p))
           /\ \A id : Is(Head(p), "dataAck", id) /\ OneAck(id, p) => ~Has(Tail(p), "dataAck", id)
           /\ \A type, id : /\ Has(Tail(p), type, id) => Has(p, type, id)
                            /\ Is(Head(p), type, id) => Has(p, type, id)
           /\ \A i \in DOMAIN Tail(p) : \E j \in DOMAIN p : Tail(p)[i] = p[j]
<1> DEFINE p2 == Tail(p)
<1>1. /\ 1 \in DOMAIN p /\ Head(p) = p[1]
      /\ \A i \in DOMAIN p2 : i \in Nat /\ i >= 1 /\ i + 1 \in DOMAIN p /\ p2[i] = p[i + 1]
  BY RestAt
<1> HIDE DEF p2
<1>2. Within(p2, p) /\ \A i \in DOMAIN p2 : \E j \in DOMAIN p : p2[i] = p[j]
  BY <1>1 DEF Within
<1>3. ASSUME NEW id, OneAck(id, p), NEW i \in DOMAIN p2, NEW j \in DOMAIN p2,
             Is(p2[i], "dataAck", id), Is(p2[j], "dataAck", id)
      PROVE  i = j
  <2>1. i + 1 = j + 1
    BY <1>1, <1>3 DEF OneAck
  <2> QED
    BY <1>1, <2>1
<1>4. ASSUME NEW id, Is(Head(p), "dataAck", id), OneAck(id, p), Has(p2, "dataAck", id)
      PROVE  FALSE
  <2>1. PICK i \in DOMAIN p2 : Is(p2[i], "dataAck", id)
    BY <1>4 DEF Has
  <2>2. i + 1 = 1 /\ i \in Nat /\ i >= 1
    BY <1>1, <1>4, <2>1 DEF OneAck
  <2> QED
    BY <2>2
<1>5. \A type, id : /\ Has(p2, type, id) => Has(p, type, id)
                    /\ Is(Head(p), type, id) => Has(p, type, id)
  BY <1>1, <1>2 DEF Has
<1>6. \A id : OneAck(id, p) => OneAck(id, p2)
  BY <1>3 DEF OneAck
<1> QED
  BY <1>2, <1>4, <1>5, <1>6 DEF p2

\* The course of a transfer, when the device says nothing of it.
LEMMA ElseCourse ==
    ASSUME NEW id, NEW t, NEW x, NEW state, NEW w, NEW p, NEW r, NEW u, NEW e,
           Course(id, t, x, state, w, p, r, u, e),
           IsSequence(r), \A h : Holds(w, h) => \E d : h = Handle(d),
           NEW c, ~Is(c, "data", id), ~Is(c, "complete", id), NEW r2, r2 = r \/ r2 = r \o <<c>>,
           NEW p2, Within(p2, p), OneAck(id, p) => OneAck(id, p2),
           NEW u2, SameAt(id, t, u2, u), NEW e2, e \subseteq e2
    PROVE  Course(id, t, x, state, w, p2, r2, u2, e2)
<1>1. /\ \A d : Heard(w, r2, d) => Heard(w, r, d) \/ d = c
      /\ Once(id, w, r) => Once(id, w, r2)
  <2>1. CASE r2 = r
    BY <2>1
  <2>2. CASE r2 = r \o <<c>>
    BY <2>2, MoreHeard
  <2> QED
    BY <2>1, <2>2
<1>2. Fewer(id, w, r2, w, r)
  BY <1>1 DEF Fewer, Hears
<1>3. Sparser(id, w, p2, r2, w, p, r) /\ Alike(x, x)
  BY <1>1 DEF Sparser, Alike
<1> QED
  BY <1>2, <1>3, LessCourse

\* ... when it begins with it,
LEMMA BeginCourse ==
    ASSUME NEW id, NEW t, NEW x, NEW state, NEW w, NEW p, NEW r, NEW u, NEW e,
           Course(id, t, x, state, w, p, r, u, e),
           IsSequence(r), \A h : Holds(w, h) => \E d : h = Handle(d), Silent(id, w, r),
           IsSequence(p), p # <<>>, Is(Head(p), "request", id),
           NEW c, Is(c, "data", id), NEW r2, r2 = r \/ r2 = r \o <<c>>,
           NEW u2, u2.frame = Head(p).frame, u2.got = 0
    PROVE  Course(id, t, x, state, w, Tail(p), r2, u2, e)
<1> DEFINE p2 == Tail(p)
<1>1. /\ Has(p, "request", id) /\ \A i \in DOMAIN p2 : \E j \in DOMAIN p : p2[i] = p[j]
      /\ Has(p2, "dataAck", id) => Has(p, "dataAck", id)
      /\ OneAck(id, p) => OneAck(id, p2)
      /\ Has(p2, "request", id) => Has(p, "request", id)
  BY RestWithin
<1>2. Head(p).frame = x.numFrames
  <2>1. 1 \in DOMAIN p /\ Head(p) = p[1]
    BY RestAt
  <2> QED
    BY <2>1 DEF Course
<1> HIDE DEF p2
<1>3. ~Hears(w, r, "data", id) /\ ~Hears(w, r, "complete", id)
  BY DEF Silent, Hears, Is, About, Parts, Answers
<1>4. ~Hears(w, r2, "complete", id) /\ (Once(id, w, r) => Once(id, w, r2))
  <2>1. CASE r2 = r
    BY <1>3, <2>1
  <2>2. CASE r2 = r \o <<c>>
    <3>1. Once(id, w, r2) /\ \A d : Heard(w, r2, d) => Heard(w, r, d) \/ d = c
      BY <1>3, <2>2, MoreHeard
    <3> QED
      BY <1>3, <3>1 DEF Hears, Is
  <2> QED
    BY <2>1, <2>2
<1>5. Kind[t] = "download" => Alternates(id, t, x, w, p2, r2, u2)
  <2> SUFFICES ASSUME Kind[t] = "download" PROVE Alternates(id, t, x, w, p2, r2, u2)
    OBVIOUS
  <2>1. Alternates(id, t, x, w, p, r, u)
    BY DEF Course
  <2>2. x.moved = 0 /\ ~Has(p, "dataAck", id) /\ x.promise # "resolved"
    BY <1>1, <2>1 DEF Alternates
  <2> QED
    BY <1>1, <1>4, <2>1, <2>2 DEF Alternates
<1>6. \A i \in DOMAIN p2 : Is(p2[i], "request", id) => p2[i].frame = x.numFrames
  BY <1>1 DEF Course
<1>7. Course(id, t, x, state, w, p2, r2, u2, e)
  BY <1>2, <1>4, <1>5, <1>6 DEF Course
<1> QED
  BY <1>7 DEF p2

\* ... when it goes on,
LEMMA NextCourse ==
    ASSUME NEW id, NEW t, NEW x, NEW state, NEW w, NEW p, NEW r, NEW u, NEW e,
           Course(id, t, x, state, w, p, r, u, e), Kind[t] = "download",
           IsSequence(r), \A h : Holds(w, h) => \E d : h = Handle(d),
           IsSequence(p), p # <<>>, Is(Head(p), "dataAck", id), At(u, id),
           NEW c, Is(c, "data", id),
           NEW u2, u2.frame = u.frame, u2.got = u.got + 1
    PROVE  Course(id, t, x, state, w, Tail(p), r \o <<c>>, u2, e)
<1> DEFINE p2 == Tail(p)
           r2 == r \o <<c>>
<1>1. /\ Has(p, "dataAck", id) /\ \A i \in DOMAIN p2 : \E j \in DOMAIN p : p2[i] = p[j]
      /\ OneAck(id, p) => OneAck(id, p2) /\ ~Has(p2, "dataAck", id)
      /\ Has(p2, "request", id) => Has(p, "request", id)
  BY RestWithin
<1>2. /\ \A d : Heard(w, r2, d) => Heard(w, r, d) \/ d = c
      /\ ~Hears(w, r, "data", id) => Once(id, w, r2)
  BY MoreHeard
<1> HIDE DEF p2, r2
<1>3. Alternates(id, t, x, w, p, r, u)
  BY DEF Course
<1>4. /\ ~Hears(w, r, "complete", id) /\ u.got + 1 = x.moved /\ ~Hears(w, r, "data", id)
      /\ ~Has(p, "request", id) /\ x.promise # "resolved" /\ OneAck(id, p)
  BY <1>1, <1>3 DEF Alternates
<1>5. ~Hears(w, r2, "complete", id)
  BY <1>2, <1>4 DEF Hears, Is
<1>6. Alternates(id, t, x, w, p2, r2, u2)
  BY <1>1, <1>2, <1>4, <1>5 DEF Alternates
<1>7. \A i \in DOMAIN p2 : Is(p2[i], "request", id) => p2[i].frame = x.numFrames
  BY <1>1 DEF Course
<1>8. u2.frame = x.numFrames
  BY DEF Course
<1>9. Course(id, t, x, state, w, p2, r2, u2, e)
  BY <1>5, <1>6, <1>7, <1>8 DEF Course
<1> QED
  BY <1>9 DEF p2, r2

\* ... and when it has it all.
LEMMA EndCourse ==
    ASSUME NEW id, NEW t, NEW x, NEW state, NEW w, NEW p, NEW r, NEW u, NEW e,
           Course(id, t, x, state, w, p, r, u, e),
           IsSequence(r), \A h : Holds(w, h) => \E d : h = Handle(d),
           IsSequence(p), p # <<>>, At(u, id),
           Kind[t] = "download" =>
               /\ Is(Head(p), "dataAck", id) /\ Chunks[t] \in Nat
               /\ u.got \in 0 .. Chunks[t] - 1 /\ ~(u.got + 1 < Chunks[t]),
           NEW c, Is(c, "complete", id), NEW u2, u2.of = NoTransfer
    PROVE  Course(id, t, x, state, w, Tail(p), r \o <<c>>, u2, e \union {u.frame})
<1> DEFINE p2 == Tail(p)
           r2 == r \o <<c>>
           e2 == e \union {u.frame}
<1>1. /\ \A i \in DOMAIN p2 : \E j \in DOMAIN p : p2[i] = p[j]
      /\ Is(Head(p), "dataAck", id) => Has(p, "dataAck", id)
      /\ OneAck(id, p) => OneAck(id, p2)
      /\ OneAck(id, p) /\ Is(Head(p), "dataAck", id) => ~Has(p2, "dataAck", id)
      /\ Has(p2, "request", id) => Has(p, "request", id)
  BY RestWithin
<1>2. /\ \A d : Heard(w, r2, d) => Heard(w, r, d) \/ d = c
      /\ Once(id, w, r) => Once(id, w, r2)
  BY MoreHeard DEF Is
<1> HIDE DEF p2, r2
<1>3. u.frame = x.numFrames /\ ~At(u2, id)
  BY DEF Course, At
<1>4. Kind[t] = "download" => Alternates(id, t, x, w, p2, r2, u2)
  <2> SUFFICES ASSUME Kind[t] = "download" PROVE Alternates(id, t, x, w, p2, r2, u2)
    OBVIOUS
  <2>1. Alternates(id, t, x, w, p, r, u) /\ Has(p, "dataAck", id)
    BY <1>1 DEF Course
  <2>2. /\ u.got + 1 = x.moved /\ ~Hears(w, r, "data", id) /\ Once(id, w, r) /\ OneAck(id, p)
        /\ ~Has(p, "request", id) /\ x.promise # "resolved"
    BY <2>1 DEF Alternates
  <2>3. x.moved = Chunks[t]
    BY <2>2
  <2>4. ~Hears(w, r2, "data", id)
    BY <1>2, <2>2 DEF Hears, Is
  <2> QED
    BY <1>1, <1>2, <2>2, <2>3, <2>4 DEF Alternates
<1>5. \A i \in DOMAIN p2 : Is(p2[i], "request", id) => p2[i].frame = x.numFrames
  BY <1>1 DEF Course
<1>6. /\ Kind[t] = "clip" /\ state # "Pending" => 1 .. (x.numFrames - 1) \subseteq e
      /\ Kind[t] = "clip" /\ state = "Pending" => x.numFrames = 0
  BY DEF Course
<1>7. Course(id, t, x, state, w, p2, r2, u2, e2)
  BY <1>3, <1>4, <1>5, <1>6 DEF Course
<1> QED
  BY <1>7 DEF p2, r2

\* What holds as the device takes a command.
Taking(q, s, r, u, live, stores) ==
    /\ Tells(q, s, r, u, live, stores) /\ Talks(q, s, r, u, live)
    /\ IsQueue(q) /\ Handlers(q) /\ Typed(q)
    /\ IsSequence(s) /\ s # <<>> /\ IsSequence(r)

\* What has to hold afterwards.
LEMMA TakenTells ==
    ASSUME NEW q, NEW s, NEW r, NEW u, NEW live, NEW stores, Taking(q, s, r, u, live, stores),
           NEW r2, NEW u2, NEW stores2, NEW c,
           \A t \in Transfers : stores[t] \subseteq stores2[t]
                                /\ Account(t, q.fields[t], stores2[t]),
           u2.of # NoTransfer =>
               /\ u2.of \in Transfers
               /\ Kind[u2.of] = "clip" => u2.frame \in 1 .. q.fields[u2.of].numFrames
               /\ Kind[u2.of] = "download" => u2.got \in 0 .. Chunks[u2.of] - 1,
           \A d : Heard(q.waiting, r2, d) => Heard(q.waiting, r, d) \/ d = c,
           (\E t \in Transfers : Kind[t] = "clip") => c.type # "error",
           IsActive(q) => CourseOf(q, Tail(Way(q, s, live)), r2, u2, stores2)
    PROVE  Tells(q, Tail(s), r2, u2, live, stores2)
<1> DEFINE p == Way(q, s, live)
<1>1. /\ Tells(q, s, r, u, live, stores) /\ IsSequence(p) /\ p # <<>>
      /\ Way(q, Tail(s), live) = Tail(p)
  BY TailWay DEF Taking
<1>2. \A i \in DOMAIN Tail(p) : \E j \in DOMAIN p : Tail(p)[i] = p[j]
  BY <1>1, RestWithin
<1>3. Asked(q.fields, p, u)
  BY <1>1 DEF Tells
<1> HIDE DEF p
<1> DEFINE p2 == Tail(p)
<1>4. \A i \in DOMAIN p2 : p2[i].type = "request" /\ Kind[p2[i].of] = "clip" =>
          p2[i].frame \in 1 .. q.fields[p2[i].of].numFrames
  BY <1>2, <1>3 DEF Asked
<1>5. Asked(q.fields, p2, u2)
  BY <1>4 DEF Asked
<1>6. TakenStored(q, stores2)
  <2>1. TakenStored(q, stores)
    BY <1>1 DEF Tells
  <2> QED
    BY <2>1 DEF TakenStored
<1>7. NoFailure(q.waiting, r2)
  BY <1>1 DEF NoFailure, Tells
<1>8. IsActive(q) => CourseOf(q, p2, r2, u2, stores2)
  BY DEF p
<1> QED
  BY <1>1, <1>5, <1>6, <1>7, <1>8 DEF Tells

\* It says something else, or nothing.
LEMMA PassTells ==
    ASSUME NEW q, NEW s, NEW r, NEW u, NEW live, NEW stores, Taking(q, s, r, u, live, stores),
           NEW c, Other(c), NEW r2, r2 = r \/ r2 = r \o <<c>>, NEW u2, SameOrNone(u2, u)
    PROVE  Tells(q, Tail(s), r2, u2, live, stores)
<1> DEFINE p == Way(q, s, live)
           p2 == Tail(p)
           w == q.waiting
           id == q.active.id
<1>1. /\ Tells(q, s, r, u, live, stores) /\ Chained(p, u) /\ IsSequence(p) /\ p # <<>>
      /\ Way(q, Tail(s), live) = p2 /\ IsQueue(q) /\ IsSequence(r)
      /\ \A h : Holds(w, h) => \E d : h = Handle(d)
  BY TailWay DEF Taking, Talks, Handlers
<1>2. Within(p2, p) /\ (OneAck(id, p) => OneAck(id, p2))
  BY <1>1, RestWithin
<1>3. /\ \A d : Heard(w, r2, d) => Heard(w, r, d) \/ d = c
      /\ Once(id, w, r) => Once(id, w, r2)
  <2>1. CASE r2 = r
    BY <2>1
  <2>2. CASE r2 = r \o <<c>>
    <3>1. ~Is(c, "data", id)
      BY DEF Is, Other, Parts
    <3> HIDE DEF w, id
    <3> QED
      BY <1>1, <2>2, <3>1, MoreHeard
  <2> QED
    BY <2>1, <2>2
<1> HIDE DEF p2, p
<1>4. Quieter(w, r2, w, r) /\ Sparser(id, w, p2, r2, w, p, r)
  BY <1>2, <1>3 DEF Quieter, Sparser, Other, Answers
<1>5. \A t \in Transfers : Alike(q.fields[t], q.fields[t])
  BY DEF Alike
<1> DEFINE s2 == Tail(s)
<1>6. Way(q, s2, live) = p2
  BY <1>1
<1> HIDE DEF s2
<1>7. Tells(q, s2, r2, u2, live, stores)
  BY <1>1, <1>2, <1>4, <1>5, <1>6, LessTells DEF p
<1> QED
  BY <1>7 DEF s2

\* It begins with a transfer, or refuses to.
LEMMA BegunTells ==
    ASSUME NEW q, NEW s, NEW r, NEW u, NEW live, NEW stores, Taking(q, s, r, u, live, stores),
           Sized, Head(s).type = "request", NEW c, c.id = Head(s).id, NEW r2, NEW u2,
           \/ /\ u2.id = Head(s).id /\ u2.of = Head(s).of /\ u2.frame = Head(s).frame /\ u2.got = 0
              /\ c.type = "data" /\ (r2 = r \/ r2 = r \o <<c>>)
           \/ /\ u2 = u /\ c.type = "error" /\ r2 = r \o <<c>>
              /\ ~\E t \in Transfers : Kind[t] = "clip"
    PROVE  Tells(q, Tail(s), r2, u2, live, stores)
<1> DEFINE p == Way(q, s, live)
           p2 == Tail(p)
           w == q.waiting
           id == q.active.id
           t == q.active.of
           state == StateOf(q)
           x == q.fields[t]
           e == stores[t]
<1>1. /\ Tells(q, s, r, u, live, stores) /\ Talks(q, s, r, u, live) /\ Chained(p, u)
      /\ IsSequence(p) /\ p # <<>>
      /\ Head(p) = Head(s) /\ IsSequence(r) /\ \A h : Holds(w, h) => \E d : h = Handle(d)
  BY TailWay DEF Taking, Talks, Handlers
<1>2. Within(p2, p) /\ (OneAck(id, p) => OneAck(id, p2))
  BY <1>1, RestWithin
<1>3. \A d : Heard(w, r2, d) => Heard(w, r, d) \/ d = c
  <2>1. CASE r2 = r
    BY <2>1
  <2>2. CASE r2 = r \o <<c>>
    <3> HIDE DEF w, id
    <3> QED
      BY <1>1, <2>2, MoreHeard
  <2> QED
    BY <2>1, <2>2
<1>4. 1 \in DOMAIN p /\ Head(p) = p[1]
  BY <1>1, RestAt
<1>5. Head(s).of \in Transfers
  BY <1>1, <1>4 DEF Chained
<1>6. u2.of # NoTransfer =>
          /\ u2.of \in Transfers
          /\ Kind[u2.of] = "clip" => u2.frame \in 1 .. q.fields[u2.of].numFrames
          /\ Kind[u2.of] = "download" => u2.got \in 0 .. Chunks[u2.of] - 1
  <2>1. Asked(q.fields, p, u)
    BY <1>1 DEF Tells
  <2>2. CASE u2 = u
    BY <2>1, <2>2 DEF Asked
  <2>3. CASE u2.of = Head(s).of /\ u2.frame = Head(s).frame /\ u2.got = 0
    <3>1. Kind[u2.of] = "clip" => u2.frame \in 1 .. q.fields[u2.of].numFrames
      BY <1>1, <1>4, <2>1, <2>3 DEF Asked
    <3>2. Kind[u2.of] = "download" => 0 \in 0 .. Chunks[u2.of] - 1
      BY <1>5, <2>3, TransfersAssumption DEF Sized
    <3> QED
      BY <1>5, <2>3, <3>1, <3>2
  <2> QED
    BY <2>2, <2>3
<1>7. IsActive(q) => CourseOf(q, p2, r2, u2, stores)
  <2> SUFFICES ASSUME IsActive(q) PROVE Course(id, t, x, state, w, p2, r2, u2, e)
    BY DEF CourseOf
  <2>1. Course(id, t, x, state, w, p, r, u, e)
    BY <1>1 DEF Tells, CourseOf
  <2>2. Exchange(id, t, w, p, r, u)
    BY <1>1 DEF Talks, DialogOf, Dialog
  <2> HIDE DEF p, w, id, t, state, x, e
  <2>3. CASE c.id = id /\ c.type = "data"
    <3>1. Is(c, "data", id) /\ Is(Head(p), "request", id)
      BY <1>1, <2>3 DEF Is
    <3>2. Silent(id, w, r)
      BY <1>4, <2>2, <3>1 DEF Exchange, Is
    <3>3. (r2 = r \/ r2 = r \o <<c>>) /\ u2.frame = Head(p).frame /\ u2.got = 0
      BY <1>1, <2>3
    <3> QED
      BY ONLY <1>1, <2>1, <3>1, <3>2, <3>3, BeginCourse
  <2>4. CASE c.id # id \/ c.type = "error"
    <3>1. ~Is(c, "data", id) /\ ~Is(c, "complete", id)
      BY <2>4 DEF Is
    <3>2. SameAt(id, t, u2, u)
      BY <2>4 DEF SameAt, At
    <3>3. (r2 = r \/ r2 = r \o <<c>>) /\ e \subseteq e
      OBVIOUS
    <3> HIDE DEF p2
    <3> QED
      BY ONLY <1>1, <1>2, <2>1, <3>1, <3>2, <3>3, ElseCourse
  <2> QED
    BY <2>3, <2>4
<1>8. \A y \in Transfers : stores[y] \subseteq stores[y] /\ Account(y, q.fields[y], stores[y])
  BY <1>1 DEF Tells
<1>9. (\E y \in Transfers : Kind[y] = "clip") => c.type # "error"
  OBVIOUS
<1>10. IsActive(q) => CourseOf(q, Tail(Way(q, s, live)), r2, u2, stores)
  BY <1>7
<1> HIDE DEF p2, p, w, id, t, state, x, e
<1> QED
  BY ONLY Taking(q, s, r, u, live, stores), <1>3, <1>6, <1>8, <1>9, <1>10, TakenTells DEF w

\* What is known of the first command that was sent.
LEMMA TakingIs ==
    ASSUME NEW q, NEW s, NEW r, NEW u, NEW live, NEW stores, Taking(q, s, r, u, live, stores)
    PROVE  LET p == Way(q, s, live)
               id == q.active.id
               t == q.active.of
           IN  /\ IsSequence(p) /\ p # <<>> /\ Head(p) = Head(s) /\ IsSequence(r)
               /\ \A h : Holds(q.waiting, h) => \E d : h = Handle(d)
               /\ Within(Tail(p), p) /\ \A n : OneAck(n, p) => OneAck(n, Tail(p))
               /\ Asked(q.fields, p, u)
               /\ IsActive(q) => /\ Course(id, t, q.fields[t], StateOf(q), q.waiting, p, r, u,
                                           stores[t])
                                 /\ At(u, id) => u.of = t
               /\ At(u, Head(s).id) /\ Head(s).type \in {"data", "dataAck"} =>
                     Kind[u.of] = "download" <=> Head(s).type = "dataAck"
<1> DEFINE p == Way(q, s, live)
<1>1. /\ Tells(q, s, r, u, live, stores) /\ Talks(q, s, r, u, live) /\ Chained(p, u)
      /\ IsSequence(p) /\ p # <<>>
      /\ Head(p) = Head(s) /\ IsSequence(r) /\ \A h : Holds(q.waiting, h) => \E d : h = Handle(d)
  BY TailWay DEF Taking, Talks, Handlers
<1>2. Within(Tail(p), p) /\ \A n : OneAck(n, p) => OneAck(n, Tail(p))
  BY <1>1, RestWithin
<1>3. 1 \in DOMAIN p /\ Head(p) = p[1]
  BY <1>1, RestAt
<1> DEFINE C == Course(q.active.id, q.active.of, q.fields[q.active.of], StateOf(q), q.waiting, p,
                       r, u, stores[q.active.of])
<1>4. Asked(q.fields, p, u) /\ (IsActive(q) => C)
  BY <1>1 DEF Tells, CourseOf
<1>5. IsActive(q) => (At(u, q.active.id) => u.of = q.active.of)
  BY <1>1 DEF Talks, DialogOf, Dialog, Exchange
<1> HIDE DEF p
<1>6. At(u, Head(s).id) /\ Head(s).type \in {"data", "dataAck"} =>
          Kind[u.of] = "download" <=> Head(s).type = "dataAck"
  BY <1>1, <1>3 DEF Chained, Parts
<1> QED
  BY <1>1, <1>2, <1>4, <1>5, <1>6 DEF p

\* It takes a chunk of an upload that is not the last.
LEMMA ChunkTells ==
    ASSUME NEW q, NEW s, NEW r, NEW u, NEW live, NEW stores, Taking(q, s, r, u, live, stores),
           Head(s).type = "data", At(u, Head(s).id),
           NEW u2, u2.of = u.of, u2.id = u.id, u2.frame = u.frame
    PROVE  Tells(q, Tail(s), r, u2, live, stores)
<1> DEFINE p == Way(q, s, live)
           p2 == Tail(p)
           w == q.waiting
           id == q.active.id
           t == q.active.of
           state == StateOf(q)
           x == q.fields[t]
           e == stores[t]
<1>1. /\ IsSequence(r) /\ Within(p2, p) /\ (OneAck(id, p) => OneAck(id, p2))
      /\ \A h : Holds(w, h) => \E d : h = Handle(d)
  BY TakingIs
<1>2. Asked(q.fields, p, u) /\ Kind[u.of] # "download"
  BY TakingIs
<1>3. u2.of # NoTransfer =>
          /\ u2.of \in Transfers
          /\ Kind[u2.of] = "clip" => u2.frame \in 1 .. q.fields[u2.of].numFrames
          /\ Kind[u2.of] = "download" => u2.got \in 0 .. Chunks[u2.of] - 1
  BY <1>2 DEF Asked
<1> DEFINE c == InitComplete
<1>4. \A n : ~Is(c, "data", n) /\ ~Is(c, "complete", n)
  BY DEF InitComplete, Is
<1>5. c.type # "error"
  BY DEF InitComplete
<1>6. IsActive(q) => CourseOf(q, p2, r, u2, stores)
  <2> SUFFICES ASSUME IsActive(q) PROVE Course(id, t, x, state, w, p2, r, u2, e)
    BY DEF CourseOf
  <2>1. Course(id, t, x, state, w, p, r, u, e) /\ (At(u, id) => u.of = t)
    BY TakingIs
  <2>2. SameAt(id, t, u2, u)
    BY <1>2, <2>1 DEF SameAt, At
  <2>3. (r = r \/ r = r \o <<c>>) /\ e \subseteq e
    OBVIOUS
  <2> HIDE DEF p2, p, w, id, t, state, x, e, c
  <2> QED
    BY ONLY <1>1, <1>4, <2>1, <2>2, <2>3, ElseCourse
<1>7. \A y \in Transfers : stores[y] \subseteq stores[y] /\ Account(y, q.fields[y], stores[y])
  BY DEF Taking, Tells
<1>8. \A d : Heard(w, r, d) => Heard(w, r, d) \/ d = c
  OBVIOUS
<1> HIDE DEF c
<1>9. (\E y \in Transfers : Kind[y] = "clip") => c.type # "error"
  BY <1>5
<1>10. IsActive(q) => CourseOf(q, Tail(Way(q, s, live)), r, u2, stores)
  BY <1>6
<1> HIDE DEF p2, p, w, id, t, state, x, e
<1> QED
  BY ONLY Taking(q, s, r, u, live, stores), <1>3, <1>7, <1>8, <1>9, <1>10, TakenTells DEF w

\* It sends the next chunk of a download.
LEMMA NextTells ==
    ASSUME NEW q, NEW s, NEW r, NEW u, NEW live, NEW stores, Taking(q, s, r, u, live, stores),
           Head(s).type = "dataAck", At(u, Head(s).id), u.got + 1 < Chunks[u.of],
           NEW u2, u2.of = u.of, u2.id = u.id, u2.frame = u.frame, u2.got = u.got + 1,
           NEW c, Is(c, "data", u.id)
    PROVE  Tells(q, Tail(s), r \o <<c>>, u2, live, stores)
<1> DEFINE p == Way(q, s, live)
           p2 == Tail(p)
           r2 == r \o <<c>>
           w == q.waiting
           id == q.active.id
           t == q.active.of
           state == StateOf(q)
           x == q.fields[t]
           e == stores[t]
<1>1. /\ IsSequence(r) /\ Within(p2, p) /\ (OneAck(id, p) => OneAck(id, p2))
      /\ \A h : Holds(w, h) => \E d : h = Handle(d)
  BY TakingIs
<1>2. Asked(q.fields, p, u) /\ Kind[u.of] = "download" /\ IsSequence(p) /\ p # <<>>
      /\ Is(Head(p), "dataAck", u.id)
  BY TakingIs DEF Is, At
<1>3. u2.of # NoTransfer =>
          /\ u2.of \in Transfers
          /\ Kind[u2.of] = "clip" => u2.frame \in 1 .. q.fields[u2.of].numFrames
          /\ Kind[u2.of] = "download" => u2.got \in 0 .. Chunks[u2.of] - 1
  BY <1>2, TransfersAssumption DEF Asked, At
<1>4. \A d : Heard(w, r2, d) => Heard(w, r, d) \/ d = c
  <2> HIDE DEF w, id
  <2> QED
    BY <1>1, MoreHeard
<1>5. IsActive(q) => CourseOf(q, p2, r2, u2, stores)
  <2> SUFFICES ASSUME IsActive(q) PROVE Course(id, t, x, state, w, p2, r2, u2, e)
    BY DEF CourseOf
  <2>1. Course(id, t, x, state, w, p, r, u, e) /\ (At(u, id) => u.of = t)
    BY TakingIs
  <2>2. CASE u.id = id
    <3>1. Is(c, "data", id) /\ Is(Head(p), "dataAck", id) /\ At(u, id) /\ Kind[t] = "download"
      BY <1>2, <2>1, <2>2 DEF At
    <3>2. u2.frame = u.frame /\ u2.got = u.got + 1
      OBVIOUS
    <3> HIDE DEF p, w, id, t, state, x, e
    <3> QED
      BY ONLY <1>1, <1>2, <2>1, <3>1, <3>2, NextCourse
  <2>3. CASE u.id # id
    <3>1. ~Is(c, "data", id) /\ ~Is(c, "complete", id) /\ SameAt(id, t, u2, u)
      BY <2>3 DEF Is, SameAt, At
    <3>2. (r2 = r \/ r2 = r \o <<c>>) /\ e \subseteq e
      OBVIOUS
    <3> HIDE DEF p2, p, w, id, t, state, x, e
    <3> QED
      BY ONLY <1>1, <2>1, <3>1, <3>2, ElseCourse
  <2> QED
    BY <2>2, <2>3
<1>6. \A y \in Transfers : stores[y] \subseteq stores[y] /\ Account(y, q.fields[y], stores[y])
  BY DEF Taking, Tells
<1>7. (\E y \in Transfers : Kind[y] = "clip") => c.type # "error"
  BY DEF Is
<1>8. IsActive(q) => CourseOf(q, Tail(Way(q, s, live)), r2, u2, stores)
  BY <1>5
<1> HIDE DEF p2, p, r2, w, id, t, state, x, e
<1>9. Tells(q, Tail(s), r2, u2, live, stores)
  BY ONLY Taking(q, s, r, u, live, stores), <1>3, <1>4, <1>6, <1>7, <1>8, TakenTells DEF w
<1> QED
  BY <1>9 DEF r2

\* It has all of a transfer.
LEMMA StoredAllTells ==
    ASSUME NEW q, NEW s, NEW r, NEW u, NEW live, NEW stores, Taking(q, s, r, u, live, stores),
           Head(s).type \in {"data", "dataAck"}, At(u, Head(s).id), ~(u.got + 1 < Chunks[u.of]),
           NEW u2, u2.of = NoTransfer, NEW c, Is(c, "complete", u.id),
           NEW stores2, stores2[u.of] = stores[u.of] \union {u.frame},
           \A t \in Transfers : t # u.of => stores2[t] = stores[t]
    PROVE  Tells(q, Tail(s), r \o <<c>>, u2, live, stores2)
<1> DEFINE p == Way(q, s, live)
           p2 == Tail(p)
           r2 == r \o <<c>>
           w == q.waiting
           id == q.active.id
           t == q.active.of
           state == StateOf(q)
           x == q.fields[t]
           e == stores[t]
           e2 == stores2[t]
<1>1. /\ IsSequence(r) /\ Within(p2, p) /\ (OneAck(id, p) => OneAck(id, p2))
      /\ \A h : Holds(w, h) => \E d : h = Handle(d)
  BY TakingIs
<1>2. /\ Asked(q.fields, p, u) /\ IsSequence(p) /\ p # <<>>
      /\ Kind[u.of] = "download" => Is(Head(p), "dataAck", u.id)
  BY TakingIs DEF Is, At
<1>3. /\ u.of \in Transfers
      /\ Kind[u.of] = "download" => /\ Is(Head(p), "dataAck", u.id) /\ Chunks[u.of] \in Nat
                                    /\ u.got \in 0 .. Chunks[u.of] - 1
  BY <1>2, TransfersAssumption DEF Asked, At
<1>4. \A d : Heard(w, r2, d) => Heard(w, r, d) \/ d = c
  <2> HIDE DEF w, id
  <2> QED
    BY <1>1, MoreHeard
<1>5. ASSUME NEW y \in Transfers
      PROVE  stores[y] \subseteq stores2[y] /\ Account(y, q.fields[y], stores2[y])
  <2>1. Account(y, q.fields[y], stores[y])
    BY DEF Taking, Tells
  <2>2. CASE y # u.of
    BY <2>1, <2>2
  <2>3. CASE y = u.of
    <3> DEFINE f == q.fields[y]
               a == stores[y]
               b == a \union {u.frame}
    <3>1. stores2[y] = b /\ Account(y, f, a)
      BY <2>1, <2>3
    <3>2. Kind[y] = "clip" => u.frame \in 1 .. f.numFrames
      BY <1>2, <2>3 DEF Asked, At
    <3> HIDE DEF f, a
    <3>3. Kind[y] \in {"clip", "upload", "download"}
      BY TransfersAssumption
    <3>4. a \subseteq b /\ Account(y, f, b)
      <4>1. CASE Kind[y] = "clip"
        BY <3>1, <3>2, <4>1 DEF Account, IsDone
      <4>2. CASE Kind[y] = "upload"
        BY <3>1, <4>2 DEF Account, IsDone
      <4>3. CASE Kind[y] = "download"
        BY <3>1, <4>3 DEF Account, IsDone
      <4> QED
        BY <3>3, <4>1, <4>2, <4>3
    <3> QED
      BY <3>1, <3>4 DEF f, a
  <2> QED
    BY <2>2, <2>3
<1>6. IsActive(q) => CourseOf(q, p2, r2, u2, stores2)
  <2> SUFFICES ASSUME IsActive(q) PROVE Course(id, t, x, state, w, p2, r2, u2, e2)
    BY DEF CourseOf
  <2>1. Course(id, t, x, state, w, p, r, u, e) /\ (At(u, id) => u.of = t)
    BY TakingIs
  <2>2. CASE u.id = id
    <3>1. At(u, id) /\ u.of = t
      BY <2>1, <2>2 DEF At
    <3>2. /\ Is(c, "complete", id) /\ e2 = e \union {u.frame}
          /\ Kind[t] = "download" =>
               /\ Is(Head(p), "dataAck", id) /\ Chunks[t] \in Nat
               /\ u.got \in 0 .. Chunks[t] - 1 /\ ~(u.got + 1 < Chunks[t])
      BY <1>3, <2>2, <3>1
    <3>3. u2.of = NoTransfer
      OBVIOUS
    <3> HIDE DEF p, w, id, t, state, x, e, e2
    <3>4. Course(id, t, x, state, w, p2, r2, u2, e \union {u.frame})
      BY ONLY <1>1, <1>2, <2>1, <3>1, <3>2, <3>3, EndCourse
    <3> QED
      BY <3>2, <3>4
  <2>3. CASE u.id # id
    <3>1. ~Is(c, "data", id) /\ ~Is(c, "complete", id) /\ SameAt(id, t, u2, u)
      BY <2>3 DEF Is, SameAt, At
    <3>2. t \in Transfers
      BY DEF Taking, IsQueue, IsActive
    <3>3. (r2 = r \/ r2 = r \o <<c>>) /\ e \subseteq e2
      BY <1>5, <3>2
    <3> HIDE DEF p2, p, w, id, t, state, x, e, e2
    <3> QED
      BY ONLY <1>1, <2>1, <3>1, <3>3, ElseCourse
  <2> QED
    BY <2>2, <2>3
<1>7. u2.of # NoTransfer =>
          /\ u2.of \in Transfers
          /\ Kind[u2.of] = "clip" => u2.frame \in 1 .. q.fields[u2.of].numFrames
          /\ Kind[u2.of] = "download" => u2.got \in 0 .. Chunks[u2.of] - 1
  OBVIOUS
<1>8. (\E y \in Transfers : Kind[y] = "clip") => c.type # "error"
  BY DEF Is
<1>9. IsActive(q) => CourseOf(q, Tail(Way(q, s, live)), r2, u2, stores2)
  BY <1>6
<1> HIDE DEF p2, p, r2, w, id, t, state, x, e, e2
<1>10. Tells(q, Tail(s), r2, u2, live, stores2)
  BY ONLY Taking(q, s, r, u, live, stores), <1>4, <1>5, <1>7, <1>8, <1>9, TakenTells DEF w
<1> QED
  BY <1>10 DEF r2

\* The device tells something that moves no transfer on, or gives one up.
LEMMA ToldTells ==
    ASSUME NEW q, NEW s, NEW r, NEW u, NEW live, NEW stores, Tells(q, s, r, u, live, stores),
           IsQueue(q), Handlers(q), IsSequence(r), NEW c, c.type \notin {"data", "complete"},
           (\E t \in Transfers : Kind[t] = "clip") => c.type # "error",
           NEW u2, SameOrNone(u2, u)
    PROVE  Tells(q, s, r \o <<c>>, u2, live, stores)
<1> DEFINE p == Way(q, s, live)
           r2 == r \o <<c>>
           w == q.waiting
           id == q.active.id
           t == q.active.of
           state == StateOf(q)
           x == q.fields[t]
           e == stores[t]
<1>1. \A h : Holds(w, h) => \E d : h = Handle(d)
  BY DEF Handlers
<1>2. \A d : Heard(w, r2, d) => Heard(w, r, d) \/ d = c
  <2> HIDE DEF w, id
  <2> QED
    BY <1>1, MoreHeard
<1>3. Asked(q.fields, p, u) /\ NoFailure(w, r)
  BY DEF Tells
<1>4. IsActive(q) => Course(id, t, x, state, w, p, r2, u2, e)
  <2> SUFFICES ASSUME IsActive(q) PROVE Course(id, t, x, state, w, p, r2, u2, e)
    OBVIOUS
  <2>1. Course(id, t, x, state, w, p, r, u, e)
    BY DEF Tells, CourseOf
  <2> HIDE DEF p, w, id, t, state, x, e
  <2>2. SameAt(id, t, u2, u) /\ ~Is(c, "data", id) /\ ~Is(c, "complete", id)
    BY LessAtAll DEF Is
  <2>3. (r2 = r \/ r2 = r \o <<c>>) /\ e \subseteq e /\ Within(p, p)
        /\ (OneAck(id, p) => OneAck(id, p))
    BY DEF Within
  <2> QED
    BY ONLY IsSequence(r), <1>1, <2>1, <2>2, <2>3, ElseCourse
<1> HIDE DEF r2
<1>5. Asked(q.fields, p, u2)
  <2> HIDE DEF p
  <2> QED
    BY <1>3 DEF Asked, SameOrNone
<1>6. NoFailure(w, r2)
  <2> HIDE DEF w
  <2> QED
    BY <1>2, <1>3 DEF NoFailure
<1>7. Tells(q, s, r2, u2, live, stores)
  BY <1>4, <1>5, <1>6 DEF Tells, CourseOf
<1> QED
  BY <1>7 DEF r2

-----------------------------------------------------------------------------
(* The steps of the pool, and what is told *)

InTells ==
    /\ Tells(queue, toDevice, toClient, upload, link = "up", stored)
    /\ DOMAIN stored = Transfers

\* What an event sends.
LEMMA SentTells ==
    ASSUME NEW c, NEW r, NEW u, NEW live, NEW stores,
           IsSequence(toDevice), IsSequence(c), Send(c),
           c # <<>> => /\ queue'.lockCommands = <<>>
                       /\ live <=> link \notin {"down", "closing"},
           live => link \notin {"down", "closing"}, live \in BOOLEAN, IsQueue(queue'),
           Speaks(queue', IF live THEN toDevice \o c ELSE toDevice, r, u, live),
           Tells(queue', IF live THEN toDevice \o c ELSE toDevice, r, u, live, stores)
    PROVE  Tells(queue', toDevice', r, u, live, stores)
<1>1. CASE link \in {"down", "closing"}
  BY <1>1 DEF Send
<1>2. CASE link \notin {"down", "closing"}
  <2> DEFINE k == queue'.lockCommands
             l == [i \in DOMAIN k |-> Lock(k[i])]
  <2>1. toDevice' = (toDevice \o l) \o c
    BY <1>2 DEF Send
  <2>2. IsSequence(k)
    BY DEF Speaks
  <2> HIDE DEF k
  <2>3. IsSequence(l) /\ (\A i \in DOMAIN l : Other(l[i])) /\ (k = <<>> => l = <<>>)
    BY <2>2, LocksAreOthers
  <2> HIDE DEF l
  <2>4. CASE c = <<>>
    <3>1. toDevice \o c = toDevice /\ toDevice' = toDevice \o l
      BY <2>1, <2>3, <2>4, JoinThree
    <3>2. Speaks(queue', toDevice, r, u, live) /\ Tells(queue', toDevice, r, u, live, stores)
      BY <3>1
    <3>3. Tells(queue', toDevice \o l, r, u, live, stores)
      BY <2>3, <3>2, SendTells DEF k
    <3> QED
      BY <3>1, <3>3
  <2>5. CASE c # <<>>
    <3>1. l = <<>> /\ live
      BY <1>2, <2>3, <2>5 DEF k
    <3>2. toDevice' = toDevice \o c
      BY <2>1, <2>3, <3>1, JoinThree
    <3> QED
      BY <3>1, <3>2
  <2> QED
    BY <2>4, <2>5
<1> QED
  BY <1>1, <1>2

\* A step of the client that is not about what it received.
LEMMA ActsTell ==
    ASSUME InTalk, InTells, IsQueue(queue'), NEW c, Send(c), IsSequence(c),
           c # <<>> => /\ queue'.lockCommands = <<>> /\ link \in {"up", "closing"},
           Speaks(queue', IF link = "up" THEN toDevice \o c ELSE toDevice, toClient, upload,
                  link = "up"),
           Tells(queue', IF link = "up" THEN toDevice \o c ELSE toDevice, toClient, upload,
                 link = "up", stored),
           UNCHANGED <<toClient, deviceVars, link, interval>>
    PROVE  InTells'
<1> DEFINE live == link = "up"
<1>1. live \in BOOLEAN /\ (live => link \notin {"down", "closing"})
  OBVIOUS
<1>2. c # <<>> => queue'.lockCommands = <<>> /\ (live <=> link \notin {"down", "closing"})
  OBVIOUS
<1>3. /\ Speaks(queue', IF live THEN toDevice \o c ELSE toDevice, toClient, upload, live)
      /\ Tells(queue', IF live THEN toDevice \o c ELSE toDevice, toClient, upload, live, stored)
  OBVIOUS
<1>4. IsSequence(toDevice)
  BY DEF InTalk
<1> HIDE DEF live
<1>5. Tells(queue', toDevice', toClient, upload, live, stored)
  BY ONLY <1>1, <1>2, <1>3, <1>4, IsSequence(c), Send(c), IsQueue(queue'), SentTells
<1>6. toClient' = toClient /\ link' = link /\ upload' = upload /\ stored' = stored
  BY DEF deviceVars
<1>7. Tells(queue', toDevice', toClient', upload', link' = "up", stored')
  BY <1>5, <1>6 DEF live
<1> QED
  BY <1>6, <1>7 DEF InTells

\* A transfer is enqueued, a handler goes on, or sending failed.
LEMMA ClientTells ==
    ASSUME InTalk, InTells, IsQueue(queue'), Sized, Spoken(toDevice, toClient, upload, link = "up"),
           UserEnqueues \/ HandlerResumes \/ SendingFails
    PROVE  InTells'
<1>1. Send(<<>>) /\ UNCHANGED <<toClient, deviceVars, link, interval>>
  BY DEF UserEnqueues, HandlerResumes, SendingFails, ClientStep, Enqueue, Resume, SendFailed
<1> DEFINE live == link = "up"
<1>2. /\ Spoken(toDevice, toClient, upload, live)
      /\ Tells(queue, toDevice, toClient, upload, live, stored)
  BY DEF InTells
<1> HIDE DEF live
<1>3. /\ Speaks(queue', toDevice, toClient, upload, live)
      /\ Tells(queue', toDevice, toClient, upload, live, stored)
  <2>1. CASE UserEnqueues
    BY <1>2, <2>1, EnqueueTalks, EnqueueTells DEF UserEnqueues, ClientStep
  <2>2. CASE HandlerResumes
    BY <1>2, <2>2, ResumeTalks, ResumeTells DEF HandlerResumes, ClientStep
  <2>3. CASE SendingFails
    BY <1>2, <2>3, NoticeTalks, NoticeTells DEF SendingFails, ClientStep
  <2> QED
    BY <2>1, <2>2, <2>3
<1> DEFINE c == <<>>
<1>4. Send(c) /\ IsSequence(c) /\ c = <<>> /\ IsSequence(toDevice)
  BY <1>1, ShortHolds DEF InTalk
<1> HIDE DEF c
<1>5. toDevice \o c = toDevice
  BY <1>4, JoinThree
<1>6. /\ Speaks(queue', IF link = "up" THEN toDevice \o c ELSE toDevice, toClient, upload, link = "up")
      /\ Tells(queue', IF link = "up" THEN toDevice \o c ELSE toDevice, toClient, upload, link = "up",
               stored)
  BY <1>3, <1>5 DEF live
<1> QED
  BY ONLY <1>1, <1>4, <1>6, InTalk, InTells, IsQueue(queue'), ActsTell

\* The interval ticks.
LEMMA TicksTell ==
    ASSUME InTalk, InTells, IsQueue(queue'), Sized, Spoken(toDevice, toClient, upload, link = "up"),
           IntervalTicks
    PROVE  InTells'
<1> DEFINE live == link = "up"
<1>1. Tick /\ Send(Popped) /\ UNCHANGED <<toClient, deviceVars, link, interval>>
  BY DEF IntervalTicks, Tick
<1>2. /\ Spoken(toDevice, toClient, upload, live)
      /\ Tells(queue, toDevice, toClient, upload, live, stored)
  BY DEF InTells
<1> HIDE DEF live
<1> DEFINE c == Popped
<1>3. /\ Speaks(queue', IF live THEN toDevice \o c ELSE toDevice, toClient, upload, live)
      /\ IsSequence(c) /\ (c # <<>> => queue'.lockCommands = <<>>)
  BY <1>1, <1>2, TickTalks
<1>4. Tells(queue', IF live THEN toDevice \o c ELSE toDevice, toClient, upload, live, stored)
  BY <1>1, <1>2, TickTells
<1>5. link \in {"up", "closing"}
  BY <1>1 DEF InTalk, Tick
<1>6. /\ Speaks(queue', IF link = "up" THEN toDevice \o c ELSE toDevice, toClient, upload, link = "up")
      /\ Tells(queue', IF link = "up" THEN toDevice \o c ELSE toDevice, toClient, upload, link = "up",
               stored)
  BY <1>3, <1>4 DEF live
<1>7. Send(c)
  BY <1>1
<1> HIDE DEF c
<1> QED
  BY ONLY <1>1, <1>3, <1>5, <1>6, <1>7, InTalk, InTells, IsQueue(queue'), ActsTell

\* The client takes a command from its channel.
LEMMA ReceivesTell ==
    ASSUME InTalk, InTells, IsQueue(queue'), Sized, Spoken(toDevice, toClient, upload, link = "up"),
           ClientReceives
    PROVE  InTells'
<1> DEFINE live == link = "up"
           r2 == Tail(toClient)
           c == Head(toClient)
<1>1. /\ toClient # <<>> /\ toClient' = r2 /\ Send(<<>>) /\ UNCHANGED deviceVars
      /\ \/ c.type = "lockObtained" /\ LockObtained /\ UNCHANGED link
         \/ c.type = "lockState" /\ UpdateLock(c.locked) /\ UNCHANGED link
         \/ /\ c.type = "initComplete" /\ StartCommandSending
            /\ link' = IF link = "opening" THEN "up" ELSE link
         \/ c.type \in Answers /\ HandleReceived(c) /\ UNCHANGED link
  BY DEF ClientReceives, Answers
<1>2. /\ Spoken(toDevice, toClient, upload, live) /\ IsSequence(toClient) /\ IsSequence(toDevice)
      /\ link \in {"opening", "up", "closing"} /\ (link = "opening" => ~interval)
      /\ Tells(queue, toDevice, toClient, upload, live, stored)
  BY <1>1 DEF InTalk, InTells
<1>3. live \in BOOLEAN /\ (live <=> link = "up")
  OBVIOUS
<1> HIDE DEF live, r2, c
<1>4. Speaks(queue', toDevice, toClient, upload, live)
          => Speaks(queue', toDevice, r2, upload, live)
  BY <1>1, <1>2, UnheardTalks DEF Speaks, r2
<1>5. ASSUME Speaks(queue', toDevice, toClient, upload, live),
             Tells(queue', toDevice, toClient, upload, live, stored)
      PROVE  Tells(queue', toDevice, r2, upload, live, stored)
  <2>1. Talks(queue', toDevice, toClient, upload, live)
    BY <1>5 DEF Speaks
  <2> QED
    BY <1>1, <1>2, <1>5, <2>1, UnheardTells DEF r2
<1>6. /\ Speaks(queue', toDevice, r2, upload, live)
      /\ Tells(queue', toDevice, r2, upload, live, stored)
      /\ \/ link' = link
         \/ link' = "up" /\ link = "opening" /\ ~IsActive(queue')
  <2>1. CASE c.type = "lockObtained" /\ LockObtained /\ UNCHANGED link
    <3>1. Speaks(queue', toDevice, toClient, upload, live)
      BY <1>2, <2>1, NoticeTalks
    <3>2. Tells(queue', toDevice, toClient, upload, live, stored)
      BY <1>2, <2>1, NoticeTells
    <3> QED
      BY <1>4, <1>5, <2>1, <3>1, <3>2
  <2>2. CASE c.type = "lockState" /\ UpdateLock(c.locked) /\ UNCHANGED link
    <3>1. Speaks(queue', toDevice, toClient, upload, live)
      BY <1>2, <2>2, NoticeTalks
    <3>2. Tells(queue', toDevice, toClient, upload, live, stored)
      BY <1>2, <2>2, NoticeTells
    <3> QED
      BY <1>4, <1>5, <2>2, <3>1, <3>2
  <2>3. CASE /\ c.type = "initComplete" /\ StartCommandSending
             /\ link' = IF link = "opening" THEN "up" ELSE link
    <3>1. /\ Speaks(queue', toDevice, toClient, upload, live)
          /\ ~interval => ~IsActive(queue')
      BY <1>2, <2>3, SendingTalks
    <3>2. Tells(queue', toDevice, toClient, upload, live, stored)
      BY <1>2, <2>3, SendingTells
    <3> QED
      BY <1>2, <1>4, <1>5, <2>3, <3>1, <3>2
  <2>4. CASE c.type \in Answers /\ HandleReceived(c) /\ UNCHANGED link
    <3>1. Counted(c)
      <4>1. Talks(queue, toDevice, toClient, upload, live)
        BY <1>2 DEF Spoken
      <4>2. Heard(queue.waiting, toClient, c)
        BY <1>1, <1>2, TailHolds DEF Heard, c
      <4> QED
        BY <4>1, <4>2 DEF Talks, Answer, Counted
    <3>2. Speaks(queue', toDevice, r2, upload, live)
      BY <1>1, <1>2, <2>4, <3>1, HearTalks DEF c, r2
    <3>3. Tells(queue', toDevice, r2, upload, live, stored)
      BY <1>1, <1>2, <2>4, <3>1, HearTells DEF c, r2
    <3> QED
      BY <2>4, <3>2, <3>3
  <2> QED
    BY <1>1, <2>1, <2>2, <2>3, <2>4
<1> DEFINE on == link' = "up"
<1>7. /\ Speaks(queue', toDevice, r2, upload, on)
      /\ Tells(queue', toDevice, r2, upload, on, stored)
  <2>1. CASE link' = link
    <3>1. on = live
      BY <1>3, <2>1
    <3> QED
      BY <1>6, <3>1
  <2>2. CASE link' # link
    <3>1. ~IsActive(queue')
      BY <1>6, <2>2
    <3> HIDE DEF on
    <3>2. Speaks(queue', toDevice, r2, upload, on)
      BY <1>2, <1>6, <3>1, IdleTalks
    <3>3. Tells(queue', toDevice, r2, upload, on, stored)
      BY <1>2, <1>6, <3>1, IdleTells
    <3> QED
      BY <3>2, <3>3
  <2> QED
    BY <2>1, <2>2
<1> DEFINE e == <<>>
<1>8. Send(e) /\ IsSequence(e) /\ e = <<>>
  BY <1>1, ShortHolds
<1>9. on \in BOOLEAN /\ (on => link \notin {"down", "closing"})
  BY <1>2, <1>6
<1> HIDE DEF e, on
<1>10. toDevice \o e = toDevice
  BY <1>2, <1>8, JoinThree
<1>11. /\ Speaks(queue', IF on THEN toDevice \o e ELSE toDevice, r2, upload, on)
       /\ Tells(queue', IF on THEN toDevice \o e ELSE toDevice, r2, upload, on, stored)
  BY <1>7, <1>10
<1>12. Tells(queue', toDevice', r2, upload, on, stored)
  BY ONLY <1>2, <1>8, <1>9, <1>11, IsQueue(queue'), SentTells
<1>13. upload' = upload /\ stored' = stored
  BY <1>1 DEF deviceVars
<1>14. Tells(queue', toDevice', toClient', upload', link' = "up", stored')
  BY <1>1, <1>12, <1>13 DEF on
<1> QED
  BY <1>13, <1>14 DEF InTells

\* A connection is made, closes or is lost.
LEMMA LinksTell ==
    ASSUME InTalk, InTells, Spoken(toDevice, toClient, upload, link = "up"), IsQueue(queue),
           Handlers(queue), LinkOpens \/ LinkCloses \/ LinkLost
    PROVE  InTells'
<1> DEFINE live == link = "up"
<1>1. /\ Speaks(queue, toDevice, toClient, upload, live) /\ IsSequence(toDevice)
      /\ IsSequence(toClient) /\ Spoken(toDevice, toClient, upload, live)
      /\ Tells(queue, toDevice, toClient, upload, live, stored) /\ DOMAIN stored = Transfers
  BY DEF InTalk, InTells
<1>2. stored' = stored
  BY DEF LinkOpens, LinkCloses, LinkLost, deviceVars
<1>3. live = (link = "up")
  OBVIOUS
<1> HIDE DEF live
<1>4. CASE LinkOpens
  <2>1. /\ link = "down" /\ link' = "opening" /\ toClient = <<>>
        /\ UNCHANGED <<queue, toDevice, upload>>
    BY <1>4 DEF LinkOpens, InTalk, queueVars, deviceVars
  <2> DEFINE a == LockIs(holder # "none")
             b == InitComplete
             Plain(c) == c.type \notin {"data", "complete", "error"}
  <2>2. Plain(a) /\ Plain(b)
    BY DEF LockIs, InitComplete
  <2>3. toClient' = <<a>> \o <<b>> \/ toClient' = <<>> \o <<b>>
    BY <1>4 DEF LinkOpens
  <2> HIDE DEF a, b
  <2>4. \A r, c : Tells(queue, toDevice, r, upload, live, stored) /\ IsSequence(r) /\ Plain(c) =>
            Tells(queue, toDevice, r \o <<c>>, upload, live, stored)
    <3> SUFFICES ASSUME NEW r, NEW c, Tells(queue, toDevice, r, upload, live, stored),
                        IsSequence(r), Plain(c)
                 PROVE  Tells(queue, toDevice, r \o <<c>>, upload, live, stored)
      OBVIOUS
    <3>1. SameOrNone(upload, upload)
      BY DEF SameOrNone
    <3> QED
      BY <3>1, ToldTells
  <2>5. Tells(queue, toDevice, <<>>, upload, live, stored) /\ IsSequence(<<>>)
    BY <1>1, <2>1
  <2>6. <<>> \o <<a>> = <<a>> /\ IsSequence(<<a>>)
    BY ShortHolds, JoinThree, GivenSequences
  <2> HIDE DEF Plain
  <2>7. /\ Tells(queue, toDevice, <<>> \o <<a>>, upload, live, stored)
        /\ Tells(queue, toDevice, <<>> \o <<b>>, upload, live, stored)
    BY <2>2, <2>4, <2>5
  <2>8. Tells(queue, toDevice, <<a>> \o <<b>>, upload, live, stored)
    BY <2>2, <2>4, <2>6, <2>7
  <2>9. Tells(queue, toDevice, toClient', upload, live, stored)
    BY <2>3, <2>7, <2>8
  <2>10. live = (link' = "up")
    BY <1>3, <2>1
  <2>11. Tells(queue', toDevice', toClient', upload', link' = "up", stored')
    BY <1>2, <2>1, <2>9, <2>10
  <2> QED
    BY <1>1, <1>2, <2>11 DEF InTells
<1>5. CASE LinkCloses
  <2>1. link' = "closing" /\ UNCHANGED <<queue, toDevice, toClient, upload>>
    BY <1>5 DEF LinkCloses, queueVars, deviceVars, channels
  <2>2. Tells(queue, toDevice, toClient, upload, FALSE, stored)
    BY <1>1, DeafTells
  <2>3. Tells(queue', toDevice', toClient', upload', link' = "up", stored')
    BY <1>2, <2>1, <2>2
  <2> QED
    BY <1>1, <1>2, <2>3 DEF InTells
<1>6. CASE LinkLost
  <2>1. /\ link' = "down" /\ StopCommandSending /\ toDevice' = <<>> /\ toClient' = <<>>
        /\ upload'.of = NoTransfer
    BY <1>6 DEF LinkLost, NoUpload
  <2>2. Speaks(queue', toDevice, toClient, upload, live) /\ ~IsActive(queue')
    BY <1>1, <2>1, SendingTalks
  <2>3. Tells(queue', toDevice, toClient, upload, live, stored)
    BY <1>1, <2>1, SendingTells
  <2>4. \A u2, on : u2.of = NoTransfer => Tells(queue', <<>>, <<>>, u2, on, stored)
    BY <1>1, <2>2, <2>3, CutTells
  <2>5. Tells(queue', toDevice', toClient', upload', link' = "up", stored')
    BY <1>2, <2>1, <2>4
  <2> QED
    BY <1>1, <1>2, <2>5 DEF InTells
<1> QED
  BY <1>4, <1>5, <1>6

\* The device speaks of its own accord.
LEMMA TellsTell ==
    ASSUME InTalk, InTells, IsQueue(queue), Handlers(queue),
           (\E t \in Transfers : Kind[t] = "clip") => Errors = {},
           DeviceContinues \/ DeviceFails \/ OtherLocks \/ OtherUnlocks \/ DeviceRevokes
    PROVE  InTells'
<1> DEFINE live == link = "up"
           clips == \E t \in Transfers : Kind[t] = "clip"
           Plain(c) == c.type \notin {"data", "complete"} /\ (clips => c.type # "error")
<1>1. /\ IsSequence(toClient) /\ DOMAIN upload = DOMAIN NoUpload
      /\ Tells(queue, toDevice, toClient, upload, live, stored) /\ DOMAIN stored = Transfers
  BY DEF InTalk, InTells
<1>2. UNCHANGED <<queue, link, toDevice, stored>>
  BY DEF DeviceContinues, DeviceFails, OtherLocks, OtherUnlocks, DeviceRevokes, Grant, queueVars
<1> HIDE DEF live
<1>3. /\ \A x : Plain(LockIs(x))
      /\ Plain(Obtained) /\ \A id, n : Plain(AskForMore(id, n))
      /\ ~clips => \A id, code : Plain(Failure(id, code))
  BY DEF LockIs, Obtained, AskForMore, Failure
<1> HIDE DEF clips
<1>4. SameOrNone(upload, upload) /\ SameOrNone(NoUpload, upload)
  BY DEF SameOrNone, NoUpload
<1>5. \E d : /\ Plain(d) /\ SameOrNone(upload', upload)
             /\ toClient' = toClient \o <<d>> \/ toClient' = toClient \o <<d, LockIs(TRUE)>>
  <2>1. CASE DeviceContinues
    <3>1. /\ toClient' = toClient \o <<AskForMore(upload.id, Credit)>>
          /\ upload' = [upload EXCEPT !.credit = Credit]
      BY <2>1 DEF DeviceContinues, Reply
    <3>2. SameOrNone(upload', upload)
      BY <1>1, <3>1 DEF SameOrNone, NoUpload
    <3> HIDE DEF Plain
    <3> QED
      BY <1>3, <3>1, <3>2
  <2>2. CASE DeviceFails
    <3>1. PICK code \in Errors : toClient' = toClient \o <<Failure(upload.id, code)>>
      BY <2>2 DEF DeviceFails, Reply
    <3>2. upload' = NoUpload /\ ~clips
      BY <2>2 DEF DeviceFails, clips
    <3> HIDE DEF Plain
    <3> QED
      BY <1>3, <1>4, <3>1, <3>2
  <2>3. CASE OtherLocks
    <3>1. toClient' = toClient \o <<LockIs(TRUE)>> /\ upload' = upload
      BY <2>3 DEF OtherLocks, Reply
    <3> HIDE DEF Plain
    <3> QED
      BY <1>3, <1>4, <3>1
  <2>4. CASE OtherUnlocks
    <3>1. /\ upload' = upload
          /\ \/ toClient' = toClient \o <<Obtained, LockIs(TRUE)>>
             \/ toClient' = toClient \o <<LockIs(FALSE)>>
      BY <2>4 DEF OtherUnlocks, Reply, Grant
    <3> HIDE DEF Plain
    <3> QED
      BY <1>3, <1>4, <3>1
  <2>5. CASE DeviceRevokes
    <3>1. toClient' = toClient \o <<LockIs(FALSE)>> /\ upload' = NoUpload
      BY <2>5 DEF DeviceRevokes, Reply
    <3> HIDE DEF Plain
    <3> QED
      BY <1>3, <1>4, <3>1
  <2> QED
    BY <2>1, <2>2, <2>3, <2>4, <2>5
<1>6. PICK d : /\ Plain(d) /\ SameOrNone(upload', upload)
               /\ toClient' = toClient \o <<d>> \/ toClient' = toClient \o <<d, LockIs(TRUE)>>
  BY <1>5
<1> DEFINE u2 == upload'
           r1 == toClient \o <<d>>
           e == LockIs(TRUE)
<1>7. SameOrNone(u2, upload)
  BY <1>6
<1> HIDE DEF u2, e
<1>8. Tells(queue, toDevice, r1, u2, live, stored)
  BY <1>1, <1>6, <1>7, ToldTells DEF clips
<1>9. IsSequence(r1)
  BY <1>1, OneMoreAt
<1> HIDE DEF r1
<1>10. Tells(queue, toDevice, r1 \o <<e>>, u2, live, stored)
  <2>1. SameOrNone(u2, u2) /\ Plain(e)
    BY <1>3 DEF SameOrNone, e
  <2> QED
    BY <1>8, <1>9, <2>1, ToldTells DEF clips
<1>11. r1 \o <<e>> = toClient \o <<d, e>>
  <2>1. <<d>> \o <<e>> = <<d, e>>
    BY TwoJoined
  <2>2. IsSequence(<<d>>) /\ IsSequence(<<e>>)
    BY GivenSequences
  <2>3. (toClient \o <<d>>) \o <<e>> = toClient \o (<<d>> \o <<e>>)
    BY <1>1, <2>2, JoinThree
  <2> QED
    BY <2>1, <2>3 DEF r1
<1>12. Tells(queue, toDevice, toClient', u2, live, stored)
  BY <1>6, <1>8, <1>10, <1>11 DEF e, r1
<1>13. live = (link' = "up")
  BY <1>2 DEF live
<1>14. Tells(queue', toDevice', toClient', upload', link' = "up", stored')
  BY <1>2, <1>12, <1>13 DEF u2
<1> QED
  BY <1>1, <1>2, <1>14 DEF InTells

\* The device takes a command and answers nothing, one thing or, giving the lock, two.
LEMMA TakesTell ==
    ASSUME InTalk, InTells, IsQueue(queue), Handlers(queue), Sized, DeviceReceives,
           ~((\E t \in Transfers : Kind[t] = "clip") /\ refused')
    PROVE  InTells'
<1> DEFINE live == link = "up"
           c == Head(toDevice)
           s2 == Tail(toDevice)
           Told == Tells(queue, s2, toClient', upload', live, stored') /\ DOMAIN stored' = Transfers
<1>1. Taking(queue, toDevice, toClient, upload, live, stored)
  BY DEF InTalk, InTells, Speaks, DeviceReceives, Taking
<1>2. /\ IsSequence(toClient) /\ DOMAIN upload = DOMAIN NoUpload /\ DOMAIN stored = Transfers
  BY DEF InTalk, InTells
<1>3. toDevice' = s2 /\ UNCHANGED <<queue, link>>
  BY DEF DeviceReceives, queueVars
<1>4. DevLock(c) \/ DevUnlock(c) \/ DevRequest(c) \/ DevDescription(c) \/ DevData(c)
      \/ DevDataAck(c) \/ DevClip(c)
  BY DEF DeviceReceives
<1>5. Asked(queue.fields, Way(queue, toDevice, live), upload)
  BY <1>1, TakingIs
<1> HIDE DEF live
<1>6. \A x : Other(LockIs(x)) /\ Other(Obtained) /\ Other(InitComplete)
  BY DEF LockIs, Obtained, InitComplete, Other, Parts, Answers
<1>7. ASSUME SameOrNone(upload', upload), stored' = stored,
             \/ toClient' = toClient
             \/ \E d : Other(d) /\ toClient' = toClient \o <<d>>
      PROVE  Told
  <2>1. PICK d : Other(d) /\ (toClient' = toClient \/ toClient' = toClient \o <<d>>)
    BY <1>6, <1>7
  <2> DEFINE u2 == upload'
             r2 == toClient'
  <2>2. SameOrNone(u2, upload) /\ (r2 = toClient \/ r2 = toClient \o <<d>>)
    BY <1>7, <2>1
  <2> HIDE DEF u2, r2
  <2>3. Tells(queue, s2, r2, u2, live, stored)
    BY <1>1, <2>1, <2>2, PassTells
  <2> QED
    BY <1>2, <1>7, <2>3 DEF u2, r2
<1>8. SameOrNone(upload, upload) /\ SameOrNone(NoUpload, upload)
  BY DEF SameOrNone, NoUpload
<1>9. ASSUME UNCHANGED <<upload, stored, toClient>> PROVE Told
  BY <1>7, <1>8, <1>9
<1>10. ASSUME DevLock(c) \/ DevUnlock(c) \/ DevClip(c) PROVE Told
  <2>1. stored' = stored /\ SameOrNone(upload', upload)
    BY <1>8, <1>10 DEF DevLock, DevUnlock, DevClip, deviceVars
  <2>2. \/ toClient' = toClient
        \/ \E x : toClient' = toClient \o <<LockIs(x)>>
        \/ toClient' = toClient \o <<Obtained, LockIs(TRUE)>> /\ upload' = upload
    BY <1>10 DEF DevLock, DevUnlock, DevClip, Grant, Reply
  <2>3. CASE toClient' = toClient
    BY <1>7, <2>1, <2>3
  <2>4. CASE \E x : toClient' = toClient \o <<LockIs(x)>>
    BY <1>6, <1>7, <2>1, <2>4
  <2>5. CASE toClient' = toClient \o <<Obtained, LockIs(TRUE)>> /\ upload' = upload
    <3> DEFINE d == Obtained
               e == LockIs(TRUE)
               r1 == toClient \o <<d>>
    <3>1. Other(d) /\ e.type \notin {"data", "complete", "error"}
      BY <1>6 DEF LockIs
    <3> HIDE DEF d, e
    <3>2. (r1 = toClient \/ r1 = toClient \o <<d>>) /\ SameOrNone(upload, upload)
      BY <1>8
    <3> HIDE DEF r1
    <3>3. Tells(queue, s2, r1, upload, live, stored)
      BY <1>1, <3>1, <3>2, PassTells
    <3>4. IsSequence(r1)
      BY <1>2, OneMoreAt DEF r1
    <3> HIDE DEF s2
    <3>5. Tells(queue, s2, r1 \o <<e>>, upload, live, stored)
      BY <1>8, <3>1, <3>3, <3>4, ToldTells
    <3>6. r1 \o <<e>> = toClient \o <<d, e>>
      <4>1. <<d>> \o <<e>> = <<d, e>>
        BY TwoJoined
      <4>2. IsSequence(<<d>>) /\ IsSequence(<<e>>)
        BY GivenSequences
      <4>3. (toClient \o <<d>>) \o <<e>> = toClient \o (<<d>> \o <<e>>)
        BY <1>2, <4>2, JoinThree
      <4> QED
        BY <4>1, <4>3 DEF r1
    <3>7. toClient' = r1 \o <<e>> /\ upload' = upload /\ stored' = stored
      BY <2>1, <2>5, <3>6 DEF d, e
    <3> QED
      BY <1>2, <3>5, <3>7
  <2> QED
    BY <2>2, <2>3, <2>4, <2>5
<1>11. ASSUME DevRequest(c) PROVE Told
  <2> DEFINE u2 == upload'
             r2 == toClient'
  <2>1. c.type = "request" /\ stored' = stored
    BY <1>11 DEF DevRequest
  <2>2. \E d : /\ d.id = c.id
               /\ \/ /\ u2.id = c.id /\ u2.of = c.of /\ u2.frame = c.frame /\ u2.got = 0
                     /\ d.type = "data" /\ (r2 = toClient \/ r2 = toClient \o <<d>>)
                  \/ /\ u2 = upload /\ d.type = "error" /\ r2 = toClient \o <<d>>
                     /\ ~\E t \in Transfers : Kind[t] = "clip"
    <3>1. CASE Locking /\ holder # "us"
      <4> DEFINE d == Failure(c.id, "NotLocked")
      <4>1. r2 = toClient \o <<d>> /\ u2 = upload /\ refused' = TRUE
        BY <1>11, <3>1 DEF DevRequest, Reply
      <4>2. d.type = "error" /\ d.id = c.id
        BY DEF Failure
      <4> HIDE DEF d, u2, r2
      <4> QED
        BY <4>1, <4>2
    <3>2. CASE ~(Locking /\ holder # "us")
      <4> DEFINE d == Data(c.id, 1)
      <4>1. u2 = [NoUpload EXCEPT !.id = c.id, !.of = c.of, !.frame = c.frame]
        BY <1>11, <3>2 DEF DevRequest
      <4>2. u2.id = c.id /\ u2.of = c.of /\ u2.frame = c.frame /\ u2.got = 0
        BY <4>1 DEF NoUpload
      <4>3. r2 = toClient \/ r2 = toClient \o <<d>>
        BY <1>11, <3>2 DEF DevRequest, Reply
      <4>4. d.type = "data" /\ d.id = c.id
        BY DEF Data
      <4> HIDE DEF d, u2, r2
      <4> QED
        BY <4>2, <4>3, <4>4
    <3> QED
      BY <3>1, <3>2
  <2> HIDE DEF u2, r2
  <2>3. Tells(queue, s2, r2, u2, live, stored)
    BY <1>1, <2>1, <2>2, BegunTells
  <2> QED
    BY <1>2, <2>1, <2>3 DEF u2, r2
<1>12. ASSUME DevDescription(c) PROVE Told
  <2>1. /\ upload' = [upload EXCEPT !.described = @ \/ upload.id = c.id]
        /\ UNCHANGED <<stored, toClient>>
    BY <1>12 DEF DevDescription
  <2>2. SameOrNone(upload', upload)
    BY <1>2, <2>1 DEF SameOrNone, NoUpload
  <2> QED
    BY <1>7, <2>1, <2>2
<1>13. ASSUME At(upload, c.id), c.type \in {"data", "dataAck"},
              ~(upload.got + 1 < Chunks[upload.of]), upload' = NoUpload,
              stored' = [stored EXCEPT ![upload.of] = @ \union {upload.frame}],
              toClient' = toClient \o <<AllReceived(c.id)>>
       PROVE  Told
  <2> DEFINE d == AllReceived(c.id)
             u2 == upload'
             r2 == toClient'
             e2 == stored'
             t == upload.of
  <2>1. u2.of = NoTransfer /\ Is(d, "complete", upload.id) /\ r2 = toClient \o <<d>>
    BY <1>13 DEF NoUpload, Is, AllReceived, At
  <2>2. t \in Transfers
    BY <1>5, <1>13 DEF Asked, At
  <2>3. /\ DOMAIN e2 = Transfers /\ e2[t] = stored[t] \union {upload.frame}
        /\ \A y \in Transfers : y # t => e2[y] = stored[y]
    BY <1>2, <1>13, <2>2
  <2> HIDE DEF d, u2, r2, e2
  <2>4. Tells(queue, s2, toClient \o <<d>>, u2, live, e2)
    BY <1>1, <1>13, <2>1, <2>3, StoredAllTells
  <2> QED
    BY <2>1, <2>3, <2>4 DEF u2, r2, e2
<1>14. ASSUME DevData(c) PROVE Told
  <2>1. CASE ~At(upload, c.id)
    BY <1>9, <1>14, <2>1 DEF DevData, At
  <2>2. CASE At(upload, c.id)
    <3>1. c.type = "data"
      BY <1>14 DEF DevData
    <3>2. CASE upload.got + 1 < Chunks[upload.of]
      <4> DEFINE u2 == upload'
      <4>1. /\ u2 = [upload EXCEPT !.got = @ + 1, !.credit = @ - 1]
            /\ UNCHANGED <<stored, toClient>>
        BY <1>14, <2>2, <3>2 DEF DevData, At
      <4>2. u2.of = upload.of /\ u2.id = upload.id /\ u2.frame = upload.frame
        BY <1>2, <4>1 DEF NoUpload
      <4> HIDE DEF u2
      <4>3. Tells(queue, s2, toClient, u2, live, stored)
        BY <1>1, <2>2, <3>1, <4>2, ChunkTells
      <4> QED
        BY <1>2, <4>1, <4>3 DEF u2
    <3>3. CASE ~(upload.got + 1 < Chunks[upload.of])
      <4>1. /\ upload' = NoUpload
            /\ stored' = [stored EXCEPT ![upload.of] = @ \union {upload.frame}]
            /\ toClient' = toClient \o <<AllReceived(c.id)>>
        BY <1>14, <2>2, <3>3 DEF DevData, At, Reply
      <4> QED
        BY <1>13, <2>2, <3>1, <3>3, <4>1
    <3> QED
      BY <3>2, <3>3
  <2> QED
    BY <2>1, <2>2
<1>15. ASSUME DevDataAck(c) PROVE Told
  <2>1. CASE ~At(upload, c.id)
    BY <1>9, <1>15, <2>1 DEF DevDataAck, At
  <2>2. CASE At(upload, c.id)
    <3>1. c.type = "dataAck" /\ c.id = upload.id
      BY <1>15, <2>2 DEF DevDataAck, At
    <3>2. CASE upload.got + 1 < Chunks[upload.of]
      <4> DEFINE u2 == upload'
                 d == Data(c.id, upload.got + 2)
                 r2 == toClient'
      <4>1. u2 = [upload EXCEPT !.got = @ + 1] /\ stored' = stored /\ r2 = toClient \o <<d>>
        BY <1>15, <2>2, <3>2 DEF DevDataAck, At, Reply
      <4>2. /\ u2.of = upload.of /\ u2.id = upload.id /\ u2.frame = upload.frame
            /\ u2.got = upload.got + 1
        BY <1>2, <4>1 DEF NoUpload
      <4>3. Is(d, "data", upload.id)
        BY <3>1 DEF Is, Data
      <4> HIDE DEF u2, d, r2
      <4>4. Tells(queue, s2, toClient \o <<d>>, u2, live, stored)
        BY <1>1, <2>2, <3>1, <3>2, <4>2, <4>3, NextTells
      <4> QED
        BY <1>2, <4>1, <4>4 DEF u2, r2
    <3>3. CASE ~(upload.got + 1 < Chunks[upload.of])
      <4>1. /\ upload' = NoUpload
            /\ stored' = [stored EXCEPT ![upload.of] = @ \union {upload.frame}]
            /\ toClient' = toClient \o <<AllReceived(c.id)>>
        BY <1>15, <2>2, <3>3 DEF DevDataAck, At, Reply
      <4> QED
        BY <1>13, <2>2, <3>1, <3>3, <4>1
    <3> QED
      BY <3>2, <3>3
  <2> QED
    BY <2>1, <2>2
<1>16. Told
  BY <1>4, <1>10, <1>11, <1>12, <1>14, <1>15
<1>17. live = (link' = "up")
  BY <1>3 DEF live
<1>18. Tells(queue', toDevice', toClient', upload', link' = "up", stored')
  BY <1>3, <1>16, <1>17
<1> QED
  BY <1>16, <1>18 DEF InTells

\* Requests of clips are not refused.
ClipsAreHeld == (\E t \in Transfers : Kind[t] = "clip") => RequestsHoldLock

\* The device reports no error when there are clips.
ClipsMeetNoError == (\E t \in Transfers : Kind[t] = "clip") => Errors = {}

\* Every step of the pool keeps up what is told.
LEMMA PoolStepTells ==
    ASSUME MaxTransferIndex >= 3, Sized, ClipsMeetNoError, InOrder(queue, interval),
           InOrder(queue, interval)', FrameIdIsFree, NextIdsAreUnused, ClipsAreHeld', InTalk, InTells,
           [PoolNext]_poolVars
    PROVE  InTells'
<1>1. Spoken(toDevice, toClient, upload, link = "up")
  BY InSpoken
<1>2. Handlers(queue) /\ IsQueue(queue)
  BY DEF InOrder, Good, Begun
<1>3. IsQueue(queue')
  BY DEF InOrder, Good, Begun
<1>4. CASE UserEnqueues \/ HandlerResumes \/ SendingFails
  BY <1>1, <1>3, <1>4, ClientTells
<1>5. CASE IntervalTicks
  BY <1>1, <1>3, <1>5, TicksTell
<1>6. CASE ClientReceives
  BY <1>1, <1>3, <1>6, ReceivesTell
<1>7. CASE LinkOpens \/ LinkCloses \/ LinkLost
  BY <1>1, <1>2, <1>7, LinksTell
<1>8. CASE DeviceReceives
  <2>1. ~((\E t \in Transfers : Kind[t] = "clip") /\ refused')
    BY DEF ClipsAreHeld, RequestsHoldLock
  <2> QED
    BY <1>2, <1>8, <2>1, TakesTell
<1>9. CASE DeviceContinues \/ DeviceFails \/ OtherLocks \/ OtherUnlocks \/ DeviceRevokes
  BY <1>2, <1>9, TellsTell DEF ClipsMeetNoError
<1>10. CASE UNCHANGED poolVars
  <2>1. UNCHANGED <<queue, toDevice, toClient, upload, link, stored>>
    BY <1>10 DEF poolVars, queueVars, channels, deviceVars
  <2> QED
    BY <2>1 DEF InTells
<1> QED
  BY <1>4, <1>5, <1>6, <1>7, <1>8, <1>9, <1>10 DEF PoolNext

\* A new pool: nothing is taken, stored or resolved.
LEMMA NewPoolTells ==
    ASSUME PoolInit
    PROVE  InTells
<1>1. queue = NewQueue /\ link = "down" /\ toDevice = <<>> /\ toClient = <<>> /\ upload = NoUpload
      /\ stored = [t \in Transfers |-> {}]
  BY DEF PoolInit, QueueInit
<1>2. /\ ~IsActive(queue) /\ queue.waiting = <<>> /\ queue.running.wait = "idle"
      /\ \A t \in Transfers : queue.fields[t] = NewTransfer
  BY <1>1 DEF NewQueue, NoActive, Idle, IsActive
<1>3. \A t \in Transfers : Account(t, queue.fields[t], stored[t])
  <2> SUFFICES ASSUME NEW t \in Transfers PROVE Account(t, queue.fields[t], stored[t])
    OBVIOUS
  <2>1. /\ queue.fields[t].numFrames = 0 /\ queue.fields[t].promise # "resolved"
        /\ stored[t] = {}
    BY <1>1, <1>2 DEF NewTransfer
  <2>2. Frames[t] \in Nat
    BY TransfersAssumption
  <2> QED
    BY <2>1, <2>2 DEF Account
<1>4. Way(queue, <<>>, FALSE) = <<>>
  BY DEF Way
<1>5. Asked(queue.fields, <<>>, upload)
  BY <1>1 DEF Asked, NoUpload
<1>6. NoFailure(queue.waiting, <<>>)
  BY <1>2, ShortHolds DEF NoFailure, Heard
<1>7. TakenStored(queue, stored)
  BY <1>2 DEF TakenStored
<1>8. Tells(queue, <<>>, <<>>, upload, FALSE, stored)
  BY <1>2, <1>3, <1>4, <1>5, <1>6, <1>7 DEF Tells
<1>9. (link = "up") = FALSE /\ DOMAIN stored = Transfers
  BY <1>1
<1>10. Tells(queue, toDevice, toClient, upload, link = "up", stored)
  BY <1>1, <1>8, <1>9
<1> QED
  BY <1>9, <1>10 DEF InTells

\* A promise resolves only if all of the transfer is done: every frame of a clip is stored, every
\* chunk of a download is there once (dataTransfer.ts:34-37, dataTransferUploadClip.ts,
\* dataTransferDownloadBuffer.ts), whatever is lost, revoked or aborted in between.  A download
\* has data, and the device asks for no retry; a frame of a clip that the device gives up or
\* refuses is passed over by the code, hence the hypotheses on clips.
THEOREM ResolvedIsAlwaysDone ==
    ASSUME MaxTransferIndex >= 3, "Retry" \notin Errors, Sized, ClipsMeetNoError
    PROVE  PoolSpec /\ []FrameIdIsFree /\ []NextIdsAreUnused /\ []ClipsAreHeld => []ResolvedIsDone
<1>1. PoolInit => InTalk /\ InTells
  BY NewPoolTalks, NewPoolTells
<1>2. InOrder(queue, interval) /\ FrameIdIsFree /\ NextIdsAreUnused /\ InTalk /\ [PoolNext]_poolVars
      => InTalk'
  BY PoolStepTalks
<1>3. /\ InOrder(queue, interval) /\ InOrder(queue, interval)' /\ FrameIdIsFree /\ NextIdsAreUnused
      /\ ClipsAreHeld' /\ InTalk /\ InTells /\ [PoolNext]_poolVars
      => InTells'
  BY PoolStepTells
<1>4. PoolSpec /\ []FrameIdIsFree => []InOrder(queue, interval)
  BY PoolInOrder
<1>5. InTells => ResolvedIsDone
  <2> SUFFICES ASSUME InTells, NEW t \in Transfers, PromiseOf(t) = "resolved"
               PROVE  IsDone(t, queue.fields[t], stored[t])
    BY DEF ResolvedIsDone, IsDone
  <2>1. Account(t, queue.fields[t], stored[t]) /\ queue.fields[t].promise = "resolved"
    BY DEF InTells, Tells, PromiseOf
  <2> QED
    BY <2>1 DEF Account
<1> QED
  BY <1>1, <1>2, <1>3, <1>4, <1>5, PTL DEF PoolSpec

\* The same of a client that has the pool to itself: its requests are not refused, since they
\* hold the lock (dataTransferQueue.ts:245-259), and a clip that resolves is stored as a whole.
COROLLARY ResolvedAloneIsDone ==
    ASSUME Alone, "Retry" \notin Errors, Sized, ClipsMeetNoError
    PROVE  PoolSpec /\ []FrameIdIsFree /\ []NextIdIsNew /\ []NextIdsAreUnused => []ResolvedIsDone
<1>1. PoolSpec /\ []FrameIdIsFree /\ []NextIdIsNew => []RequestsHoldLock
  BY RequestsAlwaysHoldLock
<1>2. RequestsHoldLock => ClipsAreHeld
  BY DEF ClipsAreHeld
<1>3. PoolSpec /\ []FrameIdIsFree /\ []NextIdsAreUnused /\ []ClipsAreHeld => []ResolvedIsDone
  BY ResolvedIsAlwaysDone DEF Alone
<1> QED
  BY <1>1, <1>2, <1>3, PTL
=============================================================================
