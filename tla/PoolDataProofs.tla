----------------------------- MODULE PoolDataProofs -----------------------------
(***************************************************************************)
(* The data of a media pool's transfers, for every number of transfers,    *)
(* chunks, frames and ids.  What the client has said or is about to say    *)
(* (Way), what the device is at and what it has answered are one dialog    *)
(* for every transfer (Dialog): a request, then the chunks in order, then  *)
(* an end after which neither side speaks of it.  The first part says what *)
(* keeps a dialog up, the second what the handlers of the queue say in it, *)
(* the third that every event of the pool does (InTalk).  From it follows  *)
(* that the device stores whole data.                                      *)
(***************************************************************************)
EXTENDS PoolLockProofs, SequenceTheorems

-----------------------------------------------------------------------------
(* The data of a transfer *)

\* What is given to the interval when the running handler is done.
Given(q) ==
    IF ~Own(q) THEN <<>>
    ELSE IF q.running.wait = "store" THEN q.running.result.commands
    ELSE IF q.running.wait = "nextFrame" THEN q.running.commands
    ELSE <<>>

\* What will reach the device, in this order, if the connection lasts.
Unsent(q) == q.active.queuedCommands \o Given(q)
Way(q, s, live) == IF live THEN s \o Unsent(q) ELSE s

\* The state the active transfer will have when the running handler is done; a clip that
\* awaits its next frame is in none.
StateOf(q) ==
    IF ~Own(q) THEN q.active.state
    ELSE IF q.running.wait = "store" THEN q.running.result.newState
    ELSE IF q.running.wait = "nextFrame" THEN "Between"
    ELSE q.active.state

\* Commands about the transfer of a number, and what the device and the client have of it.
Parts == {"description", "data"}
Other(c) == c.type \notin {"request", "dataAck"} \union Parts \union Answers
About(c, id) == c.type \in {"request", "dataAck"} \union Parts \union Answers /\ c.id = id
At(u, id) == u.of # NoTransfer /\ u.id = id
Requested(p, id) == \E i \in DOMAIN p : p[i].type = "request" /\ p[i].id = id
Heard(w, r, c) == Holds(r, c) \/ Holds(w, Handle(c))
Silent(id, w, r) == \A c : Heard(w, r, c) => ~About(c, id)
Free(id, w, p, r, u) ==
    (\A i \in DOMAIN p : ~About(p[i], id)) /\ Silent(id, w, r) /\ ~At(u, id)
Over(id, w, p, r, u) == ~Requested(p, id) /\ Silent(id, w, r) /\ ~At(u, id)

\* The description counts as chunk 0.  The device has the chunks up to c of a transfer, or
\* will have them when it has taken n commands.
Chunk(id, c) == IF c = 0 THEN Description(id) ELSE Data(id, c)
Reaches(p, n, u, id, c) ==
    IF n = 0 THEN At(u, id) => u.got = c /\ u.described
             ELSE p[n] = Chunk(id, c)

\* What is on its way to the device is one chunk after the other of one transfer after
\* the other.
Chained(p, u) ==
    \A i \in DOMAIN p :
        /\ p[i].type = "data" => /\ p[i].chunk \in Nat \ {0}
                                 /\ Reaches(p, i - 1, u, p[i].id, p[i].chunk - 1)
        /\ p[i].type = "description" =>
              /\ At(u, p[i].id) => u.got = 0
              /\ \A j \in DOMAIN p : j < i /\ p[j].type = "data" => p[j].id # p[i].id
        /\ p[i].type \in Parts => (At(u, p[i].id) => Kind[u.of] # "download")
        /\ p[i].type = "dataAck" => (At(u, p[i].id) => Kind[u.of] = "download")
        /\ p[i].type = "request" =>
              /\ ~At(u, p[i].id) /\ p[i].of \in Transfers
              /\ \A j \in DOMAIN p : j > i => ~About(p[j], p[i].id)

\* Nothing more is said of a transfer that is complete or has failed.
Ends(c, id) == c.type \in {"complete", "error"} /\ c.id = id
LastWord(id, w, r, u) ==
    /\ \A c : Heard(w, r, c) /\ Ends(c, id) => ~At(u, id)
    /\ \A i, j \in DOMAIN r : i < j /\ Ends(r[i], id) => ~About(r[j], id)
    /\ \A i, j \in DOMAIN w :
          i < j /\ Ends(w[i].command, id) => ~About(w[j].command, id)
    /\ \A i \in DOMAIN w, j \in DOMAIN r : Ends(w[i].command, id) => ~About(r[j], id)

\* What client and device have told each other of transfer t: first it is unknown, then
\* requested and acknowledged; no answer comes before the request or after the end.
Exchange(id, t, w, p, r, u) ==
    /\ \A i \in DOMAIN p : p[i].type = "request" /\ p[i].id = id =>
          p[i].of = t /\ Silent(id, w, r)
    /\ At(u, id) => u.of = t
    /\ LastWord(id, w, r, u)

\* An upload that has begun: nothing of it is sent yet, or all chunks so far, or it is over.
Uploads(id, moved, chunks, state, w, p, r, u, live) ==
    /\ moved \in 0 .. chunks
    /\ \A i \in DOMAIN p : p[i].type = "dataAck" => p[i].id # id
    /\ \A c : Heard(w, r, c) /\ c.type = "data" => c.id # id
    /\ \/ Over(id, w, p, r, u)
       \/ /\ state = "Ready" /\ moved = 0
          /\ \A i \in DOMAIN p : p[i].type \in Parts => p[i].id # id
          /\ At(u, id) => u.got = 0
          /\ \A c : Heard(w, r, c) /\ c.type = "complete" => c.id # id
       \/ /\ state = "Transferring"
          /\ live => Reaches(p, Len(p), u, id, moved)
          /\ ~Requested(p, id)

\* The states of a transfer, and the one of a clip between two frames.
States == {"Pending", "Ready", "Transferring", "Finished", "Between"}

\* The dialog about a transfer: while it is pending, nothing was said yet.
Dialog(id, t, moved, state, w, p, r, u, live) ==
    /\ state \in States
    /\ state = "Pending" => Free(id, w, p, r, u) /\ moved = 0
    /\ Exchange(id, t, w, p, r, u)
    /\ Kind[t] # "download" => Uploads(id, moved, Chunks[t], state, w, p, r, u, live)

\* Tasks are new; a clip whose frame is awaited is not begun again.
Lined(q) ==
    /\ \A i, j \in DOMAIN q.tasks : q.tasks[i] = q.tasks[j] => i = j
    /\ \A t : Holds(q.tasks, t) => q.fields[t] = NewTransfer /\ t # q.active.of
    /\ q.running.wait \in {"firstFrame", "nextFrame"} =>
          /\ ~Holds(q.tasks, q.running.of)
          /\ IsActive(q) /\ q.active.of = q.running.of => Own(q)
    /\ q.running.wait = "firstFrame" /\ Own(q) => q.active.state = "Pending"
    /\ q.running.wait = "nextFrame" =>
          q.running.commands = <<>> /\ (Own(q) => q.active.state \in States \ {"Pending"})
    /\ ~IsActive(q) => q.active.queuedCommands = <<>>
    /\ \A i \in DOMAIN q.waiting : q.waiting[i].command.type \in Answers
    /\ IsActive(q) /\ StateOf(q) = "Pending" => q.active.queuedCommands = <<>> /\ Given(q) = <<>>

\* No transfer is asked to begin again.
Answer(c) == /\ c.type = "error" => c.code # "Retry"
             /\ c.type = "continue" => c.count \in Nat

\* The dialog about the active transfer, and all that client and device have told each other
\* of any: s and r are what is on its way to the device and to the client.
DialogOf(q, p, r, u, live) ==
    Dialog(q.active.id, q.active.of, q.fields[q.active.of].moved, StateOf(q), q.waiting, p, r, u, live)

Talks(q, s, r, u, live) ==
    /\ Lined(q)
    /\ \A c : Heard(q.waiting, r, c) => Answer(c)
    /\ Chained(Way(q, s, live), u)
    /\ IsActive(q) => DialogOf(q, Way(q, s, live), r, u, live)
    /\ q.lockCommands # <<>> /\ IsActive(q) => StateOf(q) = "Pending"

\* The next two numbers are those of no transfer any more.
NextIdsAreUnused ==
    \A id \in {queue.nextId, After(queue.nextId)} :
        Free(id, queue.waiting, Way(queue, toDevice, link = "up"), toClient, upload)

\* One more command is sent.
LEMMA MoreChained ==
    ASSUME NEW p, NEW u, NEW c, IsSequence(p), Chained(p, u),
           c.type = "data" => /\ c.chunk \in Nat \ {0}
                              /\ Reaches(p, Len(p), u, c.id, c.chunk - 1),
           c.type = "description" =>
               /\ At(u, c.id) => u.got = 0
               /\ \A j \in DOMAIN p : p[j].type = "data" => p[j].id # c.id,
           c.type \in Parts => (At(u, c.id) => Kind[u.of] # "download"),
           c.type = "dataAck" => (At(u, c.id) => Kind[u.of] = "download"),
           c.type = "request" => ~At(u, c.id) /\ c.of \in Transfers,
           \A i \in DOMAIN p : p[i].type = "request" => ~About(c, p[i].id)
    PROVE  Chained(p \o <<c>>, u)
<1> DEFINE t == p \o <<c>>
<1>1. /\ IsSequence(t) /\ Len(p) \in Nat /\ Len(t) = Len(p) + 1
      /\ DOMAIN p = 1 .. Len(p) /\ DOMAIN t = 1 .. Len(p) + 1
      /\ t[Len(p) + 1] = c /\ \A i \in 1 .. Len(p) : t[i] = p[i]
  BY OneMoreAt
<1> HIDE DEF t
<1>2. ASSUME NEW i \in DOMAIN t, NEW id, NEW n PROVE Reaches(p, i - 1, u, id, n) <=> Reaches(t, i - 1, u, id, n)
  BY <1>1, <1>2 DEF Reaches
<1>3. ASSUME NEW i \in DOMAIN t
      PROVE
        /\ t[i].type = "data" => /\ t[i].chunk \in Nat \ {0}
                                 /\ Reaches(t, i - 1, u, t[i].id, t[i].chunk - 1)
        /\ t[i].type = "description" =>
              /\ At(u, t[i].id) => u.got = 0
              /\ \A j \in DOMAIN t : j < i /\ t[j].type = "data" => t[j].id # t[i].id
        /\ t[i].type \in Parts => (At(u, t[i].id) => Kind[u.of] # "download")
        /\ t[i].type = "dataAck" => (At(u, t[i].id) => Kind[u.of] = "download")
        /\ t[i].type = "request" =>
              /\ ~At(u, t[i].id) /\ t[i].of \in Transfers
              /\ \A j \in DOMAIN t : j > i => ~About(t[j], t[i].id)
  <2>1. CASE i = Len(p) + 1
    <3>1. t[i] = c /\ i - 1 = Len(p) /\ \A j \in DOMAIN t : ~(j > i)
      BY <1>1, <2>1
    <3>2. t[i].type = "data" => /\ t[i].chunk \in Nat \ {0}
                                /\ Reaches(t, i - 1, u, t[i].id, t[i].chunk - 1)
      BY <1>2, <3>1
    <3>3. t[i].type = "description" => \A j \in DOMAIN t : j < i /\ t[j].type = "data" => t[j].id # t[i].id
      BY <1>1, <2>1, <3>1
    <3> QED
      BY <3>1, <3>2, <3>3
  <2>2. CASE i \in 1 .. Len(p)
    <3>1. t[i] = p[i] /\ i \in DOMAIN p /\ \A j \in DOMAIN t : j < i => j \in DOMAIN p /\ t[j] = p[j]
      BY <1>1, <2>2
    <3>2. p[i].type = "data" => /\ p[i].chunk \in Nat \ {0}
                                /\ Reaches(t, i - 1, u, p[i].id, p[i].chunk - 1)
      BY <1>2, <3>1 DEF Chained
    <3>3. p[i].type = "request" => \A j \in DOMAIN t : j > i => ~About(t[j], p[i].id)
      BY <1>1, <3>1 DEF Chained
    <3> QED
      BY <3>1, <3>2, <3>3 DEF Chained
  <2> QED
    BY <1>1, <2>1, <2>2
<1>4. Chained(t, u)
  BY <1>3 DEF Chained
<1> QED
  BY <1>4 DEF t

\* The next chunks follow the last one.
LEMMA ChunksChained ==
    ASSUME NEW p, NEW u, NEW id, NEW moved \in Nat, NEW n \in Nat, IsSequence(p), Chained(p, u),
           Reaches(p, Len(p), u, id, moved), ~Requested(p, id), At(u, id) => Kind[u.of] # "download"
    PROVE  LET d == [i \in 1 .. n |-> Data(id, moved + i)]
           IN  /\ IsSequence(p \o d) /\ Chained(p \o d, u)
               /\ Reaches(p \o d, Len(p \o d), u, id, moved + n)
               /\ \A c : Holds(p \o d, c) => Holds(p, c) \/ (c.type = "data" /\ c.id = id)
<1> DEFINE d == [i \in 1 .. n |-> Data(id, moved + i)]
<1> DEFINE S == {Data(id, moved + i) : i \in 1 .. n}
<1>0. \A i \in 1 .. n : Data(id, moved + i) \in S
  OBVIOUS
<1> HIDE DEF S
<1>1. d \in Seq(S) /\ Len(d) = n /\ \A i \in 1 .. n : d[i] = Data(id, moved + i)
  BY <1>0
<1>2. IsSequence(d)
  BY <1>1 DEF IsSequence
<1> HIDE DEF d
<1> DEFINE t == p \o d
<1>3. /\ IsSequence(t) /\ Len(p) \in Nat /\ Len(t) = Len(p) + n
      /\ DOMAIN p = 1 .. Len(p) /\ DOMAIN d = 1 .. n /\ DOMAIN t = 1 .. Len(p) + n
      /\ \A i \in 1 .. Len(p) : t[i] = p[i]
      /\ \A i \in 1 .. n : t[Len(p) + i] = d[i]
  <2>1. /\ IsSequence(t) /\ Len(p) \in Nat /\ Len(t) = Len(p) + Len(d)
        /\ DOMAIN p = 1 .. Len(p) /\ DOMAIN d = 1 .. Len(d) /\ DOMAIN t = 1 .. Len(p) + Len(d)
        /\ \A i \in 1 .. Len(p) : t[i] = p[i]
        /\ \A i \in 1 .. Len(d) : t[Len(p) + i] = d[i]
    BY ONLY IsSequence(p), <1>2, JoinAt
  <2> HIDE DEF t
  <2> QED
    BY ONLY <1>1, <2>1
<1> HIDE DEF t
<1>4. ASSUME NEW i \in 1 .. n
      PROVE  /\ d[i].type = "data" /\ d[i].id = id /\ d[i].chunk = moved + i
             /\ d[i] = Chunk(id, moved + i)
  BY <1>1, <1>4 DEF Data, Chunk
<1>5. ASSUME NEW i \in DOMAIN t
      PROVE  \/ i \in DOMAIN p /\ t[i] = p[i]
             \/ \E k \in 1 .. n : i = Len(p) + k /\ t[i] = d[k]
  <2>1. CASE i <= Len(p)
    BY <1>3, <2>1
  <2>2. CASE ~(i <= Len(p))
    <3>1. i - Len(p) \in 1 .. n /\ i = Len(p) + (i - Len(p))
      BY <1>3, <2>2
    <3> QED
      BY <1>3, <3>1
  <2> QED
    BY <2>1, <2>2
<1>6. ASSUME NEW k \in 1 .. n
      PROVE  Reaches(t, Len(p) + k - 1, u, id, moved + k - 1)
  <2>1. CASE k = 1
    <3>1. Len(p) + k - 1 = Len(p) /\ moved + k - 1 = moved
      BY <1>3, <2>1
    <3>2. Len(p) # 0 => t[Len(p)] = p[Len(p)]
      BY <1>3
    <3> QED
      BY <3>1, <3>2 DEF Reaches
  <2>2. CASE k # 1
    <3>1. k - 1 \in 1 .. n /\ Len(p) + k - 1 = Len(p) + (k - 1) /\ Len(p) + k - 1 # 0
          /\ moved + k - 1 = moved + (k - 1)
      BY <1>3, <2>2
    <3>2. t[Len(p) + (k - 1)] = d[k - 1] /\ d[k - 1] = Chunk(id, moved + (k - 1))
      BY <1>3, <1>4, <3>1
    <3> QED
      BY <3>1, <3>2 DEF Reaches
  <2> QED
    BY <2>1, <2>2
<1>7. ASSUME NEW i \in DOMAIN t
      PROVE
        /\ t[i].type = "data" => /\ t[i].chunk \in Nat \ {0}
                                 /\ Reaches(t, i - 1, u, t[i].id, t[i].chunk - 1)
        /\ t[i].type = "description" =>
              /\ At(u, t[i].id) => u.got = 0
              /\ \A j \in DOMAIN t : j < i /\ t[j].type = "data" => t[j].id # t[i].id
        /\ t[i].type \in Parts => (At(u, t[i].id) => Kind[u.of] # "download")
        /\ t[i].type = "dataAck" => (At(u, t[i].id) => Kind[u.of] = "download")
        /\ t[i].type = "request" =>
              /\ ~At(u, t[i].id) /\ t[i].of \in Transfers
              /\ \A j \in DOMAIN t : j > i => ~About(t[j], t[i].id)
  <2>1. CASE \E k \in 1 .. n : i = Len(p) + k /\ t[i] = d[k]
    <3>1. PICK k \in 1 .. n : i = Len(p) + k /\ t[i] = d[k]
      BY <2>1
    <3>2. t[i].type = "data" /\ t[i].id = id /\ t[i].chunk = moved + k
      BY <1>4, <3>1
    <3>3. i - 1 = Len(p) + k - 1 /\ t[i].chunk - 1 = moved + k - 1 /\ t[i].chunk \in Nat \ {0}
      BY <1>3, <3>1, <3>2
    <3>4. Reaches(t, i - 1, u, t[i].id, t[i].chunk - 1)
      BY <1>6, <3>2, <3>3
    <3> QED
      BY <3>2, <3>3, <3>4
  <2>2. CASE i \in DOMAIN p /\ t[i] = p[i]
    <3>1. \A j \in DOMAIN t : j < i => j \in DOMAIN p /\ t[j] = p[j]
      BY <1>3, <2>2
    <3>2. p[i].type = "data" => Reaches(p, i - 1, u, p[i].id, p[i].chunk - 1)
      BY <2>2 DEF Chained
    <3>3. i - 1 # 0 => t[i - 1] = p[i - 1]
      BY <1>3, <2>2
    <3>4. p[i].type = "data" => Reaches(t, i - 1, u, p[i].id, p[i].chunk - 1)
      BY <3>2, <3>3 DEF Reaches
    <3>5. ASSUME p[i].type = "request", NEW j \in DOMAIN t, j > i
          PROVE  ~About(t[j], p[i].id)
      <4>1. CASE j \in DOMAIN p /\ t[j] = p[j]
        BY <2>2, <3>5, <4>1 DEF Chained
      <4>2. CASE \E k \in 1 .. n : j = Len(p) + k /\ t[j] = d[k]
        BY <1>4, <2>2, <3>5, <4>2 DEF Requested, About
      <4> QED
        BY <1>5, <3>5, <4>1, <4>2
    <3> QED
      BY <2>2, <3>1, <3>4, <3>5 DEF Chained
  <2> QED
    BY <1>5, <1>7, <2>1, <2>2
<1>8. Chained(t, u)
  BY <1>7 DEF Chained
<1>9. Reaches(t, Len(t), u, id, moved + n)
  <2>1. CASE n = 0
    <3>1. Len(t) = Len(p) /\ moved + n = moved /\ (Len(p) # 0 => t[Len(p)] = p[Len(p)])
      BY <1>3, <2>1
    <3> QED
      BY <3>1 DEF Reaches
  <2>2. CASE n # 0
    <3>1. t[Len(p) + n] = d[n] /\ d[n] = Chunk(id, moved + n) /\ Len(t) = Len(p) + n /\ Len(t) # 0
      BY <1>3, <1>4, <2>2
    <3> QED
      BY <3>1 DEF Reaches
  <2> QED
    BY <2>1, <2>2
<1>10. ASSUME NEW c, Holds(t, c) PROVE Holds(p, c) \/ (c.type = "data" /\ c.id = id)
  <2>1. PICK i \in DOMAIN t : t[i] = c
    BY <1>10 DEF Holds
  <2> QED
    BY <1>4, <1>5, <2>1 DEF Holds
<1> QED
  BY <1>3, <1>8, <1>9, <1>10 DEF t, d

\* What is on its way, without what follows.
LEMMA PrefixChained ==
    ASSUME NEW s, NEW t, NEW u, IsSequence(s), IsSequence(t), Chained(s \o t, u)
    PROVE  Chained(s, u)
<1> DEFINE p == s \o t
<1>1. /\ Len(s) \in Nat /\ Len(t) \in Nat /\ DOMAIN s = 1 .. Len(s) /\ DOMAIN p = 1 .. Len(s) + Len(t)
      /\ \A i \in 1 .. Len(s) : p[i] = s[i]
  BY JoinAt
<1> HIDE DEF p
<1>2. ASSUME NEW i \in DOMAIN s
      PROVE
        /\ s[i].type = "data" => /\ s[i].chunk \in Nat \ {0}
                                 /\ Reaches(s, i - 1, u, s[i].id, s[i].chunk - 1)
        /\ s[i].type = "description" =>
              /\ At(u, s[i].id) => u.got = 0
              /\ \A j \in DOMAIN s : j < i /\ s[j].type = "data" => s[j].id # s[i].id
        /\ s[i].type \in Parts => (At(u, s[i].id) => Kind[u.of] # "download")
        /\ s[i].type = "dataAck" => (At(u, s[i].id) => Kind[u.of] = "download")
        /\ s[i].type = "request" =>
              /\ ~At(u, s[i].id) /\ s[i].of \in Transfers
              /\ \A j \in DOMAIN s : j > i => ~About(s[j], s[i].id)
  <2>1. i \in DOMAIN p /\ p[i] = s[i] /\ \A j \in DOMAIN s : j \in DOMAIN p /\ p[j] = s[j]
    BY <1>1
  <2>2. Chained(p, u)
    BY DEF p
  <2>3. s[i].type = "data" => Reaches(p, i - 1, u, s[i].id, s[i].chunk - 1)
    BY <2>1, <2>2 DEF Chained
  <2>4. i - 1 # 0 => p[i - 1] = s[i - 1]
    BY <1>1
  <2>5. s[i].type = "data" => Reaches(s, i - 1, u, s[i].id, s[i].chunk - 1)
    BY <2>3, <2>4 DEF Reaches
  <2> QED
    BY <2>1, <2>2, <2>5 DEF Chained
<1> QED
  BY <1>2 DEF Chained

\* What the device makes of a command: nothing more of a transfer, a new one, or the next
\* piece of the one it has.
Drops(u2) == u2.of = NoTransfer
Begins(c, u2) == c.type = "request" /\ u2.of = c.of /\ u2.id = c.id /\ u2.got = 0
GoesOn(c, u, u2) ==
    /\ u2.of = u.of /\ u2.id = u.id
    /\ c.type = "description" /\ c.id = u.id => u2.got = u.got /\ u2.described
    /\ c.type \in {"data", "dataAck"} /\ c.id = u.id =>
           u2.got = u.got + 1 /\ (u2.described <=> u.described)
    /\ c.type \notin {"description", "data", "dataAck"} \/ c.id # u.id =>
           u2.got = u.got /\ (u2.described <=> u.described)

\* The device takes a command: what follows is still in order.
LEMMA TakenChained ==
    ASSUME NEW p, NEW u, NEW u2, IsSequence(p), p # <<>>, Chained(p, u),
           Drops(u2) \/ Begins(Head(p), u2) \/ GoesOn(Head(p), u, u2)
    PROVE  Chained(Tail(p), u2)
<1> DEFINE t == Tail(p)
           h == Head(p)
<1>1. /\ Len(p) \in Nat /\ DOMAIN p = 1 .. Len(p) /\ DOMAIN t = 1 .. Len(p) - 1
      /\ 1 \in DOMAIN p /\ h = p[1]
      /\ \A i \in DOMAIN t : i \in Nat /\ i >= 1 /\ i + 1 \in DOMAIN p /\ t[i] = p[i + 1]
  BY RestAt
<1>2. Drops(u2) \/ Begins(h, u2) \/ GoesOn(h, u, u2)
  OBVIOUS
<1> HIDE DEF t, h
<1>3. ASSUME NEW i \in DOMAIN t, t[i].type = "data"
      PROVE  t[i].chunk \in Nat \ {0} /\ Reaches(t, i - 1, u2, t[i].id, t[i].chunk - 1)
  <2> DEFINE id == t[i].id
             c == t[i].chunk
  <2>1. c \in Nat \ {0} /\ Reaches(p, i, u, id, c - 1) /\ i # 0
    <3>1. i + 1 \in DOMAIN p /\ t[i] = p[i + 1] /\ (i + 1) - 1 = i /\ i # 0
      BY <1>1, <1>3
    <3> QED
      BY <1>3, <3>1 DEF Chained
  <2> HIDE DEF id, c
  <2>2. p[i] = Chunk(id, c - 1)
    BY <2>1 DEF Reaches
  <2>3. CASE i # 1
    <3>1. i - 1 \in DOMAIN t /\ i - 1 # 0 /\ (i - 1) + 1 = i
      BY <1>1, <1>3, <2>3
    <3>2. t[i - 1] = p[i]
      BY <1>1, <3>1
    <3> QED
      BY <2>1, <2>2, <3>1, <3>2 DEF Reaches, id, c
  <2>4. CASE i = 1
    <3>1. h = Chunk(id, c - 1)
      BY <1>1, <2>2, <2>4
    <3>2. ASSUME At(u2, id) PROVE u2.got = c - 1 /\ u2.described
      <4>1. h.type \in Parts /\ h.id = id
        BY <3>1 DEF Chunk, Description, Data, Parts
      <4>2. GoesOn(h, u, u2)
        BY <1>2, <3>2, <4>1 DEF Drops, Begins, At, Parts
      <4>3. At(u, id) /\ u.id = id
        BY <3>2, <4>2 DEF GoesOn, At
      <4>4. CASE c - 1 = 0
        <5>1. h.type = "description"
          BY <3>1, <4>4 DEF Chunk, Description
        <5>2. u.got = 0
          BY <1>1, <4>1, <4>3, <5>1 DEF Chained
        <5> QED
          BY <4>1, <4>2, <4>3, <4>4, <5>1, <5>2 DEF GoesOn
      <4>5. CASE c - 1 # 0
        <5>1. h.type = "data" /\ h.chunk = c - 1
          BY <3>1, <4>5 DEF Chunk, Data
        <5>2. Reaches(p, 0, u, id, c - 1 - 1)
          BY <1>1, <4>1, <5>1 DEF Chained
        <5>3. u.got = c - 1 - 1 /\ u.described
          BY <4>3, <5>2 DEF Reaches
        <5> QED
          BY <2>1, <4>1, <4>2, <4>3, <5>1, <5>3 DEF GoesOn
      <4> QED
        BY <4>4, <4>5
    <3> QED
      BY <2>1, <2>4, <3>2 DEF Reaches, id, c
  <2> QED
    BY <2>3, <2>4
<1>4. ASSUME NEW i \in DOMAIN t, NEW id, About(t[i], id)
      PROVE  At(u2, id) => GoesOn(h, u, u2) /\ At(u, id)
  <2>1. ~Begins(h, u2) \/ ~At(u2, id)
    <3>1. i + 1 \in DOMAIN p /\ t[i] = p[i + 1] /\ i + 1 > 1
      BY <1>1, <1>4
    <3>2. h.type = "request" => ~About(p[i + 1], h.id)
      BY <1>1, <3>1 DEF Chained
    <3> QED
      BY <1>4, <3>1, <3>2 DEF Begins, At
  <2> QED
    BY <1>2, <2>1 DEF Drops, At, GoesOn
<1>5. ASSUME NEW i \in DOMAIN t
      PROVE  /\ t[i].type = "description" =>
                   \A j \in DOMAIN t : j < i /\ t[j].type = "data" => t[j].id # t[i].id
             /\ t[i].type \in Parts => (At(u, t[i].id) => Kind[u.of] # "download")
             /\ t[i].type = "dataAck" => (At(u, t[i].id) => Kind[u.of] = "download")
             /\ t[i].type = "request" =>
                   /\ ~At(u, t[i].id) /\ t[i].of \in Transfers
                   /\ \A j \in DOMAIN t : j > i => ~About(t[j], t[i].id)
             /\ t[i].type = "description" => (At(u, t[i].id) => u.got = 0)
             /\ t[i].type = "description" /\ h.type = "data" => h.id # t[i].id
  <2>1. i + 1 \in DOMAIN p /\ t[i] = p[i + 1] /\ 1 < i + 1
        /\ \A j \in DOMAIN t : /\ j + 1 \in DOMAIN p /\ t[j] = p[j + 1]
                               /\ (j < i => j + 1 < i + 1) /\ (j > i => j + 1 > i + 1)
    BY <1>1, <1>5
  <2> QED
    BY <1>1, <2>1 DEF Chained
<1>6. ASSUME NEW i \in DOMAIN t
      PROVE
        /\ t[i].type = "description" => (At(u2, t[i].id) => u2.got = 0)
        /\ t[i].type \in Parts => (At(u2, t[i].id) => Kind[u2.of] # "download")
        /\ t[i].type = "dataAck" => (At(u2, t[i].id) => Kind[u2.of] = "download")
        /\ t[i].type = "request" => ~At(u2, t[i].id)
  <2> DEFINE id == t[i].id
  <2>1. t[i].type \in {"request", "dataAck"} \union Parts => About(t[i], id)
    BY DEF About
  <2>2. ASSUME t[i].type \in {"request", "dataAck"} \union Parts, At(u2, id)
        PROVE  GoesOn(h, u, u2) /\ At(u, id) /\ u2.of = u.of /\ u.id = id
    BY <1>4, <1>6, <2>1, <2>2 DEF GoesOn, At
  <2>3. ASSUME t[i].type = "description", At(u2, id) PROVE u2.got = 0
    <3>1. GoesOn(h, u, u2) /\ At(u, id) /\ u.id = id
      BY <2>2, <2>3 DEF Parts
    <3>2. u.got = 0 /\ (h.type = "data" => h.id # id)
      BY <1>5, <1>6, <2>3, <3>1
    <3>3. h.type = "dataAck" => h.id # id
      <4>1. h.type = "dataAck" /\ h.id = id => Kind[u.of] = "download"
        BY <1>1, <3>1 DEF Chained
      <4>2. Kind[u.of] # "download"
        BY <1>5, <1>6, <2>3, <3>1 DEF Parts
      <4> QED
        BY <4>1, <4>2
    <3> QED
      BY <3>1, <3>2, <3>3 DEF GoesOn
  <2>4. t[i].type = "request" => ~At(u2, id)
    BY <1>5, <1>6, <2>2
  <2>5. /\ t[i].type \in Parts => (At(u2, id) => Kind[u2.of] # "download")
        /\ t[i].type = "dataAck" => (At(u2, id) => Kind[u2.of] = "download")
    BY <1>5, <1>6, <2>2
  <2> QED
    BY <2>3, <2>4, <2>5
<1>7. Chained(t, u2)
  BY <1>3, <1>5, <1>6 DEF Chained
<1> QED
  BY <1>7 DEF t

-----------------------------------------------------------------------------
(* What was told of the active transfer *)

\* Less is heard, and nothing else changes.
LEMMA LessHeard ==
    ASSUME NEW id, NEW t, NEW moved, NEW state, NEW w, NEW p, NEW r, NEW u, NEW live,
           NEW w2, NEW r2, Dialog(id, t, moved, state, w, p, r, u, live),
           \A c : Heard(w2, r2, c) => Heard(w, r, c),
           LastWord(id, w, r, u) => LastWord(id, w2, r2, u)
    PROVE  Dialog(id, t, moved, state, w2, p, r2, u, live)
<1>1. Silent(id, w, r) => Silent(id, w2, r2)
  BY DEF Silent
<1>2. Exchange(id, t, w2, p, r2, u)
  BY <1>1 DEF Dialog, Exchange
<1>3. Over(id, w, p, r, u) => Over(id, w2, p, r2, u)
  BY <1>1 DEF Over
<1>4. Free(id, w, p, r, u) => Free(id, w2, p, r2, u)
  BY <1>1 DEF Free
<1>5. Uploads(id, moved, Chunks[t], state, w, p, r, u, live)
      => Uploads(id, moved, Chunks[t], state, w2, p, r2, u, live)
  BY <1>3 DEF Uploads
<1> QED
  BY <1>2, <1>4, <1>5 DEF Dialog

\* Less is on its way, and nothing else changes.
LEMMA LessSent ==
    ASSUME NEW id, NEW t, NEW moved, NEW state, NEW w, NEW p, NEW r, NEW u, NEW live,
           NEW p2, NEW live2, Dialog(id, t, moved, state, w, p, r, u, live),
           \A i \in DOMAIN p2 : \E j \in DOMAIN p : p2[i] = p[j],
           live2 => live /\ p2 = p
    PROVE  Dialog(id, t, moved, state, w, p2, r, u, live2)
<1>1. Requested(p2, id) => Requested(p, id)
  BY DEF Requested
<1>2. Exchange(id, t, w, p2, r, u)
  BY DEF Dialog, Exchange
<1>3. Over(id, w, p, r, u) => Over(id, w, p2, r, u)
  BY <1>1 DEF Over
<1>4. Free(id, w, p, r, u) => Free(id, w, p2, r, u)
  BY DEF Free
<1>5. Uploads(id, moved, Chunks[t], state, w, p, r, u, live)
      => Uploads(id, moved, Chunks[t], state, w, p2, r, u, live2)
  BY <1>1, <1>3 DEF Uploads
<1> QED
  BY <1>2, <1>4, <1>5 DEF Dialog

\* The next answer is taken from those that wait ...
LEMMA HandledHeard ==
    ASSUME NEW id, NEW w, NEW r, NEW u, IsSequence(w), w # <<>>, LastWord(id, w, r, u)
    PROVE  /\ LastWord(id, Tail(w), r, u)
           /\ \A c : Heard(Tail(w), r, c) => Heard(w, r, c)
           /\ Ends(Head(w).command, id) => Silent(id, Tail(w), r)
<1>1. /\ Len(w) \in Nat /\ DOMAIN w = 1 .. Len(w) /\ DOMAIN Tail(w) = 1 .. Len(w) - 1
      /\ 1 \in DOMAIN w /\ Head(w) = w[1]
      /\ \A i \in DOMAIN Tail(w) : i \in Nat /\ i >= 1 /\ i + 1 \in DOMAIN w /\ Tail(w)[i] = w[i + 1]
  BY RestAt
<1>2. \A c : Heard(Tail(w), r, c) => Heard(w, r, c)
  BY TailHolds DEF Heard
<1>3. \A i, j \in DOMAIN Tail(w) :
          i < j /\ Ends(Tail(w)[i].command, id) => ~About(Tail(w)[j].command, id)
  <2> TAKE i, j \in DOMAIN Tail(w)
  <2>1. i < j => i + 1 < j + 1
    BY <1>1
  <2> QED
    BY <1>1, <2>1 DEF LastWord
<1>4. \A i \in DOMAIN Tail(w), j \in DOMAIN r : Ends(Tail(w)[i].command, id) => ~About(r[j], id)
  BY <1>1 DEF LastWord
<1>5. LastWord(id, Tail(w), r, u)
  BY <1>2, <1>3, <1>4 DEF LastWord
<1>6. ASSUME Ends(Head(w).command, id), NEW c, Heard(Tail(w), r, c) PROVE ~About(c, id)
  <2>1. CASE Holds(r, c)
    BY <1>1, <1>6, <2>1 DEF LastWord, Holds
  <2>2. CASE Holds(Tail(w), Handle(c))
    <3>1. PICK i \in DOMAIN Tail(w) : Tail(w)[i] = Handle(c)
      BY <2>2 DEF Holds
    <3>2. i + 1 \in DOMAIN w /\ w[i + 1] = Handle(c) /\ 1 < i + 1
      BY <1>1, <3>1
    <3>3. w[i + 1].command = c
      BY <3>2 DEF Handle
    <3> QED
      BY <1>1, <1>6, <3>2, <3>3 DEF LastWord
  <2> QED
    BY <1>6, <2>1, <2>2 DEF Heard
<1> QED
  BY <1>2, <1>5, <1>6 DEF Silent

\* ... from those on their way ...
LEMMA ReceivedHeard ==
    ASSUME NEW id, NEW w, NEW r, NEW u, IsSequence(r), r # <<>>, LastWord(id, w, r, u)
    PROVE  /\ LastWord(id, w, Tail(r), u)
           /\ \A c : Heard(w, Tail(r), c) => Heard(w, r, c)
<1>1. /\ Len(r) \in Nat /\ DOMAIN r = 1 .. Len(r) /\ DOMAIN Tail(r) = 1 .. Len(r) - 1
      /\ \A i \in DOMAIN Tail(r) : i \in Nat /\ i >= 1 /\ i + 1 \in DOMAIN r /\ Tail(r)[i] = r[i + 1]
  BY RestAt
<1>2. \A c : Heard(w, Tail(r), c) => Heard(w, r, c)
  BY TailHolds DEF Heard
<1>3. \A i, j \in DOMAIN Tail(r) : i < j /\ Ends(Tail(r)[i], id) => ~About(Tail(r)[j], id)
  <2> TAKE i, j \in DOMAIN Tail(r)
  <2>1. i < j => i + 1 < j + 1
    BY <1>1
  <2> QED
    BY <1>1, <2>1 DEF LastWord
<1>4. \A i \in DOMAIN w, j \in DOMAIN Tail(r) : Ends(w[i].command, id) => ~About(Tail(r)[j], id)
  BY <1>1 DEF LastWord
<1>5. LastWord(id, w, Tail(r), u)
  BY <1>2, <1>3, <1>4 DEF LastWord
<1> QED
  BY <1>2, <1>5

\* ... or put from the latter to the former.
LEMMA WaitsHeard ==
    ASSUME NEW id, NEW w, NEW r, NEW u, IsSequence(w), IsSequence(r), r # <<>>,
           LastWord(id, w, r, u)
    PROVE  LET v == Append(w, Handle(Head(r)))
           IN  /\ LastWord(id, v, Tail(r), u)
               /\ \A c : Heard(v, Tail(r), c) => Heard(w, r, c)
<1> DEFINE v == Append(w, Handle(Head(r)))
<1>1. /\ Len(r) \in Nat /\ DOMAIN r = 1 .. Len(r) /\ DOMAIN Tail(r) = 1 .. Len(r) - 1
      /\ 1 \in DOMAIN r /\ Head(r) = r[1]
      /\ \A i \in DOMAIN Tail(r) : i \in Nat /\ i >= 1 /\ i + 1 \in DOMAIN r /\ Tail(r)[i] = r[i + 1]
  BY RestAt
<1>2. PICK S : w \in Seq(S)
  BY DEF IsSequence
<1>3. /\ Len(w) \in Nat /\ DOMAIN w = 1 .. Len(w) /\ DOMAIN v = 1 .. Len(w) + 1
      /\ v[Len(w) + 1] = Handle(Head(r)) /\ \A i \in 1 .. Len(w) : v[i] = w[i]
  <2> DEFINE T == S \union {Handle(Head(r))}
  <2>1. w \in Seq(T) /\ Handle(Head(r)) \in T
    BY <1>2
  <2> HIDE DEF T
  <2> QED
    BY <2>1
<1>4. \A x : Holds(v, x) <=> Holds(w, x) \/ x = Handle(Head(r))
  BY AppendHolds
<1> HIDE DEF v
<1>5. Holds(r, Head(r)) /\ \A x : Holds(Tail(r), x) => Holds(r, x)
  BY TailHolds
<1>6. ASSUME NEW c, Heard(v, Tail(r), c) PROVE Heard(w, r, c)
  <2>1. Handle(c) = Handle(Head(r)) => c = Head(r)
    BY DEF Handle
  <2> QED
    BY <1>4, <1>5, <1>6, <2>1 DEF Heard
<1>7. ASSUME NEW i \in DOMAIN v
      PROVE  \/ i \in DOMAIN w /\ v[i] = w[i]
             \/ i = Len(w) + 1 /\ v[i].command = r[1]
  <2>1. Handle(Head(r)).command = r[1]
    BY <1>1 DEF Handle
  <2> QED
    BY <1>3, <1>7, <2>1
<1>8. \A i, j \in DOMAIN v : i < j /\ Ends(v[i].command, id) => ~About(v[j].command, id)
  <2> SUFFICES ASSUME NEW i \in DOMAIN v, NEW j \in DOMAIN v, i < j, Ends(v[i].command, id)
               PROVE  ~About(v[j].command, id)
    OBVIOUS
  <2>1. i \in DOMAIN w /\ v[i] = w[i]
    BY <1>3, <1>7
  <2>2. CASE j \in DOMAIN w /\ v[j] = w[j]
    BY <2>1, <2>2 DEF LastWord
  <2>3. CASE v[j].command = r[1]
    BY <1>1, <2>1, <2>3 DEF LastWord
  <2> QED
    BY <1>7, <2>2, <2>3
<1>9. \A i \in DOMAIN v, j \in DOMAIN Tail(r) : Ends(v[i].command, id) => ~About(Tail(r)[j], id)
  <2> SUFFICES ASSUME NEW i \in DOMAIN v, NEW j \in DOMAIN Tail(r), Ends(v[i].command, id)
               PROVE  ~About(Tail(r)[j], id)
    OBVIOUS
  <2>1. Tail(r)[j] = r[j + 1] /\ j + 1 \in DOMAIN r /\ 1 < j + 1
    BY <1>1
  <2>2. CASE i \in DOMAIN w /\ v[i] = w[i]
    BY <2>1, <2>2 DEF LastWord
  <2>3. CASE v[i].command = r[1]
    BY <1>1, <2>1, <2>3 DEF LastWord
  <2> QED
    BY <1>7, <2>2, <2>3
<1>10. \A i, j \in DOMAIN Tail(r) : i < j /\ Ends(Tail(r)[i], id) => ~About(Tail(r)[j], id)
  BY ReceivedHeard DEF LastWord
<1>11. \A c : Heard(v, Tail(r), c) /\ Ends(c, id) => ~At(u, id)
  BY <1>6 DEF LastWord
<1>12. LastWord(id, v, Tail(r), u)
  BY <1>8, <1>9, <1>10, <1>11 DEF LastWord
<1> QED
  BY <1>6, <1>12 DEF v

-----------------------------------------------------------------------------
(* Sequences, one after another *)

\* It does not matter which are put together first, and nothing added is nothing changed.
LEMMA JoinThree ==
    ASSUME NEW s, NEW t, NEW v, IsSequence(s), IsSequence(t), IsSequence(v)
    PROVE  /\ IsSequence(s \o t) /\ IsSequence(t \o v)
           /\ (s \o t) \o v = s \o (t \o v)
           /\ s \o <<>> = s /\ <<>> \o s = s
<1>1. PICK S, T, V : s \in Seq(S) /\ t \in Seq(T) /\ v \in Seq(V)
  BY DEF IsSequence
<1> DEFINE W == S \union T \union V
<1>2. s \in Seq(W) /\ t \in Seq(W) /\ v \in Seq(W)
  BY <1>1
<1> HIDE DEF W
<1>3. (s \o t) \o v = s \o (t \o v)
  BY <1>2, ConcatAssociative
<1>4. s \o <<>> = s /\ <<>> \o s = s
  BY <1>2, ConcatEmptySeq
<1> QED
  BY <1>3, <1>4, JoinAt

\* The head of the first is the head of both.
LEMMA JoinTail ==
    ASSUME NEW s, NEW t, IsSequence(s), IsSequence(t), s # <<>>
    PROVE  s \o t # <<>> /\ Head(s \o t) = Head(s) /\ Tail(s \o t) = Tail(s) \o t
<1>1. PICK S, T : s \in Seq(S) /\ t \in Seq(T)
  BY DEF IsSequence
<1> DEFINE W == S \union T
<1>2. s \in Seq(W) /\ t \in Seq(W)
  BY <1>1
<1> HIDE DEF W
<1>3. /\ Tail(s) \in Seq(W) /\ Len(Tail(s)) = Len(s) - 1 /\ Len(s) \in Nat \ {0} /\ Len(t) \in Nat
      /\ \A i \in 1 .. Len(Tail(s)) : Tail(s)[i] = s[i + 1]
      /\ Head(s) = s[1]
  BY <1>2, HeadTailProperties
<1>4. /\ s \o t \in Seq(W) /\ Len(s \o t) = Len(s) + Len(t)
      /\ \A i \in 1 .. Len(s) + Len(t) : (s \o t)[i] = IF i <= Len(s) THEN s[i] ELSE t[i - Len(s)]
  BY <1>2, ConcatProperties
<1>5. /\ Tail(s) \o t \in Seq(W) /\ Len(Tail(s) \o t) = Len(Tail(s)) + Len(t)
      /\ \A i \in 1 .. Len(Tail(s)) + Len(t) :
            (Tail(s) \o t)[i] = IF i <= Len(Tail(s)) THEN Tail(s)[i] ELSE t[i - Len(Tail(s))]
  BY <1>2, <1>3, ConcatProperties
<1>6. s \o t # <<>>
  BY <1>2, <1>3, <1>4
<1>7. /\ Tail(s \o t) \in Seq(W) /\ Len(Tail(s \o t)) = Len(s) + Len(t) - 1
      /\ \A i \in 1 .. Len(s) + Len(t) - 1 : Tail(s \o t)[i] = (s \o t)[i + 1]
      /\ Head(s \o t) = (s \o t)[1]
  BY <1>4, <1>6, HeadTailProperties
<1>8. ASSUME NEW i \in 1 .. Len(s) + Len(t) - 1 PROVE Tail(s \o t)[i] = (Tail(s) \o t)[i]
  <2>1. i + 1 \in 1 .. Len(s) + Len(t) /\ i \in 1 .. Len(Tail(s)) + Len(t)
        /\ (i + 1 <= Len(s) <=> i <= Len(Tail(s)))
        /\ i + 1 - Len(s) = i - Len(Tail(s))
    BY <1>3, <1>8
  <2>2. i <= Len(Tail(s)) => Tail(s)[i] = s[i + 1]
    BY <1>3, <1>8
  <2> QED
    BY <1>4, <1>5, <1>7, <1>8, <2>1, <2>2
<1>9. Len(Tail(s \o t)) = Len(Tail(s) \o t)
  BY <1>3, <1>5, <1>7
<1>10. Tail(s \o t) = Tail(s) \o t
  BY <1>5, <1>7, <1>8, <1>9, SeqEqual
<1>11. Head(s \o t) = Head(s)
  BY <1>3, <1>4, <1>7
<1> QED
  BY <1>6, <1>10, <1>11

\* What comes first and what remains make up the whole.
LEMMA SplitJoins ==
    ASSUME NEW s, NEW n \in 0 .. Len(s), IsSequence(s)
    PROVE  SubSeq(s, 1, n) \o SubSeq(s, n + 1, Len(s)) = s
<1>1. PICK S : s \in Seq(S)
  BY DEF IsSequence
<1>2. /\ Len(s) \in Nat /\ 1 \in 1 .. Len(s) + 1 /\ n \in 1 - 1 .. Len(s) /\ Len(s) \in n .. Len(s)
  BY <1>1
<1>3. SubSeq(s, 1, n) \o SubSeq(s, n + 1, Len(s)) = SubSeq(s, 1, Len(s))
  BY <1>1, <1>2, ConcatAdjacentSubSeq
<1> QED
  BY <1>1, <1>3, SubSeqFull

-----------------------------------------------------------------------------
(* What else is sent *)

\* Commands follow that are not about the data of a transfer.
LEMMA OthersChained ==
    ASSUME NEW p, NEW l, NEW u, IsSequence(p), IsSequence(l), Chained(p, u),
           \A i \in DOMAIN l : Other(l[i])
    PROVE  Chained(p \o l, u)
<1> DEFINE t == p \o l
<1>1. /\ Len(p) \in Nat /\ Len(l) \in Nat /\ DOMAIN p = 1 .. Len(p) /\ DOMAIN l = 1 .. Len(l)
      /\ DOMAIN t = 1 .. Len(p) + Len(l)
      /\ \A i \in 1 .. Len(p) : t[i] = p[i]
      /\ \A i \in 1 .. Len(l) : t[Len(p) + i] = l[i]
  BY JoinAt
<1> HIDE DEF t
<1>2. ASSUME NEW i \in DOMAIN t
      PROVE  \/ i \in DOMAIN p /\ t[i] = p[i]
             \/ i > Len(p) /\ Other(t[i])
  <2>1. CASE i <= Len(p)
    BY <1>1, <2>1
  <2>2. CASE ~(i <= Len(p))
    <3>1. i - Len(p) \in 1 .. Len(l) /\ i = Len(p) + (i - Len(p))
      BY <1>1, <2>2
    <3> QED
      BY <1>1, <2>2, <3>1
  <2> QED
    BY <2>1, <2>2
<1>3. ASSUME NEW i \in DOMAIN t
      PROVE
        /\ t[i].type = "data" => /\ t[i].chunk \in Nat \ {0}
                                 /\ Reaches(t, i - 1, u, t[i].id, t[i].chunk - 1)
        /\ t[i].type = "description" =>
              /\ At(u, t[i].id) => u.got = 0
              /\ \A j \in DOMAIN t : j < i /\ t[j].type = "data" => t[j].id # t[i].id
        /\ t[i].type \in Parts => (At(u, t[i].id) => Kind[u.of] # "download")
        /\ t[i].type = "dataAck" => (At(u, t[i].id) => Kind[u.of] = "download")
        /\ t[i].type = "request" =>
              /\ ~At(u, t[i].id) /\ t[i].of \in Transfers
              /\ \A j \in DOMAIN t : j > i => ~About(t[j], t[i].id)
  <2>1. CASE Other(t[i])
    BY <2>1 DEF Other, Parts
  <2>2. CASE i \in DOMAIN p /\ t[i] = p[i]
    <3>1. \A j \in DOMAIN t : j < i => j \in DOMAIN p /\ t[j] = p[j]
      BY <1>1, <2>2
    <3>2. p[i].type = "data" => Reaches(p, i - 1, u, p[i].id, p[i].chunk - 1)
      BY <2>2 DEF Chained
    <3>3. i - 1 # 0 => t[i - 1] = p[i - 1]
      BY <1>1, <2>2
    <3>4. p[i].type = "data" => Reaches(t, i - 1, u, p[i].id, p[i].chunk - 1)
      BY <3>2, <3>3 DEF Reaches
    <3>5. ASSUME p[i].type = "request", NEW j \in DOMAIN t, j > i
          PROVE  ~About(t[j], p[i].id)
      <4>1. CASE j \in DOMAIN p /\ t[j] = p[j]
        BY <2>2, <3>5, <4>1 DEF Chained
      <4>2. CASE Other(t[j])
        BY <4>2 DEF About, Other
      <4> QED
        BY <1>2, <3>5, <4>1, <4>2
    <3> QED
      BY <2>2, <3>1, <3>4, <3>5 DEF Chained
  <2> QED
    BY <1>2, <1>3, <2>1, <2>2
<1>4. Chained(t, u)
  BY <1>3 DEF Chained
<1> QED
  BY <1>4 DEF t

\* They change nothing between client and device; only the chunks sent last are not the
\* last any more.
LEMMA OthersDialog ==
    ASSUME NEW id, NEW t, NEW moved, NEW state, NEW w, NEW p, NEW r, NEW u, NEW live,
           Dialog(id, t, moved, state, w, p, r, u, live), NEW p2,
           \A i \in DOMAIN p2 : Other(p2[i]) \/ \E j \in DOMAIN p : p2[i] = p[j],
           live => state # "Transferring" \/ p2 = p
    PROVE  Dialog(id, t, moved, state, w, p2, r, u, live)
<1>1. \A i \in DOMAIN p2 : Other(p2[i]) =>
          /\ p2[i].type \notin {"request", "dataAck"} \union Parts
          /\ ~About(p2[i], id)
  BY DEF Other, About
<1>2. Requested(p2, id) => Requested(p, id)
  BY <1>1 DEF Requested
<1>3. Exchange(id, t, w, p2, r, u)
  BY <1>1 DEF Dialog, Exchange
<1>4. Over(id, w, p, r, u) => Over(id, w, p2, r, u)
  BY <1>2 DEF Over
<1>5. Free(id, w, p, r, u) => Free(id, w, p2, r, u)
  BY <1>1 DEF Free
<1>6. Uploads(id, moved, Chunks[t], state, w, p, r, u, live)
      => Uploads(id, moved, Chunks[t], state, w, p2, r, u, live)
  <2> SUFFICES ASSUME Uploads(id, moved, Chunks[t], state, w, p, r, u, live)
               PROVE  Uploads(id, moved, Chunks[t], state, w, p2, r, u, live)
    OBVIOUS
  <2>1. /\ \A i \in DOMAIN p2 : p2[i].type = "dataAck" => p2[i].id # id
        /\ (\A i \in DOMAIN p : p[i].type \in Parts => p[i].id # id)
           => \A i \in DOMAIN p2 : p2[i].type \in Parts => p2[i].id # id
    BY <1>1 DEF Uploads
  <2> QED
    BY <1>2, <1>4, <2>1 DEF Uploads
<1> QED
  BY <1>3, <1>5, <1>6 DEF Dialog

-----------------------------------------------------------------------------
(* What a transfer begins with *)

\* A number that nobody speaks of is that of a transfer which has not begun.
LEMMA FreshDialog ==
    ASSUME NEW id, NEW t \in Transfers, NEW w, NEW p, NEW r, NEW u, NEW live,
           Free(id, w, p, r, u), \A h : Holds(w, h) => \E c : h = Handle(c)
    PROVE  Dialog(id, t, 0, "Pending", w, p, r, u, live)
<1>1. Chunks[t] \in Nat /\ 0 \in 0 .. Chunks[t]
  BY TransfersAssumption
<1>2. /\ \A i \in DOMAIN p : p[i].type \in {"request", "dataAck"} => p[i].id # id
      /\ \A c : Heard(w, r, c) => ~About(c, id)
      /\ ~At(u, id)
  BY DEF Free, Silent, About
<1>3. Over(id, w, p, r, u)
  BY <1>2 DEF Over, Requested, Silent
<1>4. \A c : c.type \in Answers /\ c.id = id => About(c, id)
  BY DEF About
<1>5. LastWord(id, w, r, u)
  <2>1. /\ \A i \in DOMAIN r : Heard(w, r, r[i])
    BY DEF Heard, Holds
  <2>2. \A i, j \in DOMAIN r : ~About(r[j], id)
    BY <1>2, <2>1
  <2>3. ASSUME NEW i \in DOMAIN w PROVE ~About(w[i].command, id)
    <3>1. PICK c : w[i] = Handle(c)
      BY <2>3 DEF Holds
    <3>2. w[i].command = c /\ Heard(w, r, c)
      BY <2>3, <3>1 DEF Handle, Heard, Holds
    <3> QED
      BY <1>2, <3>2
  <2> QED
    BY <1>2, <2>2, <2>3 DEF LastWord
<1> QED
  BY <1>1, <1>2, <1>3, <1>4, <1>5 DEF Dialog, Exchange, Uploads, States, Answers, Silent

\* Its request is sent.
LEMMA RequestDialog ==
    ASSUME NEW id, NEW t \in Transfers, NEW w, NEW p, NEW r, NEW u, NEW live, NEW frame, NEW p2,
           Free(id, w, p, r, u), \A h : Holds(w, h) => \E c : h = Handle(c), IsSequence(p),
           p2 = p \/ p2 = p \o <<Request(t, id, frame)>>
    PROVE  /\ Dialog(id, t, 0, "Ready", w, p2, r, u, live)
           /\ Chained(p, u) => Chained(p2, u)
<1> DEFINE c == Request(t, id, frame)
<1>1. c.type = "request" /\ c.id = id /\ c.of = t
  BY DEF Request
<1> HIDE DEF c
<1>2. p2 = p \/ p2 = p \o <<c>>
  BY DEF c
<1>3. \A i \in DOMAIN p2 : p2[i] = c \/ \E j \in DOMAIN p : p2[i] = p[j]
  <2>1. /\ DOMAIN (p \o <<c>>) = 1 .. Len(p) + 1 /\ Len(p) \in Nat /\ DOMAIN p = 1 .. Len(p)
        /\ (p \o <<c>>)[Len(p) + 1] = c /\ \A i \in 1 .. Len(p) : (p \o <<c>>)[i] = p[i]
    BY OneMoreAt
  <2>2. \A i \in DOMAIN (p \o <<c>>) : (p \o <<c>>)[i] = c \/ \E j \in DOMAIN p : (p \o <<c>>)[i] = p[j]
    BY <2>1
  <2> QED
    BY <1>2, <2>2
<1>4. Dialog(id, t, 0, "Pending", w, p, r, u, live)
  BY FreshDialog
<1>5. /\ \A i \in DOMAIN p : ~About(p[i], id)
      /\ Silent(id, w, r) /\ ~At(u, id)
  BY DEF Free
<1>6. \A i \in DOMAIN p2 : /\ p2[i].type = "request" /\ p2[i].id = id => p2[i].of = t
                           /\ p2[i].type \in {"dataAck"} \union Parts => p2[i].id # id
  BY <1>1, <1>3, <1>5 DEF About, Parts
<1>7. Exchange(id, t, w, p2, r, u)
  BY <1>4, <1>5, <1>6 DEF Dialog, Exchange
<1>8. Uploads(id, 0, Chunks[t], "Ready", w, p2, r, u, live)
  <2>1. \A d : Heard(w, r, d) /\ d.type \in {"data", "complete"} => d.id # id
    BY <1>5 DEF Silent, About, Answers
  <2>2. 0 \in 0 .. Chunks[t]
    BY TransfersAssumption
  <2> QED
    BY <1>5, <1>6, <2>1, <2>2 DEF Uploads
<1>9. Dialog(id, t, 0, "Ready", w, p2, r, u, live)
  BY <1>7, <1>8 DEF Dialog, States
<1>10. Chained(p, u) => Chained(p \o <<c>>, u)
  <2>1. \A i \in DOMAIN p : p[i].type = "request" => ~About(c, p[i].id)
    BY <1>1, <1>5 DEF About
  <2>2. c.type \notin Parts \union {"data", "description", "dataAck"}
    BY <1>1 DEF Parts
  <2>3. ~At(u, c.id) /\ c.of \in Transfers
    BY <1>1, <1>5
  <2> QED
    BY <1>1, <2>1, <2>2, <2>3, MoreChained
<1> QED
  BY <1>2, <1>9, <1>10

-----------------------------------------------------------------------------
(* What a transfer answers *)

\* The transfer was asked to answer, so that it is requested and not over.
LEMMA AskedDialog ==
    ASSUME NEW id, NEW t, NEW moved, NEW state, NEW w, NEW p, NEW r, NEW u, NEW live, NEW c,
           Dialog(id, t, moved, state, w, p, r, u, live), Heard(w, r, c), About(c, id)
    PROVE  /\ ~Silent(id, w, r) /\ ~Requested(p, id) /\ state # "Pending"
           /\ ~Over(id, w, p, r, u)
           /\ Ends(c, id) => ~At(u, id)
BY DEF Silent, Dialog, Exchange, LastWord, Requested, Over, Free

\* It is complete or has failed: nothing more comes.
LEMMA EndedDialog ==
    ASSUME NEW id, NEW t, NEW moved, NEW state, NEW w, NEW p, NEW r, NEW u, NEW live,
           NEW newState \in States \ {"Pending"}, IsSequence(w), w # <<>>,
           Dialog(id, t, moved, state, w, p, r, u, live),
           Ends(Head(w).command, id), Head(w) = Handle(Head(w).command)
    PROVE  Dialog(id, t, moved, newState, Tail(w), p, r, u, live)
<1> DEFINE c == Head(w).command
<1>1. Heard(w, r, c) /\ About(c, id) /\ Ends(c, id)
  BY TailHolds DEF Heard, Ends, About, Answers
<1>2. ~Requested(p, id) /\ ~At(u, id)
  BY <1>1, AskedDialog
<1>3. /\ LastWord(id, Tail(w), r, u) /\ Silent(id, Tail(w), r)
      /\ \A d : Heard(Tail(w), r, d) => Heard(w, r, d)
  BY <1>1, HandledHeard DEF Dialog, Exchange
<1>4. Exchange(id, t, Tail(w), p, r, u)
  BY <1>2, <1>3 DEF Dialog, Exchange
<1>5. Over(id, Tail(w), p, r, u)
  BY <1>2, <1>3 DEF Over
<1>6. Kind[t] # "download" => Uploads(id, moved, Chunks[t], newState, Tail(w), p, r, u, live)
  BY <1>3, <1>5 DEF Dialog, Uploads
<1> QED
  BY <1>4, <1>6 DEF Dialog

\* Chunks of a download are acknowledged.
LEMMA AckDialog ==
    ASSUME NEW id, NEW t, NEW moved, NEW moved2, NEW state, NEW w, NEW p, NEW r, NEW u, NEW live,
           NEW c, IsSequence(p), Kind[t] = "download", Chained(p, u),
           Dialog(id, t, moved, state, w, p, r, u, live), Heard(w, r, c), About(c, id)
    PROVE  LET p2 == p \o <<DataAck(id)>>
           IN  /\ Dialog(id, t, moved2, state, w, p2, r, u, live) /\ Chained(p2, u)
               /\ Dialog(id, t, moved2, state, w, p, r, u, live)
<1> DEFINE a == DataAck(id)
           p2 == p \o <<a>>
<1>1. a.type = "dataAck" /\ a.id = id
  BY DEF DataAck
<1> HIDE DEF a
<1>2. state # "Pending" /\ ~Requested(p, id)
  BY AskedDialog
<1>3. /\ DOMAIN p2 = 1 .. Len(p) + 1 /\ Len(p) \in Nat /\ DOMAIN p = 1 .. Len(p)
      /\ p2[Len(p) + 1] = a /\ \A i \in 1 .. Len(p) : p2[i] = p[i]
  BY OneMoreAt
<1>4. \A i \in DOMAIN p2 : p2[i] = a \/ \E j \in DOMAIN p : p2[i] = p[j]
  BY <1>3
<1>5. Chained(p2, u)
  <2>1. At(u, id) => Kind[u.of] = "download"
    BY DEF Dialog, Exchange
  <2>2. \A i \in DOMAIN p : p[i].type = "request" => ~About(a, p[i].id)
    BY <1>1, <1>2 DEF Requested, About
  <2>3. a.type \notin Parts \union {"data", "description", "request"}
    BY <1>1 DEF Parts
  <2> QED
    BY <1>1, <2>1, <2>2, <2>3, MoreChained
<1> HIDE DEF p2
<1>6. Exchange(id, t, w, p2, r, u)
  BY <1>1, <1>4 DEF Dialog, Exchange
<1>7. Dialog(id, t, moved2, state, w, p2, r, u, live) /\ Dialog(id, t, moved2, state, w, p, r, u, live)
  BY <1>2, <1>6 DEF Dialog
<1> QED
  BY <1>5, <1>7 DEF p2, a

\* An upload is asked to answer only if it has begun and is not over.
LEMMA AskedUpload ==
    ASSUME NEW id, NEW t, NEW moved, NEW state, NEW w, NEW p, NEW r, NEW u, NEW live, NEW c,
           Dialog(id, t, moved, state, w, p, r, u, live), Heard(w, r, c), About(c, id),
           Kind[t] # "download"
    PROVE  /\ c.type # "data" /\ moved \in 0 .. Chunks[t]
           /\ \/ /\ state = "Ready" /\ moved = 0 /\ c.type # "complete"
                 /\ \A i \in DOMAIN p : p[i].type \in Parts => p[i].id # id
                 /\ At(u, id) => u.got = 0
              \/ /\ state = "Transferring"
                 /\ live => Reaches(p, Len(p), u, id, moved)
<1>1. ~Over(id, w, p, r, u) /\ c.id = id
  BY AskedDialog DEF About
<1>2. Uploads(id, moved, Chunks[t], state, w, p, r, u, live)
  BY DEF Dialog
<1> QED
  BY <1>1, <1>2 DEF Uploads

\* The chunks it sends follow those it has sent, and the first of them the description.
LEMMA ContinuedDialog ==
    ASSUME NEW id, NEW t, NEW moved, NEW state, NEW w, NEW p, NEW r, NEW u, NEW live, NEW c,
           Dialog(id, t, moved, state, w, p, r, u, live), Heard(w, r, c), About(c, id),
           Kind[t] # "download", IsSequence(p), Chained(p, u),
           NEW n \in Nat, moved + n \in 0 .. Chunks[t], NEW e,
           e = IF state = "Ready" THEN <<Description(id)>> ELSE <<>>
    PROVE  LET d == [i \in 1 .. n |-> Data(id, moved + i)]
               p2 == IF live THEN (p \o e) \o d ELSE p
           IN  /\ Dialog(id, t, moved + n, "Transferring", w, p2, r, u, live)
               /\ Chained(p2, u)
<1> DEFINE d == [i \in 1 .. n |-> Data(id, moved + i)]
           b == p \o e
           a == b \o d
           p2 == IF live THEN a ELSE p
<1>1. /\ c.type # "data" /\ moved \in 0 .. Chunks[t]
      /\ \/ /\ state = "Ready" /\ moved = 0 /\ c.type # "complete"
            /\ \A i \in DOMAIN p : p[i].type \in Parts => p[i].id # id
            /\ At(u, id) => u.got = 0
         \/ /\ state = "Transferring"
            /\ live => Reaches(p, Len(p), u, id, moved)
  BY AskedUpload
<1>2. ~Requested(p, id)
  BY AskedDialog
<1>3. At(u, id) => u.of = t
  BY DEF Dialog, Exchange
<1>4. ASSUME live
      PROVE  /\ IsSequence(b) /\ Chained(b, u) /\ Reaches(b, Len(b), u, id, moved)
             /\ \A i \in DOMAIN b : b[i] = Description(id) \/ \E j \in DOMAIN p : b[i] = p[j]
  <2>1. CASE state = "Ready"
    <3> DEFINE h == Description(id)
    <3>1. h.type = "description" /\ h.id = id /\ h = Chunk(id, 0)
      BY DEF Description, Chunk
    <3> HIDE DEF h
    <3>2. b = p \o <<h>>
      BY <2>1 DEF h
    <3>3. /\ IsSequence(b) /\ Len(p) \in Nat /\ Len(b) = Len(p) + 1
          /\ DOMAIN p = 1 .. Len(p) /\ DOMAIN b = 1 .. Len(p) + 1
          /\ b[Len(p) + 1] = h /\ \A i \in 1 .. Len(p) : b[i] = p[i]
      BY <3>2, OneMoreAt
    <3> HIDE DEF b
    <3>4. \A i \in DOMAIN b : b[i] = h \/ \E j \in DOMAIN p : b[i] = p[j]
      BY <3>3
    <3>5. Len(b) # 0 /\ b[Len(b)] = h /\ moved = 0
      BY <1>1, <2>1, <3>3
    <3>6. Reaches(b, Len(b), u, id, moved)
      BY <3>1, <3>5 DEF Reaches
    <3>7. /\ \A i \in DOMAIN p : p[i].type = "data" => p[i].id # id
          /\ At(u, id) => u.got = 0
          /\ At(u, id) => Kind[u.of] # "download"
          /\ \A i \in DOMAIN p : p[i].type = "request" => ~About(h, p[i].id)
      BY <1>1, <1>2, <1>3, <2>1, <3>1 DEF Parts, Requested, About
    <3>8. Chained(b, u)
      BY <3>1, <3>2, <3>7, MoreChained
    <3> QED
      BY <3>3, <3>4, <3>6, <3>8 DEF h
  <2>2. CASE state = "Transferring"
    <3>1. e = <<>> /\ Reaches(p, Len(p), u, id, moved)
      BY <1>1, <1>4, <2>2
    <3>2. b = p
      BY <3>1, JoinThree, GivenSequences
    <3> QED
      BY <3>1, <3>2
  <2> QED
    BY <1>1, <2>1, <2>2
<1> HIDE DEF b
<1>5. Description(id).type = "description" /\ Description(id).id = id
  BY DEF Description
<1>6. ASSUME live
      PROVE  /\ IsSequence(a) /\ Chained(a, u) /\ Reaches(a, Len(a), u, id, moved + n)
             /\ \A i \in DOMAIN a : \/ a[i].type \in Parts /\ a[i].id = id
                                    \/ \E j \in DOMAIN p : a[i] = p[j]
  <2>1. /\ IsSequence(b) /\ Chained(b, u) /\ Reaches(b, Len(b), u, id, moved) /\ moved \in Nat
        /\ \A i \in DOMAIN b : b[i] = Description(id) \/ \E j \in DOMAIN p : b[i] = p[j]
    BY <1>1, <1>4, <1>6, TransfersAssumption
  <2>2. ~Requested(b, id)
    BY <1>2, <1>5, <2>1 DEF Requested
  <2>3. At(u, id) => Kind[u.of] # "download"
    BY <1>3
  <2>4. /\ IsSequence(a) /\ Chained(a, u) /\ Reaches(a, Len(a), u, id, moved + n)
        /\ \A x : Holds(a, x) => Holds(b, x) \/ (x.type = "data" /\ x.id = id)
    BY <2>1, <2>2, <2>3, ChunksChained
  <2> HIDE DEF a
  <2>5. ASSUME NEW i \in DOMAIN a
        PROVE  \/ a[i].type \in Parts /\ a[i].id = id
               \/ \E j \in DOMAIN p : a[i] = p[j]
    <3>1. Holds(b, a[i]) \/ (a[i].type = "data" /\ a[i].id = id)
      BY <2>4, <2>5 DEF Holds
    <3> QED
      BY <1>5, <2>1, <3>1 DEF Holds, Parts
  <2> QED
    BY <2>4, <2>5
<1> HIDE DEF a, d
<1>7. \A i \in DOMAIN p2 : \/ p2[i].type \in Parts /\ p2[i].id = id
                           \/ \E j \in DOMAIN p : p2[i] = p[j]
  BY <1>6
<1>8. Chained(p2, u) /\ (live => Reaches(p2, Len(p2), u, id, moved + n))
  BY <1>6
<1> HIDE DEF p2
<1>9. ~Requested(p2, id) /\ \A i \in DOMAIN p2 : p2[i].type = "dataAck" => p2[i].id # id
  <2>1. \A i \in DOMAIN p : p[i].type = "dataAck" => p[i].id # id
    BY DEF Dialog, Uploads
  <2> QED
    BY <1>2, <1>7, <2>1 DEF Requested, Parts
<1>10. Exchange(id, t, w, p2, r, u)
  BY <1>9 DEF Dialog, Exchange, Requested
<1>11. Uploads(id, moved + n, Chunks[t], "Transferring", w, p2, r, u, live)
  BY <1>8, <1>9 DEF Dialog, Uploads
<1>12. Dialog(id, t, moved + n, "Transferring", w, p2, r, u, live)
  BY <1>10, <1>11 DEF Dialog, States
<1> QED
  BY <1>8, <1>12 DEF p2, a, b, d

\* A transfer has answered the first command that waits.
Answered(result, id, t, w, p, r, u, live) ==
    LET newState == IF result.frameDone THEN "Between" ELSE result.newState
        p2 == IF live THEN p \o result.commands ELSE p
    IN  /\ Dialog(id, t, result.fields.moved, newState, Tail(w), p2, r, u, live)
        /\ Chained(p2, u) /\ newState # "Pending"
        /\ result.frameDone => result.commands = <<>>

\* What a transfer makes of a command.
LEMMA AnswerDialog ==
    ASSUME NEW id, NEW t \in Transfers, NEW x, IsTransfer(x), NEW state, NEW w, NEW p, NEW r, NEW u,
           NEW live, IsSequence(w), w # <<>>, IsSequence(p), Chained(p, u),
           Dialog(id, t, x.moved, state, w, p, r, u, live),
           NEW c, Head(w) = Handle(c), c.type \in Answers, c.id = id, Answer(c)
    PROVE  Answered(HandleCommand(t, x, c, state), id, t, w, p, r, u, live)
<1> DEFINE Goal(result) == Answered(result, id, t, w, p, r, u, live)
<1>1. Heard(w, r, c) /\ About(c, id) /\ Head(w).command = c
  <2>1. Head(w).command = c
    BY DEF Handle
  <2>2. Holds(w, Handle(c))
    BY TailHolds
  <2> QED
    BY <2>1, <2>2 DEF Heard, About
<1>2. state # "Pending" /\ state \in States
  BY <1>1, AskedDialog DEF Dialog
<1>3. ASSUME NEW m, NEW s, NEW p2, Dialog(id, t, m, s, w, p2, r, u, live)
      PROVE  Dialog(id, t, m, s, Tail(w), p2, r, u, live)
  <2>1. LastWord(id, w, r, u) => LastWord(id, Tail(w), r, u)
    BY HandledHeard
  <2>2. \A d : Heard(Tail(w), r, d) => Heard(w, r, d)
    BY <1>3, HandledHeard DEF Dialog, Exchange
  <2> QED
    BY <1>3, <2>1, <2>2, LessHeard
<1>4. ASSUME NEW newState \in States \ {"Pending"}, Ends(c, id)
      PROVE  Dialog(id, t, x.moved, newState, Tail(w), p, r, u, live)
  BY <1>1, <1>4, EndedDialog
<1>5. p \o <<>> = p
  BY JoinThree, GivenSequences
<1>6. ASSUME NEW y, y.moved = x.moved, Ends(c, id)
      PROVE  /\ Goal(Progress(y, "Finished", <<>>))
             /\ \A result : /\ result.frameDone /\ result.commands = <<>>
                            /\ result.fields.moved = x.moved
                            => Goal(result)
  <2>1. /\ Dialog(id, t, x.moved, "Finished", Tail(w), p, r, u, live)
        /\ Dialog(id, t, x.moved, "Between", Tail(w), p, r, u, live)
    BY <1>4, <1>6 DEF States
  <2>2. LET q == Progress(y, "Finished", <<>>)
        IN  q.fields.moved = x.moved /\ ~q.frameDone /\ q.newState = "Finished" /\ q.commands = <<>>
    BY <1>6 DEF Progress
  <2> QED
    BY <1>5, <2>1, <2>2 DEF Answered
<1>7. CASE Kind[t] = "download"
  <2>1. ASSUME NEW m, NEW newState \in States \ {"Pending"}
        PROVE  Dialog(id, t, m, newState, Tail(w), p, r, u, live)
    <3>1. Dialog(id, t, m, newState, w, p, r, u, live)
      BY <1>7, <2>1 DEF Dialog
    <3> QED
      BY <1>3, <3>1
  <2>2. ASSUME NEW y, NEW newState \in States \ {"Pending"}
        PROVE  Goal(Progress(y, newState, <<>>))
    BY <1>5, <2>1, <2>2 DEF Progress, Answered
  <2>3. ASSUME NEW y
        PROVE  Goal(Progress(y, state, <<DataAck(c.id)>>))
    <3>1. /\ Dialog(id, t, y.moved, state, w, p \o <<DataAck(id)>>, r, u, live)
          /\ Chained(p \o <<DataAck(id)>>, u)
      BY <1>1, <1>7, AckDialog
    <3>2. Dialog(id, t, y.moved, state, w, p, r, u, live)
      BY <1>1, <1>7, AckDialog
    <3>3. /\ Dialog(id, t, y.moved, state, Tail(w), p \o <<DataAck(id)>>, r, u, live)
          /\ Dialog(id, t, y.moved, state, Tail(w), p, r, u, live)
      BY <1>3, <3>1, <3>2
    <3>4. LET q == Progress(y, state, <<DataAck(c.id)>>)
          IN  q.fields = y /\ ~q.frameDone /\ q.newState = state /\ q.commands = <<DataAck(id)>>
      BY DEF Progress
    <3> QED
      BY <1>2, <3>1, <3>3, <3>4 DEF Answered
  <2> HIDE DEF Goal
  <2>4. "Finished" \in States \ {"Pending"} /\ state \in States \ {"Pending"}
    BY <1>2 DEF States
  <2>5. Goal(HandleDownload(t, x, c, state))
    <3>1. CASE c.type = "error"
      BY <2>2, <2>4, <3>1 DEF HandleDownload, HandleError, Answer
    <3>2. CASE c.type = "data"
      BY <2>2, <2>3, <2>4, <3>2 DEF HandleDownload, Receive
    <3>3. CASE c.type \in {"complete", "continue"}
      BY <2>2, <2>4, <3>3 DEF HandleDownload
    <3> QED
      BY <3>1, <3>2, <3>3 DEF Answers
  <2>6. Goal(HandleCommand(t, x, c, state))
    BY <1>7, <2>5 DEF HandleCommand
  <2> QED
    BY <2>6 DEF Goal, Answered
<1>8. CASE Kind[t] # "download"
  <2>1. /\ c.type # "data" /\ x.moved \in 0 .. Chunks[t]
        /\ \/ state = "Ready" /\ x.moved = 0 /\ c.type # "complete"
           \/ state = "Transferring"
    BY <1>1, <1>8, AskedUpload
  <2>2. x.moved \in Nat /\ Chunks[t] \in Nat /\ x.moved <= Chunks[t]
    BY <2>1, TransfersAssumption
  <2> DEFINE f == HandleUpload(t, x, c, state)
  <2>3. CASE c.type \in {"error", "complete"}
    <3>1. Ends(c, id)
      BY <2>3 DEF Ends
    <3>2. /\ f.newState = "Finished" /\ f.commands = <<>> /\ f.fields.moved = x.moved
          /\ \E y : y.moved = x.moved /\ f = Progress(y, "Finished", <<>>)
      <4>1. CASE c.type = "error"
        <5>1. f = Progress(Abort(x), "Finished", <<>>)
          BY <4>1 DEF HandleUpload, HandleError, Answer
        <5>2. Abort(x).moved = x.moved
          BY DEF Abort, Settle, IsTransfer
        <5>3. f.newState = "Finished" /\ f.commands = <<>> /\ f.fields = Abort(x)
          BY <5>1 DEF Progress
        <5> HIDE DEF f
        <5> QED
          BY <5>1, <5>2, <5>3
      <4>2. CASE c.type = "complete"
        <5>1. f = Progress(Settle(x, "resolved"), "Finished", <<>>)
          BY <2>1, <4>2 DEF HandleUpload, Complete
        <5>2. Settle(x, "resolved").moved = x.moved
          BY DEF Settle, IsTransfer
        <5>3. f.newState = "Finished" /\ f.commands = <<>> /\ f.fields = Settle(x, "resolved")
          BY <5>1 DEF Progress
        <5> HIDE DEF f
        <5> QED
          BY <5>1, <5>2, <5>3
      <4> QED
        BY <2>3, <4>1, <4>2
    <3>3. CASE Kind[t] = "clip"
      <4> DEFINE g == HandleFrame(t, x, c, state)
      <4>1. g.frameDone /\ g.commands = <<>>
        BY <3>2 DEF HandleFrame
      <4>2. g.fields = [f.fields EXCEPT !.promise = x.promise]
        BY DEF HandleFrame
      <4>3. g.fields.moved = x.moved
        <5> HIDE DEF f, g
        <5> QED
          BY <3>2, <4>2
      <4>4. HandleCommand(t, x, c, state) = g
        BY <3>3 DEF HandleCommand
      <4> HIDE DEF g
      <4> QED
        BY <1>6, <3>1, <4>1, <4>3, <4>4
    <3>4. CASE Kind[t] = "upload"
      <4>1. HandleCommand(t, x, c, state) = f
        BY <3>4 DEF HandleCommand
      <4> HIDE DEF f
      <4> QED
        BY <1>6, <3>1, <3>2, <4>1
    <3> QED
      BY <1>8, <3>3, <3>4, TransfersAssumption
  <2>4. CASE c.type = "continue"
    <3> DEFINE n == ChunksDue(t, x, c.count)
               e == IF state = "Ready" THEN <<Description(id)>> ELSE <<>>
               d == [i \in 1 .. n |-> Data(id, x.moved + i)]
               y == [x EXCEPT !.moved = @ + n]
    <3>1. n \in Nat /\ x.moved + n \in 0 .. Chunks[t]
      BY <2>2, <2>4 DEF ChunksDue, Answer
    <3>2. f = Progress(y, "Transferring", e \o d)
      BY <2>1, <2>4 DEF HandleUpload, Continue
    <3>3. y.moved = x.moved + n
      BY DEF IsTransfer
    <3>4. IsSequence(e) /\ IsSequence(d)
      <4>1. IsSequence(e)
        BY GivenSequences
      <4> DEFINE S == {Data(id, x.moved + i) : i \in 1 .. n}
      <4>2. \A i \in 1 .. n : Data(id, x.moved + i) \in S
        OBVIOUS
      <4> HIDE DEF S, n
      <4>3. d \in Seq(S)
        BY <3>1, <4>2
      <4> QED
        BY <4>1, <4>3 DEF IsSequence
    <3> HIDE DEF n, y, f
    <3>5. LET p2 == IF live THEN (p \o e) \o d ELSE p
          IN  Dialog(id, t, x.moved + n, "Transferring", w, p2, r, u, live) /\ Chained(p2, u)
      BY <1>1, <1>8, <3>1, ContinuedDialog
    <3> HIDE DEF e, d
    <3>6. (p \o e) \o d = p \o (e \o d)
      BY <3>4, JoinThree
    <3>7. LET p2 == IF live THEN p \o (e \o d) ELSE p
          IN  Dialog(id, t, x.moved + n, "Transferring", Tail(w), p2, r, u, live) /\ Chained(p2, u)
      BY <1>3, <3>5, <3>6
    <3>8. ASSUME NEW result, result.fields.moved = x.moved + n, ~result.frameDone,
                 result.newState = "Transferring", result.commands = e \o d
          PROVE  Goal(result)
      BY <3>7, <3>8 DEF Answered
    <3> HIDE DEF Goal
    <3>9. CASE Kind[t] = "clip"
      <4> DEFINE g == HandleFrame(t, x, c, state)
      <4>1. g.fields = [f.fields EXCEPT !.promise = x.promise] /\ f.fields = y
        BY <3>2 DEF HandleFrame, Progress, f
      <4>2. ~g.frameDone /\ g.newState = "Transferring" /\ g.commands = e \o d
        <5>1. f.newState = "Transferring" /\ f.commands = e \o d
          BY <3>2 DEF Progress
        <5>2. g.newState = "Transferring" /\ g.commands = f.commands
              /\ (g.frameDone <=> f.newState = "Finished")
          BY DEF HandleFrame, f
        <5> QED
          BY <5>1, <5>2
      <4>3. HandleCommand(t, x, c, state) = g
        BY <3>9 DEF HandleCommand
      <4> HIDE DEF g
      <4>4. g.fields.moved = x.moved + n
        <5>1. DOMAIN y = DOMAIN x
          BY DEF y
        <5> QED
          BY <3>3, <4>1, <5>1 DEF IsTransfer
      <4>5. Goal(g)
        BY <3>8, <4>2, <4>4
      <4> QED
        BY <4>3, <4>5 DEF Goal, Answered
    <3>10. CASE Kind[t] = "upload"
      <4>1. HandleCommand(t, x, c, state) = f
        BY <3>10 DEF HandleCommand, f
      <4>2. f.fields = y /\ ~f.frameDone /\ f.newState = "Transferring" /\ f.commands = e \o d
        BY <3>2 DEF Progress
      <4>3. Goal(f)
        BY <3>3, <3>8, <4>2
      <4> QED
        BY <4>1, <4>3 DEF Goal, Answered
    <3> QED
      BY <1>8, <3>9, <3>10, TransfersAssumption
  <2> QED
    BY <2>1, <2>3, <2>4 DEF Answers
<1> QED
  BY <1>7, <1>8

-----------------------------------------------------------------------------
(* What the device makes of a transfer *)

\* The device answers a transfer that it has or begins, and never after its end.
LEMMA AnsweredHeard ==
    ASSUME NEW id, NEW w, NEW r, NEW u, NEW u2, NEW c, IsSequence(r), LastWord(id, w, r, u),
           \A h : Holds(w, h) => \E d : h = Handle(d),
           At(u2, id) => At(u, id) \/ Silent(id, w, r),
           About(c, id) => At(u, id) \/ Silent(id, w, r),
           Ends(c, id) => ~At(u2, id)
    PROVE  /\ LastWord(id, w, r \o <<c>>, u2)
           /\ \A d : Heard(w, r \o <<c>>, d) <=> Heard(w, r, d) \/ d = c
<1> DEFINE r2 == r \o <<c>>
<1>1. /\ IsSequence(r2) /\ Len(r) \in Nat /\ Len(r2) = Len(r) + 1
      /\ DOMAIN r = 1 .. Len(r) /\ DOMAIN r2 = 1 .. Len(r) + 1
      /\ r2[Len(r) + 1] = c /\ \A i \in 1 .. Len(r) : r2[i] = r[i]
  BY OneMoreAt
<1> HIDE DEF r2
<1>2. \A d : Holds(r2, d) <=> Holds(r, d) \/ d = c
  <2>1. ASSUME NEW d, Holds(r2, d) PROVE Holds(r, d) \/ d = c
    BY <1>1, <2>1 DEF Holds
  <2>2. ASSUME NEW d, Holds(r, d) PROVE Holds(r2, d)
    <3>1. PICK i \in DOMAIN r : r[i] = d
      BY <2>2 DEF Holds
    <3>2. i \in DOMAIN r2 /\ r2[i] = d
      BY <1>1, <3>1
    <3> QED
      BY <3>2 DEF Holds
  <2>3. Holds(r2, c)
    <3>1. Len(r) + 1 \in DOMAIN r2
      BY <1>1
    <3> QED
      BY <1>1, <3>1 DEF Holds
  <2> QED
    BY <2>1, <2>2, <2>3
<1>3. \A d : Heard(w, r2, d) <=> Heard(w, r, d) \/ d = c
  BY <1>2 DEF Heard
<1>4. ASSUME NEW d, Heard(w, r, d), Ends(d, id)
      PROVE  ~At(u, id) /\ ~Silent(id, w, r)
  <2>1. About(d, id)
    BY <1>4 DEF Ends, About, Answers
  <2> QED
    BY <1>4, <2>1 DEF LastWord, Silent
<1>5. \A d : Heard(w, r2, d) /\ Ends(d, id) => ~At(u2, id)
  BY <1>3, <1>4
<1>6. ASSUME NEW i \in DOMAIN r2
      PROVE  (i \in DOMAIN r /\ r2[i] = r[i]) \/ (i = Len(r) + 1 /\ r2[i] = c)
  BY <1>1, <1>6
<1>7. \A i, j \in DOMAIN r2 : i < j /\ Ends(r2[i], id) => ~About(r2[j], id)
  <2> SUFFICES ASSUME NEW i \in DOMAIN r2, NEW j \in DOMAIN r2, i < j, Ends(r2[i], id)
               PROVE  ~About(r2[j], id)
    OBVIOUS
  <2>1. i \in DOMAIN r /\ r2[i] = r[i]
    BY <1>1, <1>6
  <2>2. Heard(w, r, r[i])
    BY <2>1 DEF Heard, Holds
  <2>3. CASE j \in DOMAIN r /\ r2[j] = r[j]
    BY <2>1, <2>3 DEF LastWord
  <2>4. CASE r2[j] = c
    BY <1>4, <2>1, <2>2, <2>4
  <2> QED
    BY <1>6, <2>3, <2>4
<1>8. \A i \in DOMAIN w, j \in DOMAIN r2 : Ends(w[i].command, id) => ~About(r2[j], id)
  <2> SUFFICES ASSUME NEW i \in DOMAIN w, NEW j \in DOMAIN r2, Ends(w[i].command, id)
               PROVE  ~About(r2[j], id)
    OBVIOUS
  <2>1. CASE j \in DOMAIN r /\ r2[j] = r[j]
    BY <2>1 DEF LastWord
  <2>2. CASE r2[j] = c
    <3>1. PICK d : w[i] = Handle(d)
      BY DEF Holds
    <3>2. w[i].command = d /\ Heard(w, r, d)
      BY <3>1 DEF Handle, Heard, Holds
    <3> QED
      BY <1>4, <2>2, <3>2
  <2> QED
    BY <1>6, <2>1, <2>2
<1>9. LastWord(id, w, r2, u2)
  BY <1>5, <1>7, <1>8 DEF LastWord
<1> QED
  BY <1>3, <1>9 DEF r2

\* The device takes a command, begins, goes on with or drops a transfer, and answers.
LEMMA DeviceDialog ==
    ASSUME NEW id, NEW t, NEW moved, NEW state, NEW w, NEW p, NEW r, NEW u, NEW live,
           Dialog(id, t, moved, state, w, p, r, u, live),
           IsSequence(r), \A h : Holds(w, h) => \E d : h = Handle(d),
           NEW c, NEW p2, NEW u2,
           \A i \in DOMAIN p2 : \E j \in DOMAIN p : p2[i] = p[j],
           At(u2, id) => (At(u, id) /\ u2.of = u.of) \/ (u2.of = t /\ Requested(p, id)),
           About(c, id) \/ At(u2, id) => ~Requested(p2, id),
           About(c, id) => At(u, id) \/ Requested(p, id),
           Ends(c, id) => ~At(u2, id),
           Kind[t] # "download" /\ About(c, id) => c.type # "data",
           /\ Kind[t] # "download"
           /\ \A i \in DOMAIN p : p[i].type \in Parts => p[i].id # id
           /\ At(u, id) => u.got = 0
           => /\ At(u2, id) => u2.got = 0
              /\ About(c, id) => c.type # "complete",
           Reaches(p, Len(p), u, id, moved) => Reaches(p2, Len(p2), u2, id, moved)
    PROVE  Dialog(id, t, moved, state, w, p2, r \o <<c>>, u2, live)
<1> DEFINE r2 == r \o <<c>>
<1>1. Requested(p, id) => Silent(id, w, r)
  BY DEF Requested, Dialog, Exchange
<1>2. LastWord(id, w, r2, u2) /\ \A d : Heard(w, r2, d) <=> Heard(w, r, d) \/ d = c
  <2>1. At(u2, id) => At(u, id) \/ Silent(id, w, r)
    BY <1>1
  <2>2. About(c, id) => At(u, id) \/ Silent(id, w, r)
    BY <1>1
  <2>3. LastWord(id, w, r, u)
    BY DEF Dialog, Exchange
  <2>4. Ends(c, id) => ~At(u2, id)
    OBVIOUS
  <2>5. \A h : Holds(w, h) => \E d : h = Handle(d)
    OBVIOUS
  <2>6. LastWord(id, w, r \o <<c>>, u2) /\ \A d : Heard(w, r \o <<c>>, d) <=> Heard(w, r, d) \/ d = c
    BY ONLY IsSequence(r), <2>3, <2>4, <2>5, <2>1, <2>2, AnsweredHeard
  <2> QED
    BY <2>6
<1> HIDE DEF r2
<1>3. Requested(p2, id) => Requested(p, id)
  BY DEF Requested
<1>4. ~About(c, id) => (Silent(id, w, r) => Silent(id, w, r2))
  BY <1>2 DEF Silent
<1>5. At(u2, id) => u2.of = t
  BY DEF Dialog, Exchange
<1>6. Exchange(id, t, w, p2, r2, u2)
  <2>1. \A i \in DOMAIN p2 : p2[i].type = "request" /\ p2[i].id = id => p2[i].of = t /\ Silent(id, w, r)
    BY DEF Dialog, Exchange
  <2>2. \A i \in DOMAIN p2 : p2[i].type = "request" /\ p2[i].id = id => ~About(c, id)
    BY DEF Requested
  <2> QED
    BY <1>2, <1>4, <1>5, <2>1, <2>2 DEF Exchange
<1>7. ~At(u, id) /\ ~Requested(p, id) => ~At(u2, id) /\ ~About(c, id)
  OBVIOUS
<1>8. Over(id, w, p, r, u) => Over(id, w, p2, r2, u2)
  BY <1>3, <1>4, <1>7 DEF Over
<1>9. Free(id, w, p, r, u) => Free(id, w, p2, r2, u2)
  <2> SUFFICES ASSUME Free(id, w, p, r, u) PROVE Free(id, w, p2, r2, u2)
    OBVIOUS
  <2>1. ~Requested(p, id) /\ ~At(u, id)
    BY DEF Free, Requested, About
  <2>2. ~At(u2, id) /\ ~About(c, id) /\ \A i \in DOMAIN p2 : ~About(p2[i], id)
    BY <1>7, <2>1 DEF Free
  <2> QED
    BY <1>4, <2>2 DEF Free
<1>10. ASSUME Kind[t] # "download"
       PROVE  Uploads(id, moved, Chunks[t], state, w, p2, r2, u2, live)
  <2>1. Uploads(id, moved, Chunks[t], state, w, p, r, u, live)
    BY <1>10 DEF Dialog
  <2>2. /\ moved \in 0 .. Chunks[t]
        /\ \A i \in DOMAIN p2 : p2[i].type = "dataAck" => p2[i].id # id
    BY <2>1 DEF Uploads
  <2>3. \A d : Heard(w, r2, d) /\ d.type = "data" => d.id # id
    <3>1. c.type = "data" => c.id # id
      BY <1>10 DEF About, Parts
    <3> QED
      BY <1>2, <2>1, <3>1 DEF Uploads
  <2>4. CASE Over(id, w, p, r, u)
    BY <1>8, <2>2, <2>3, <2>4 DEF Uploads
  <2>5. CASE /\ state = "Ready" /\ moved = 0
             /\ \A i \in DOMAIN p : p[i].type \in Parts => p[i].id # id
             /\ At(u, id) => u.got = 0
             /\ \A d : Heard(w, r, d) /\ d.type = "complete" => d.id # id
    <3>1. At(u2, id) => u2.got = 0
      BY <1>10, <2>5
    <3>2. c.type = "complete" => c.id # id
      BY <1>10, <2>5 DEF About, Answers
    <3>3. \A d : Heard(w, r2, d) /\ d.type = "complete" => d.id # id
      BY <1>2, <2>5, <3>2
    <3>4. \A i \in DOMAIN p2 : p2[i].type \in Parts => p2[i].id # id
      BY <2>5
    <3> QED
      BY <2>2, <2>3, <2>5, <3>1, <3>3, <3>4 DEF Uploads
  <2>6. CASE /\ state = "Transferring"
             /\ live => Reaches(p, Len(p), u, id, moved)
             /\ ~Requested(p, id)
    BY <1>3, <2>2, <2>3, <2>6 DEF Uploads
  <2> QED
    BY <2>1, <2>4, <2>5, <2>6 DEF Uploads
<1>11. Dialog(id, t, moved, state, w, p2, r2, u2, live)
  BY <1>6, <1>9, <1>10 DEF Dialog
<1> QED
  BY <1>11 DEF r2

\* The device tells something else, or nothing.
LEMMA NewsDialog ==
    ASSUME NEW id, NEW t, NEW moved, NEW state, NEW w, NEW p, NEW r, NEW u, NEW live,
           Dialog(id, t, moved, state, w, p, r, u, live),
           IsSequence(r), \A h : Holds(w, h) => \E d : h = Handle(d),
           NEW c, Other(c), Chained(p, u)
    PROVE  Dialog(id, t, moved, state, w, p, r \o <<c>>, u, live)
<1>1. ~About(c, id) /\ ~Ends(c, id)
  BY DEF About, Ends, Answers, Other
<1>2. At(u, id) => ~Requested(p, id)
  BY DEF Chained, Requested
<1>3. \A i \in DOMAIN p : \E j \in DOMAIN p : p[i] = p[j]
  OBVIOUS
<1> QED
  BY <1>1, <1>2, <1>3, DeviceDialog

\* And without an answer.
LEMMA QuietDialog ==
    ASSUME NEW id, NEW t, NEW moved, NEW state, NEW w, NEW p, NEW r, NEW u, NEW live, NEW c,
           Dialog(id, t, moved, state, w, p, r \o <<c>>, u, live), IsSequence(r)
    PROVE  Dialog(id, t, moved, state, w, p, r, u, live)
<1> DEFINE r2 == r \o <<c>>
<1>1. /\ Len(r) \in Nat /\ DOMAIN r = 1 .. Len(r) /\ DOMAIN r2 = 1 .. Len(r) + 1
      /\ \A i \in 1 .. Len(r) : r2[i] = r[i]
  BY OneMoreAt
<1> HIDE DEF r2
<1>2. DOMAIN r \subseteq DOMAIN r2
  BY <1>1
<1>3. \A d : Heard(w, r, d) => Heard(w, r2, d)
  BY <1>1, <1>2 DEF Heard, Holds
<1>4. LastWord(id, w, r2, u) => LastWord(id, w, r, u)
  BY <1>1, <1>2, <1>3 DEF LastWord
<1> QED
  BY <1>3, <1>4, LessHeard DEF r2

-----------------------------------------------------------------------------
(* The queue's part of the dialog *)

\* What is sent is a sequence, whatever there is.
LEMMA WayIs ==
    ASSUME NEW q, NEW s, NEW live, Typed(q), IsSequence(s)
    PROVE  IsSequence(q.active.queuedCommands) /\ IsSequence(Given(q)) /\ IsSequence(Unsent(q))
           /\ IsSequence(Way(q, s, live))
<1>1. IsSequence(q.active.queuedCommands) /\ IsSequence(Given(q))
  BY GivenSequences DEF Typed, Orders, Given
<1>2. IsSequence(Unsent(q))
  BY <1>1, JoinThree DEF Unsent
<1>3. IsSequence(s \o Unsent(q))
  BY <1>2, JoinThree
<1> QED
  BY <1>1, <1>2, <1>3 DEF Way

\* Nothing is to be sent if nothing is left to the interval and to the running handler.
LEMMA NothingUnsent ==
    ASSUME NEW q, NEW s, NEW live, IsSequence(s), q.active.queuedCommands = <<>>, Given(q) = <<>>
    PROVE  Unsent(q) = <<>> /\ Way(q, s, live) = s
BY JoinThree, GivenSequences DEF Unsent, Way

\* A queue that differs in nothing the dialog is about.
LEMMA SameTalks ==
    ASSUME NEW q, NEW q2, NEW s, NEW r, NEW u, NEW live, Talks(q, s, r, u, live),
           q2.tasks = q.tasks, q2.active = q.active, q2.waiting = q.waiting,
           q2.lockCommands \in {q.lockCommands, <<>>},
           \/ q2.running = q.running
           \/ Given(q) = <<>> /\ StateOf(q) = q.active.state /\ ~Waits(q2),
           IsActive(q) => q2.fields[q.active.of].moved = q.fields[q.active.of].moved,
           \A t : Holds(q.tasks, t) => q2.fields[t] = q.fields[t]
    PROVE  Talks(q2, s, r, u, live) /\ Way(q2, s, live) = Way(q, s, live)
<1>1. /\ IsActive(q2) <=> IsActive(q)
      /\ q2.running = q.running => (Own(q2) <=> Own(q))
      /\ q2.running # q.running => ~Own(q2)
      /\ q2.running.wait \in {"firstFrame", "nextFrame"} => q2.running = q.running
  BY DEF Own, IsActive, Waits
<1>2. Given(q2) = Given(q) /\ StateOf(q2) = StateOf(q)
  BY <1>1 DEF Given, StateOf
<1>3. Way(q2, s, live) = Way(q, s, live)
  BY <1>2 DEF Way, Unsent
<1>4. Lined(q2)
  <2>1. q2.running.wait \in {"firstFrame", "nextFrame"} =>
           /\ ~Holds(q2.tasks, q2.running.of)
           /\ IsActive(q2) /\ q2.active.of = q2.running.of => Own(q2)
    BY <1>1 DEF Talks, Lined
  <2>2. /\ q2.running.wait = "firstFrame" /\ Own(q2) => q2.active.state = "Pending"
        /\ q2.running.wait = "nextFrame" =>
              q2.running.commands = <<>> /\ (Own(q2) => q2.active.state \in States \ {"Pending"})
    BY <1>1 DEF Talks, Lined
  <2>3. IsActive(q2) /\ StateOf(q2) = "Pending" => q2.active.queuedCommands = <<>> /\ Given(q2) = <<>>
    BY <1>1, <1>2 DEF Talks, Lined
  <2> QED
    BY <1>1, <2>1, <2>2, <2>3 DEF Talks, Lined
<1>5. IsActive(q2) => DialogOf(q2, Way(q2, s, live), r, u, live)
  BY <1>1, <1>2, <1>3 DEF Talks, DialogOf
<1>6. q2.lockCommands # <<>> /\ IsActive(q2) => StateOf(q2) = "Pending"
  BY <1>1, <1>2 DEF Talks
<1> QED
  BY <1>3, <1>4, <1>5, <1>6 DEF Talks

\* A handler that is not the active transfer's gives it nothing.
LEMMA OthersGive ==
    ASSUME NEW q, ~Own(q) \/ ~Waits(q) \/ q.running.wait = "firstFrame"
    PROVE  Given(q) = <<>> /\ StateOf(q) = q.active.state
BY DEF Own, Waits, Given, StateOf

\* The next transfer begins, with a number nobody speaks of.
LEMMA DequeueTalks ==
    ASSUME NEW q, NEW s, NEW r, NEW u, NEW live, Talks(q, s, r, u, live), IsQueue(q), Handlers(q),
           IsSequence(s), IdIsFree(q),
           ~IsActive(q) => Free(q.nextId, q.waiting, Way(q, s, live), r, u)
    PROVE  Talks(DequeueAndRun(q), s, r, u, live)
<1> DEFINE d == DequeueAndRun(q)
<1>1. CASE IsActive(q) \/ q.tasks = <<>>
  BY <1>1 DEF DequeueAndRun
<1>2. CASE ~IsActive(q) /\ q.tasks # <<>>
  <2> DEFINE t == Head(q.tasks)
  <2>1. /\ t \in Transfers /\ d.tasks = Tail(q.tasks)
        /\ d.active.id = q.nextId /\ d.active.of = t /\ d.active.state = "Pending"
        /\ d.waiting = <<>> /\ d.running = q.running /\ d.fields = q.fields
        /\ d.lockCommands = q.lockCommands /\ d.active.queuedCommands = <<>>
    BY <1>2, DequeueEffect, DequeueSends
  <2>2. /\ IsSequence(q.tasks) /\ IsSequence(Tail(q.tasks)) /\ Len(q.tasks) \in Nat
        /\ DOMAIN q.tasks = 1 .. Len(q.tasks) /\ DOMAIN Tail(q.tasks) = 1 .. Len(q.tasks) - 1
        /\ 1 \in DOMAIN q.tasks /\ t = q.tasks[1]
        /\ \A i \in DOMAIN Tail(q.tasks) :
              i \in Nat /\ i >= 1 /\ i + 1 \in DOMAIN q.tasks /\ Tail(q.tasks)[i] = q.tasks[i + 1]
    <3>1. IsSequence(q.tasks)
      BY DEF IsQueue, IsSequence
    <3> QED
      BY <1>2, <3>1, RestAt
  <2> HIDE DEF d, t
  <2>3. IsActive(d) /\ ~Own(d) /\ ~Own(q)
    BY <1>2, <2>1, TransfersAssumption DEF IsActive, IdIsFree, Own, Waits
  <2>4. Given(d) = <<>> /\ Given(q) = <<>> /\ StateOf(d) = "Pending" /\ q.active.queuedCommands = <<>>
    BY <1>2, <2>1, <2>3 DEF Given, StateOf, Talks, Lined
  <2>5. Way(d, s, live) = s /\ Way(q, s, live) = s
    BY <2>1, <2>4, NothingUnsent
  <2>6. \A e : Holds(d.tasks, e) => Holds(q.tasks, e) /\ e # t
    <3> SUFFICES ASSUME NEW i \in DOMAIN d.tasks
                 PROVE  Holds(q.tasks, d.tasks[i]) /\ d.tasks[i] # t
      BY DEF Holds
    <3>1. i + 1 \in DOMAIN q.tasks /\ d.tasks[i] = q.tasks[i + 1] /\ i + 1 # 1
      BY <2>1, <2>2
    <3>2. q.tasks[i + 1] # q.tasks[1]
      BY <2>2, <3>1 DEF Talks, Lined
    <3> QED
      BY <2>2, <3>1, <3>2 DEF Holds
  <2>7. \A i, j \in DOMAIN d.tasks : d.tasks[i] = d.tasks[j] => i = j
    <3> SUFFICES ASSUME NEW i \in DOMAIN d.tasks, NEW j \in DOMAIN d.tasks, d.tasks[i] = d.tasks[j]
                 PROVE  i = j
      OBVIOUS
    <3>1. /\ i + 1 \in DOMAIN q.tasks /\ d.tasks[i] = q.tasks[i + 1]
          /\ j + 1 \in DOMAIN q.tasks /\ d.tasks[j] = q.tasks[j + 1]
          /\ i \in Nat /\ j \in Nat
      BY <2>1, <2>2
    <3>2. i + 1 = j + 1
      BY <3>1 DEF Talks, Lined
    <3> QED
      BY <3>1, <3>2
  <2>8. Holds(q.tasks, t)
    BY <2>2 DEF Holds
  <2>9. DOMAIN <<>> = {} /\ \A e : ~Holds(<<>>, e)
    BY ShortHolds
  <2>10. Lined(d)
    <3>1. \A e : Holds(d.tasks, e) => d.fields[e] = NewTransfer /\ e # d.active.of
      BY <2>1, <2>6 DEF Talks, Lined
    <3>2. d.running.wait \in {"firstFrame", "nextFrame"} =>
             ~Holds(q.tasks, d.running.of) /\ d.running.of # d.active.of
      BY <2>1, <2>8 DEF Talks, Lined
    <3>3. d.running.wait = "nextFrame" => d.running.commands = <<>>
      BY <2>1 DEF Talks, Lined
    <3> QED
      BY <2>1, <2>3, <2>4, <2>6, <2>7, <2>9, <3>1, <3>2, <3>3 DEF Lined
  <2>11. \A c : Heard(<<>>, r, c) => Heard(q.waiting, r, c)
    BY <2>9 DEF Heard
  <2>12. DialogOf(d, s, r, u, live)
    <3>1. Free(q.nextId, <<>>, s, r, u)
      BY <1>2, <2>5, <2>11 DEF Free, Silent
    <3>2. Dialog(q.nextId, t, 0, "Pending", <<>>, s, r, u, live)
      BY <2>1, <2>9, <3>1, FreshDialog
    <3>3. q.fields[t].moved = 0
      <4>1. q.fields[t] = NewTransfer
        BY <2>8 DEF Talks, Lined
      <4> QED
        BY <4>1 DEF NewTransfer
    <3> QED
      BY <2>1, <2>4, <3>2, <3>3 DEF DialogOf
  <2>13. Chained(s, u) /\ \A c : Heard(d.waiting, r, c) => Answer(c)
    BY <2>1, <2>5, <2>11 DEF Talks
  <2>14. Talks(d, s, r, u, live)
    BY <2>4, <2>5, <2>10, <2>12, <2>13 DEF Talks
  <2> QED
    BY <2>14 DEF d
<1> QED
  BY <1>1, <1>2

\* The active transfer is dropped, and what it had not sent.
LEMMA DroppedTalks ==
    ASSUME NEW q, NEW q2, NEW s, NEW r, NEW u, NEW live, Talks(q, s, r, u, live), IsQueue(q),
           Typed(q), IsSequence(s), q2.active = NoActive, q2.running = q.running,
           q2.tasks = q.tasks \/ q2.tasks = <<>>, q2.waiting = q.waiting \/ q2.waiting = <<>>,
           \A t : Holds(q2.tasks, t) => q2.fields[t] = q.fields[t]
    PROVE  /\ Talks(q2, s, r, u, live) /\ Way(q2, s, live) = s
           /\ \A id : Free(id, q.waiting, Way(q, s, live), r, u)
                      => Free(id, q2.waiting, s, r, u)
<1>1. NoActive.of = NoTransfer /\ NoActive.queuedCommands = <<>> /\ NoActive.state = "Finished"
  BY DEF NoActive
<1>2. ~IsActive(q2) /\ ~Own(q2)
  BY <1>1 DEF IsActive, Own
<1>3. Given(q2) = <<>> /\ Way(q2, s, live) = s
  <2>1. Given(q2) = <<>>
    BY <1>2 DEF Given
  <2> QED
    BY <1>1, <2>1, NothingUnsent
<1>4. /\ IsSequence(Unsent(q)) /\ Way(q, s, live) \in {s, s \o Unsent(q)}
  BY WayIs DEF Way
<1>5. Chained(s, u)
  BY <1>4, PrefixChained DEF Talks
<1>6. \A i \in DOMAIN s : \E j \in DOMAIN Way(q, s, live) : Way(q, s, live)[j] = s[i]
  <2>1. /\ Len(s) \in Nat /\ Len(Unsent(q)) \in Nat /\ DOMAIN s = 1 .. Len(s)
        /\ DOMAIN (s \o Unsent(q)) = 1 .. Len(s) + Len(Unsent(q))
        /\ \A i \in 1 .. Len(s) : (s \o Unsent(q))[i] = s[i]
    BY <1>4, JoinAt
  <2>2. \A i \in DOMAIN s : i \in DOMAIN (s \o Unsent(q)) /\ (s \o Unsent(q))[i] = s[i]
    BY <2>1
  <2> QED
    BY <1>4, <2>2
<1>7. DOMAIN <<>> = {} /\ \A e : ~Holds(<<>>, e)
  BY ShortHolds
<1>8. \A c : Heard(q2.waiting, r, c) => Heard(q.waiting, r, c)
  BY <1>7 DEF Heard
<1>9. \A t : Holds(q2.tasks, t) => Holds(q.tasks, t) /\ t # NoTransfer
  <2>1. \A t : Holds(q.tasks, t) => t \in Transfers
    BY DEF Holds, IsQueue
  <2> QED
    BY <1>7, <2>1, TransfersAssumption
<1>10. Lined(q2)
  BY <1>1, <1>2, <1>7, <1>9 DEF Talks, Lined
<1>11. Talks(q2, s, r, u, live)
  BY <1>2, <1>3, <1>5, <1>8, <1>10 DEF Talks
<1>12. \A id : Free(id, q.waiting, Way(q, s, live), r, u) => Free(id, q2.waiting, s, r, u)
  BY <1>6, <1>8 DEF Free, Silent
<1> QED
  BY <1>3, <1>11, <1>12

\* The active transfer ends, and the next one begins.
LEMMA EndTalks ==
    ASSUME NEW q, NEW s, NEW r, NEW u, NEW live, Talks(q, s, r, u, live), IsQueue(q), Handlers(q),
           Typed(q), IsSequence(s), IdIsFree(q),
           Free(q.nextId, q.waiting, Way(q, s, live), r, u)
    PROVE  Talks(EndActive(q), s, r, u, live)
<1> DEFINE a == [TransferCompleted(q) EXCEPT !.active = NoActive]
<1>1. /\ DOMAIN a = DOMAIN q /\ a.active = NoActive
      /\ \A f \in {"tasks", "urgent", "waiting", "running", "nextId", "fields"} : a[f] = q[f]
  BY DEF TransferCompleted, SendLock, IsQueue
<1>2. EndActive(q) = DequeueAndRun(a)
  BY DEF EndActive
<1> HIDE DEF a
<1>3. /\ a.tasks = q.tasks /\ a.waiting = q.waiting /\ a.running = q.running /\ a.nextId = q.nextId
      /\ a.fields = q.fields /\ a.urgent = q.urgent
  BY <1>1
<1>4. IsQueue(a) /\ Handlers(a) /\ IdIsFree(a)
  BY <1>1, <1>3 DEF IsQueue, Handlers, NoActive, IdIsFree, Waits
<1>5. /\ Talks(a, s, r, u, live) /\ Way(a, s, live) = s
      /\ \A id : Free(id, q.waiting, Way(q, s, live), r, u) => Free(id, a.waiting, s, r, u)
  <2>1. a.tasks = q.tasks \/ a.tasks = <<>>
    BY <1>3
  <2>2. a.waiting = q.waiting \/ a.waiting = <<>>
    BY <1>3
  <2>3. \A t : Holds(a.tasks, t) => a.fields[t] = q.fields[t]
    BY <1>3
  <2> QED
    BY <1>1, <1>3, <2>1, <2>2, <2>3, DroppedTalks
<1>6. Free(a.nextId, a.waiting, Way(a, s, live), r, u)
  BY <1>3, <1>5
<1> QED
  BY <1>2, <1>4, <1>5, <1>6, DequeueTalks

\* All transfers are dropped.
LEMMA ClearTalks ==
    ASSUME NEW q, NEW s, NEW r, NEW u, NEW live, Talks(q, s, r, u, live), IsQueue(q),
           Typed(q), IsSequence(s)
    PROVE  LET c == ClearQueue(q)
           IN  Talks(c, s, r, u, live) /\ Way(c, s, live) = s /\ ~IsActive(c)
<1> DEFINE aborted == {q.tasks[i] : i \in DOMAIN q.tasks} \union
                      (IF IsActive(q) THEN {q.active.of} ELSE {})
           a == TransferCompleted(ClearHandlers([q EXCEPT !.tasks = <<>>]))
           fields == [t \in Transfers |-> IF t \in aborted THEN Abort(a.fields[t]) ELSE a.fields[t]]
           c == ClearQueue(q)
<1>1. DOMAIN q = {"tasks", "active", "isLocked", "urgent", "waiting", "running", "nextId",
                  "lockCommands", "fields"}
  BY DEF IsQueue
<1>2. /\ DOMAIN a = DOMAIN q /\ a.tasks = <<>> /\ a.waiting = <<>> /\ a.running = q.running
  BY <1>1 DEF TransferCompleted, ClearHandlers, SendLock
<1>3. c = [a EXCEPT !.active = NoActive, !.fields = fields]
  BY DEF ClearQueue
<1> HIDE DEF a, fields, c
<1>4. c.tasks = <<>> /\ c.waiting = <<>> /\ c.running = q.running /\ c.active = NoActive
  BY <1>1, <1>2, <1>3
<1>5. \A e : ~Holds(c.tasks, e)
  BY <1>4, ShortHolds
<1>6. Talks(c, s, r, u, live) /\ Way(c, s, live) = s
  BY <1>4, <1>5, DroppedTalks
<1>7. ~IsActive(c)
  BY <1>4 DEF IsActive, NoActive
<1> QED
  BY <1>6, <1>7 DEF c

-----------------------------------------------------------------------------
(* The handlers' part of the dialog *)

\* A handler begins that leaves the transfer pending: it asks for the lock or awaits a frame.
LEMMA PendingTalks ==
    ASSUME NEW q, NEW q2, NEW s, NEW r, NEW u, NEW live, Talks(q, s, r, u, live),
           ~Waits(q), q.active.state = "Pending", IsActive(q),
           q2.tasks = q.tasks, q2.active = q.active, q2.fields = q.fields, q2.waiting = q.waiting,
           \/ q2.running = FirstFrame(q)
           \/ \E x : q2.running = Storing(q, Progress(x, "Pending", <<>>))
    PROVE  Talks(q2, s, r, u, live)
<1>1. /\ q2.running.wait \in {"store", "firstFrame"} /\ q2.running.id = q.active.id
      /\ q2.running.wait = "firstFrame" => q2.running.of = q.active.of
      /\ q2.running.wait = "store" => /\ q2.running.result.commands = <<>>
                                      /\ q2.running.result.newState = "Pending"
  <2>1. CASE q2.running = FirstFrame(q)
    BY <2>1 DEF FirstFrame
  <2>2. ASSUME NEW x, q2.running = Storing(q, Progress(x, "Pending", <<>>))
        PROVE  /\ q2.running.wait = "store" /\ q2.running.id = q.active.id
               /\ q2.running.result.commands = <<>> /\ q2.running.result.newState = "Pending"
    BY <2>2 DEF Storing, Progress
  <2> QED
    BY <2>1, <2>2
<1>2. Own(q2) /\ ~Own(q) /\ IsActive(q2)
  BY <1>1 DEF Own, IsActive, Waits
<1>3. Given(q2) = <<>> /\ Given(q) = <<>> /\ StateOf(q2) = "Pending" /\ StateOf(q) = "Pending"
  BY <1>1, <1>2 DEF Given, StateOf
<1>4. Way(q2, s, live) = Way(q, s, live)
  BY <1>3 DEF Way, Unsent
<1>5. Lined(q2)
  <2>1. ~Holds(q.tasks, q.active.of) /\ q.active.queuedCommands = <<>>
    BY <1>3 DEF Talks, Lined
  <2>2. q2.running.wait \in {"firstFrame", "nextFrame"} =>
            /\ ~Holds(q2.tasks, q2.running.of)
            /\ IsActive(q2) /\ q2.active.of = q2.running.of => Own(q2)
    BY <1>1, <1>2, <2>1
  <2>3. /\ \A i, j \in DOMAIN q2.tasks : q2.tasks[i] = q2.tasks[j] => i = j
        /\ \A t : Holds(q2.tasks, t) => q2.fields[t] = NewTransfer /\ t # q2.active.of
        /\ \A i \in DOMAIN q2.waiting : q2.waiting[i].command.type \in Answers
    BY DEF Talks, Lined
  <2>4. /\ q2.running.wait = "firstFrame" /\ Own(q2) => q2.active.state = "Pending"
        /\ q2.running.wait # "nextFrame"
    BY <1>1
  <2> QED
    BY <1>2, <1>3, <2>1, <2>2, <2>3, <2>4 DEF Lined
<1>6. DialogOf(q2, Way(q2, s, live), r, u, live)
  BY <1>3, <1>4 DEF Talks, DialogOf
<1> QED
  BY <1>3, <1>4, <1>5, <1>6 DEF Talks

\* What the device will have to take if one more result is given to the interval.
LEMMA GivenWay ==
    ASSUME NEW q, NEW q2, NEW s, NEW live, Typed(q), IsSequence(s), Given(q) = <<>>,
           q2.active.queuedCommands = q.active.queuedCommands, IsSequence(Given(q2))
    PROVE  Way(q2, s, live) = IF live THEN Way(q, s, live) \o Given(q2) ELSE s
<1>1. IsSequence(q.active.queuedCommands)
  BY WayIs
<1>2. Unsent(q) = q.active.queuedCommands
  BY <1>1, JoinThree DEF Unsent
<1>3. s \o Unsent(q2) = (s \o q.active.queuedCommands) \o Given(q2)
  <2> DEFINE a == q.active.queuedCommands
             g == Given(q2)
  <2>1. Unsent(q2) = a \o g
    BY DEF Unsent
  <2> HIDE DEF a, g
  <2>2. IsSequence(a) /\ IsSequence(g)
    BY <1>1 DEF a, g
  <2>3. (s \o a) \o g = s \o (a \o g)
    BY <2>2, JoinThree
  <2> QED
    BY <2>1, <2>3 DEF a, g
<1> QED
  BY <1>2, <1>3 DEF Way

\* The start of a transfer begins.
LEMMA StartTalks ==
    ASSUME NEW q, NEW s, NEW r, NEW u, NEW live, Talks(q, s, r, u, live), IsQueue(q), Handlers(q),
           Typed(q), IsSequence(s), q.running = Idle, IsActive(q) => q.lockCommands = <<>>
    PROVE  Talks(BeginStart(q), s, r, u, live)
<1> DEFINE t == q.active.of
           x == Active(q)
           c == Request(t, q.active.id, x.numFrames)
           b == BeginStart(q)
<1>1. ~Waits(q) /\ ~Own(q) /\ Given(q) = <<>>
  BY DEF Waits, Own, Given, Idle
<1>2. /\ DOMAIN q = {"tasks", "active", "isLocked", "urgent", "waiting", "running", "nextId",
                     "lockCommands", "fields"}
      /\ IsActive(q) => t \in Transfers
  BY DEF IsQueue, IsActive
<1>3. CASE ~IsActive(q) \/ q.active.state # "Pending"
  <2>1. b = [q EXCEPT !.running = Returning]
    BY <1>3 DEF BeginStart
  <2>2. /\ b.tasks = q.tasks /\ b.active = q.active /\ b.fields = q.fields /\ b.waiting = q.waiting
        /\ b.lockCommands = q.lockCommands /\ ~Waits(b)
    BY <1>2, <2>1 DEF Waits, Returning
  <2> HIDE DEF b
  <2>3. Given(q) = <<>> /\ StateOf(q) = q.active.state
    BY <1>1, OthersGive
  <2>4. Talks(b, s, r, u, live)
    BY <2>2, <2>3, SameTalks
  <2> QED
    BY <2>4 DEF b
<1>4. CASE IsActive(q) /\ q.active.state = "Pending"
  <2>1. CASE Locking /\ ~q.isLocked
    <3>1. b = [SendLock(q, TRUE) EXCEPT !.running = Storing(q, Progress(x, "Pending", <<>>))]
      BY <1>4, <2>1 DEF BeginStart
    <3>2. /\ b.tasks = q.tasks /\ b.active = q.active /\ b.fields = q.fields /\ b.waiting = q.waiting
          /\ b.running = Storing(q, Progress(x, "Pending", <<>>))
      BY <1>2, <3>1 DEF SendLock
    <3> HIDE DEF b, x
    <3>3. Talks(b, s, r, u, live)
      BY <1>1, <1>4, <3>2, PendingTalks
    <3> QED
      BY <3>3 DEF b
  <2>2. CASE ~(Locking /\ ~q.isLocked) /\ Kind[t] = "clip"
    <3>1. b = [q EXCEPT !.running = FirstFrame(q)]
      BY <1>4, <2>2 DEF BeginStart
    <3>2. /\ b.tasks = q.tasks /\ b.active = q.active /\ b.fields = q.fields /\ b.waiting = q.waiting
          /\ b.running = FirstFrame(q)
      BY <1>2, <3>1
    <3> HIDE DEF b
    <3>3. Talks(b, s, r, u, live)
      BY <1>1, <1>4, <3>2, PendingTalks
    <3> QED
      BY <3>3 DEF b
  <2>3. CASE ~(Locking /\ ~q.isLocked) /\ Kind[t] # "clip"
    <3> DEFINE result == StartBuffer(t, x, q.active.id)
    <3>1. b = [q EXCEPT !.running = Storing(q, result)]
      BY <1>4, <2>3 DEF BeginStart
    <3>2. result.newState = "Ready" /\ result.commands = <<c>>
      BY DEF StartBuffer, Progress
    <3> HIDE DEF result
    <3>3. /\ b.tasks = q.tasks /\ b.active = q.active /\ b.fields = q.fields /\ b.waiting = q.waiting
          /\ b.lockCommands = q.lockCommands
          /\ b.running.wait = "store" /\ b.running.result = result /\ b.running.id = q.active.id
      BY <1>2, <3>1 DEF Storing
    <3> HIDE DEF b, x, c
    <3>4. IsActive(b) /\ Own(b) /\ Given(b) = <<c>> /\ StateOf(b) = "Ready" /\ StateOf(q) = "Pending"
      BY <1>1, <1>4, <3>2, <3>3 DEF IsActive, Own, Waits, Given, StateOf
    <3> DEFINE p == Way(q, s, live)
               p2 == Way(b, s, live)
    <3>5. IsSequence(p)
      BY WayIs
    <3>6. p2 = p \/ p2 = p \o <<c>>
      <4>1. IsSequence(Given(b)) /\ b.active.queuedCommands = q.active.queuedCommands
        BY <3>3, <3>4, GivenSequences
      <4>2. Way(b, s, live) = IF live THEN Way(q, s, live) \o Given(b) ELSE s
        BY <1>1, <4>1, GivenWay
      <4>3. p2 = IF live THEN p \o <<c>> ELSE s
        BY <3>4, <4>2
      <4>4. ~live => p = s
        BY DEF Way
      <4> QED
        BY <4>3, <4>4
    <3> HIDE DEF p, p2
    <3>7. /\ Free(q.active.id, q.waiting, p, r, u) /\ q.fields[t].moved = 0 /\ Chained(p, u)
      BY <1>4, <3>4 DEF Talks, DialogOf, Dialog, p
    <3>8. Dialog(q.active.id, t, 0, "Ready", q.waiting, p2, r, u, live) /\ Chained(p2, u)
      <4>1. \A h : Holds(q.waiting, h) => \E d : h = Handle(d)
        BY DEF Handlers
      <4> DEFINE id == q.active.id
                 w == q.waiting
                 frame == x.numFrames
      <4>2. p2 = p \/ p2 = p \o <<Request(t, id, frame)>>
        BY <3>6 DEF c
      <4>3. Free(id, w, p, r, u) /\ t \in Transfers /\ \A h : Holds(w, h) => \E d : h = Handle(d)
        BY <1>2, <1>4, <3>7, <4>1
      <4> HIDE DEF id, w, frame, t
      <4>4. Dialog(id, t, 0, "Ready", w, p2, r, u, live) /\ (Chained(p, u) => Chained(p2, u))
        BY ONLY <3>5, <4>2, <4>3, RequestDialog
      <4> QED
        BY <3>7, <4>4 DEF id, w
    <3>9. DialogOf(b, p2, r, u, live)
      BY <3>3, <3>4, <3>7, <3>8 DEF DialogOf
    <3>10. Lined(b)
      BY <3>3, <3>4 DEF Talks, Lined
    <3> QED
      BY <1>4, <3>3, <3>8, <3>9, <3>10 DEF Talks, b, p2
  <2> QED
    BY <2>1, <2>2, <2>3
<1> QED
  BY <1>3, <1>4

\* The active transfer is aborted, the handler of which is running.
LEMMA AbortedTalks ==
    ASSUME NEW q, NEW s, NEW r, NEW u, NEW live, Talks(q, s, r, u, live), IsQueue(q),
           Handlers(q), Typed(q), IsSequence(s), q.running = Idle, IsActive(q),
           Free(q.nextId, q.waiting, Way(q, s, live), r, u)
    PROVE  LET a == AbortActive([q EXCEPT !.running = Returning])
           IN  /\ Talks(a, s, r, u, live) /\ Way(a, s, live) = Way(q, s, live)
               /\ IsQueue(a) /\ Handlers(a) /\ Typed(a) /\ IdIsFree(a)
               /\ Free(a.nextId, a.waiting, Way(a, s, live), r, u)
               /\ a.active = q.active /\ a.waiting = q.waiting /\ a.running = Returning
               /\ a.fields = [q.fields EXCEPT ![q.active.of] = Abort(@)]
<1> DEFINE b == [q EXCEPT !.running = Returning]
           a == AbortActive(b)
<1>1. DOMAIN q = {"tasks", "active", "isLocked", "urgent", "waiting", "running", "nextId",
                  "lockCommands", "fields"}
  BY DEF IsQueue
<1>2. /\ DOMAIN b = DOMAIN q /\ b.tasks = q.tasks /\ b.active = q.active /\ b.fields = q.fields
      /\ b.waiting = q.waiting /\ b.urgent = q.urgent /\ b.nextId = q.nextId
      /\ b.lockCommands = q.lockCommands /\ b.running = Returning
  BY <1>1
<1> HIDE DEF b
<1>3. ~Waits(q) /\ ~Waits(b) /\ Given(q) = <<>> /\ StateOf(q) = q.active.state
  BY <1>2, OthersGive DEF Waits, Idle, Returning
<1>4. q.active.of \in Transfers /\ IsTransfer(q.fields[q.active.of])
  BY DEF IsQueue, IsActive
<1>5. a = [b EXCEPT !.fields = [b.fields EXCEPT ![b.active.of] = Abort(@)]]
  BY DEF AbortActive
<1>6. /\ DOMAIN a = DOMAIN q /\ a.tasks = q.tasks /\ a.active = q.active
      /\ a.waiting = q.waiting /\ a.urgent = q.urgent /\ a.nextId = q.nextId
      /\ a.lockCommands = q.lockCommands /\ a.running = Returning
      /\ a.fields = [q.fields EXCEPT ![q.active.of] = Abort(@)]
  BY <1>1, <1>2, <1>5
<1> HIDE DEF a
<1>7. LET x == q.fields[q.active.of]
      IN  Abort(x).moved = x.moved /\ IsTransfer(Abort(x))
  BY <1>4 DEF Abort, Settle, IsTransfer
<1>8. DOMAIN q.fields = Transfers
  BY DEF IsQueue
<1>9. /\ a.fields[q.active.of] = Abort(q.fields[q.active.of])
      /\ \A t \in Transfers : t # q.active.of => a.fields[t] = q.fields[t]
  BY <1>4, <1>6, <1>8
<1>10. /\ a.fields[q.active.of].moved = q.fields[q.active.of].moved
      /\ \A t : Holds(q.tasks, t) => a.fields[t] = q.fields[t]
  <2>1. \A t : Holds(q.tasks, t) => t \in Transfers /\ t # q.active.of
    BY DEF Holds, IsQueue, Talks, Lined
  <2> QED
    BY <1>7, <1>9, <2>1
<1>11. ~Waits(a)
  BY <1>6 DEF Waits, Returning
<1>12. Talks(a, s, r, u, live) /\ Way(a, s, live) = Way(q, s, live)
  <2>1. /\ a.tasks = q.tasks /\ a.active = q.active /\ a.waiting = q.waiting
        /\ a.lockCommands \in {q.lockCommands, <<>>}
        /\ Given(q) = <<>> /\ StateOf(q) = q.active.state /\ ~Waits(a)
    BY <1>3, <1>6, <1>11
  <2> QED
    BY ONLY Talks(q, s, r, u, live), <1>10, <2>1, SameTalks
<1>13. IsQueue(a)
  <2>1. \A t \in Transfers : IsTransfer(a.fields[t])
    BY <1>7, <1>9 DEF IsQueue
  <2> QED
    BY <1>6, <2>1 DEF IsQueue
<1>14. Handlers(a)
  BY <1>6 DEF Handlers, Returning
<1>15. Typed(a)
  <2>1. \A t \in Transfers : a.fields[t].moved = q.fields[t].moved
    BY <1>7, <1>9
  <2>2. a.running.wait = "return"
    BY <1>6 DEF Returning
  <2> QED
    BY <1>6, <2>1, <2>2 DEF Typed
<1>16. IdIsFree(a) /\ Free(a.nextId, a.waiting, Way(a, s, live), r, u)
  BY <1>6, <1>11, <1>12 DEF IdIsFree
<1> QED
  BY <1>6, <1>12, <1>13, <1>14, <1>15, <1>16 DEF a, b

\* A transfer is aborted, if it is still the active one.
LEMMA AbortTalks ==
    ASSUME NEW q, NEW id, NEW s, NEW r, NEW u, NEW live, Talks(q, s, r, u, live), IsQueue(q),
           Handlers(q), Typed(q), IsSequence(s), q.running = Idle,
           Free(q.nextId, q.waiting, Way(q, s, live), r, u)
    PROVE  Talks(BeginAbort(q, id), s, r, u, live)
<1>1. CASE ~(IsActive(q) /\ q.active.id = id)
  <2> DEFINE b == [q EXCEPT !.running = Returning]
  <2>1. /\ b.tasks = q.tasks /\ b.active = q.active /\ b.fields = q.fields
        /\ b.waiting = q.waiting /\ b.lockCommands = q.lockCommands /\ b.running = Returning
    BY DEF IsQueue
  <2>2. BeginAbort(q, id) = b
    BY <1>1 DEF BeginAbort
  <2> HIDE DEF b
  <2>3. ~Waits(q) /\ ~Waits(b) /\ Given(q) = <<>> /\ StateOf(q) = q.active.state
    BY <2>1, OthersGive DEF Waits, Idle, Returning
  <2> QED
    BY <2>1, <2>2, <2>3, SameTalks
<1>2. CASE IsActive(q) /\ q.active.id = id
  <2> DEFINE a == AbortActive([q EXCEPT !.running = Returning])
  <2>1. BeginAbort(q, id) = EndActive(a)
    BY <1>2 DEF BeginAbort
  <2>2. /\ Talks(a, s, r, u, live) /\ IsQueue(a) /\ Handlers(a) /\ Typed(a) /\ IdIsFree(a)
        /\ Free(a.nextId, a.waiting, Way(a, s, live), r, u)
    BY <1>2, AbortedTalks
  <2> HIDE DEF a
  <2> QED
    BY <2>1, <2>2, EndTalks
<1> QED
  BY <1>1, <1>2

\* A command is taken that nobody waits for.
LEMMA IgnoredTalks ==
    ASSUME NEW q, NEW q2, NEW s, NEW r, NEW u, NEW live, Talks(q, s, r, u, live),
           IsSequence(q.waiting), q.waiting # <<>>, q2.waiting = Tail(q.waiting),
           q2.tasks = q.tasks, q2.active = q.active, q2.fields = q.fields,
           q2.lockCommands = q.lockCommands, ~Waits(q), ~Waits(q2)
    PROVE  Talks(q2, s, r, u, live)
<1> DEFINE w == q.waiting
<1>1. /\ ~Own(q) /\ ~Own(q2) /\ (IsActive(q2) <=> IsActive(q))
      /\ q2.running.wait \notin {"firstFrame", "nextFrame"}
  BY DEF Own, IsActive, Waits
<1>2. Given(q2) = Given(q) /\ StateOf(q2) = StateOf(q)
  BY <1>1 DEF Given, StateOf
<1>3. Way(q2, s, live) = Way(q, s, live)
  BY <1>2 DEF Way, Unsent
<1>4. /\ IsSequence(Tail(w)) /\ \A x : Holds(Tail(w), x) => Holds(w, x)
      /\ \A i \in DOMAIN Tail(w) : i + 1 \in DOMAIN w /\ Tail(w)[i] = w[i + 1]
  BY TailHolds, RestAt
<1>5. \A c : Heard(Tail(w), r, c) => Heard(w, r, c)
  BY <1>4 DEF Heard
<1>6. Lined(q2)
  <2>1. \A i \in DOMAIN q2.waiting : q2.waiting[i].command.type \in Answers
    BY <1>4 DEF Talks, Lined
  <2> QED
    BY <1>1, <1>2, <2>1 DEF Talks, Lined
<1>7. ASSUME IsActive(q2) PROVE DialogOf(q2, Way(q2, s, live), r, u, live)
  <2> DEFINE id == q.active.id
             t == q.active.of
             moved == q.fields[t].moved
             state == StateOf(q)
             p == Way(q, s, live)
  <2>1. Dialog(id, t, moved, state, w, p, r, u, live)
    BY <1>1, <1>7 DEF Talks, DialogOf
  <2> HIDE DEF moved, state, p
  <2>2. LastWord(id, w, r, u) => LastWord(id, Tail(w), r, u)
    BY HandledHeard
  <2>3. Dialog(id, t, moved, state, Tail(w), p, r, u, live)
    BY <1>5, <2>1, <2>2, LessHeard
  <2> QED
    BY <1>2, <1>3, <2>3 DEF DialogOf, moved, state, p
<1> QED
  BY <1>1, <1>2, <1>3, <1>5, <1>6, <1>7 DEF Talks

\* The active transfer handles a command, up to its first await.
LEMMA HandleTalks ==
    ASSUME NEW q, NEW c, NEW s, NEW r, NEW u, NEW live, Talks(q, s, r, u, live), IsQueue(q),
           Handlers(q), Typed(q), IsSequence(s), q.running = Idle, q.waiting # <<>>,
           Head(q.waiting) = Handle(c)
    PROVE  Talks(BeginHandle([q EXCEPT !.waiting = Tail(@)], c), s, r, u, live)
<1> DEFINE a == [q EXCEPT !.waiting = Tail(@)]
           b == BeginHandle(a, c)
           t == q.active.of
           x == Active(q)
           result == HandleCommand(t, x, c, q.active.state)
           newState == IF result.frameDone THEN "Between" ELSE result.newState
           w == q.waiting
           id == q.active.id
           p == Way(q, s, live)
<1>1. /\ DOMAIN q = {"tasks", "active", "isLocked", "urgent", "waiting", "running", "nextId",
                     "lockCommands", "fields"}
      /\ DOMAIN q.fields = Transfers /\ IsSequence(w)
  BY DEF IsQueue, Handlers
<1>2. /\ DOMAIN a = DOMAIN q /\ a.tasks = q.tasks /\ a.active = q.active /\ a.fields = q.fields
      /\ a.waiting = Tail(w) /\ a.lockCommands = q.lockCommands
  BY <1>1
<1>3. ~Waits(q) /\ ~Own(q) /\ Given(q) = <<>> /\ StateOf(q) = q.active.state
  BY DEF Waits, Own, Given, StateOf, Idle
<1>4. CASE ~IsActive(q) \/ q.active.id # c.id \/ q.active.state = "Pending"
  <2>1. b = [a EXCEPT !.running = Returning]
    BY <1>2, <1>4 DEF BeginHandle, IsActive
  <2> HIDE DEF a
  <2>2. /\ b.tasks = q.tasks /\ b.active = q.active /\ b.fields = q.fields
        /\ b.waiting = Tail(w) /\ b.lockCommands = q.lockCommands /\ ~Waits(b)
    BY <1>1, <1>2, <2>1 DEF Waits, Returning
  <2> HIDE DEF b
  <2>3. Talks(b, s, r, u, live)
    BY <1>1, <1>3, <2>2, IgnoredTalks
  <2> QED
    BY <2>3 DEF b, a
<1>5. CASE IsActive(q) /\ id = c.id /\ q.active.state # "Pending"
  <2>1. t \in Transfers /\ IsTransfer(x) /\ x = q.fields[t] /\ x.moved \in Int
    BY <1>5 DEF IsQueue, IsActive, Active, Typed
  <2>2. b = [a EXCEPT !.fields[t] = result.fields,
                      !.running = IF result.frameDone THEN FrameAfter(a, result)
                                                      ELSE Storing(a, result)]
    BY <1>2, <1>5 DEF BeginHandle, IsActive, Active
  <2> HIDE DEF a, b, result, x
  <2>3. /\ b.tasks = q.tasks /\ b.active = q.active /\ b.waiting = Tail(w)
        /\ b.lockCommands = q.lockCommands
        /\ b.fields[t] = result.fields /\ \A e : e \in Transfers /\ e # t => b.fields[e] = q.fields[e]
        /\ b.running = IF result.frameDone THEN FrameAfter(a, result) ELSE Storing(a, result)
    BY <1>1, <1>2, <2>1, <2>2
  <2>4. /\ b.running.id = id
        /\ result.frameDone => /\ b.running.wait = "nextFrame" /\ b.running.of = t
                               /\ b.running.commands = result.commands
        /\ ~result.frameDone => b.running.wait = "store" /\ b.running.result = result
    BY <1>2, <2>3 DEF FrameAfter, Storing
  <2>5. 1 \in DOMAIN w /\ Head(w) = w[1]
    BY <1>1, RestAt
  <2>6. Holds(w, Handle(c)) /\ Heard(w, r, c)
    BY <2>5 DEF Holds, Heard
  <2>7. c.type \in Answers /\ Answer(c)
    <3>1. w[1].command = c
      BY <2>5 DEF Handle
    <3> QED
      BY <2>5, <2>6, <3>1 DEF Talks, Lined
  <2>8. Dialog(id, t, x.moved, q.active.state, w, p, r, u, live) /\ Chained(p, u) /\ IsSequence(p)
    <3>1. IsSequence(p)
      BY WayIs
    <3> QED
      BY <1>3, <1>5, <2>1, <3>1 DEF Talks, DialogOf
  <2> HIDE DEF w, id, p, t
  <2> DEFINE p2 == IF live THEN p \o result.commands ELSE p
  <2>9. /\ Dialog(id, t, result.fields.moved, newState, Tail(w), p2, r, u, live)
        /\ Chained(p2, u) /\ newState # "Pending"
        /\ result.frameDone => result.commands = <<>>
    <3> DEFINE state == q.active.state
    <3>1. result = HandleCommand(t, x, c, state)
      BY DEF result
    <3>2. IsSequence(w) /\ w # <<>> /\ Head(w) = Handle(c) /\ c.id = id
      BY <1>1, <1>5 DEF w, id
    <3> HIDE DEF state
    <3>3. Dialog(id, t, x.moved, state, w, p, r, u, live)
      BY <2>8 DEF state
    <3>4. IsTransfer(x) /\ t \in Transfers /\ IsSequence(p) /\ Chained(p, u)
          /\ c.type \in Answers /\ Answer(c)
      BY <2>1, <2>7, <2>8
    <3>5. Answered(HandleCommand(t, x, c, state), id, t, w, p, r, u, live)
      BY ONLY <3>2, <3>3, <3>4, AnswerDialog
    <3> QED
      BY <3>1, <3>5 DEF Answered
  <2>10. IsSequence(result.commands)
    <3>1. Counted(c)
      BY <2>7 DEF Answer, Counted
    <3>2. Orders(result.commands)
      BY <2>1, <3>1, AnswerTyped DEF result
    <3> QED
      BY <3>2 DEF Orders
  <2>11. IsActive(b) /\ Own(b) /\ Given(b) = result.commands /\ StateOf(b) = newState
    <3>1. IsActive(b)
      BY <1>5, <2>3 DEF IsActive
    <3>2. Own(b)
      BY <2>3, <2>4, <3>1 DEF Own, Waits, id
    <3> QED
      BY <2>4, <2>9, <3>1, <3>2 DEF Given, StateOf
  <2>12. Way(b, s, live) = p2
    <3>1. Way(b, s, live) = IF live THEN Way(q, s, live) \o Given(b) ELSE s
      <4>1. b.active.queuedCommands = q.active.queuedCommands /\ IsSequence(Given(b))
        BY <2>3, <2>10, <2>11
      <4> QED
        BY ONLY Typed(q), IsSequence(s), <1>3, <4>1, GivenWay, SMTT(30)
    <3>2. ~live => p = s
      BY DEF Way, p
    <3> QED
      BY <2>11, <3>1, <3>2 DEF p
  <2>13. \A e : Holds(Tail(w), e) => Holds(w, e)
    BY <1>1, TailHolds DEF w
  <2>14. \A d : Heard(Tail(w), r, d) => Heard(w, r, d)
    BY <2>13 DEF Heard
  <2>15. Lined(b)
    <3>1. \A e : Holds(q.tasks, e) => q.fields[e] = NewTransfer /\ e # t
      BY DEF Talks, Lined, t
    <3>2. \A e : Holds(q.tasks, e) => e \in Transfers
      BY DEF Holds, IsQueue
    <3>3. \A e : Holds(b.tasks, e) => b.fields[e] = NewTransfer /\ e # b.active.of
      BY <2>3, <3>1, <3>2 DEF t
    <3>4. \A i, j \in DOMAIN b.tasks : b.tasks[i] = b.tasks[j] => i = j
      BY <2>3 DEF Talks, Lined
    <3>5. \A i \in DOMAIN b.waiting : b.waiting[i].command.type \in Answers
      <4>1. \A i \in DOMAIN Tail(w) : i + 1 \in DOMAIN w /\ Tail(w)[i] = w[i + 1]
        BY <1>1, RestAt DEF w
      <4> QED
        BY <2>3, <4>1 DEF Talks, Lined, w
    <3>6. q.active.state \in States
      BY <2>8 DEF Dialog
    <3>7. /\ b.running.wait \in {"firstFrame", "nextFrame"} => ~Holds(b.tasks, b.running.of)
          /\ b.running.wait # "firstFrame"
          /\ b.running.wait = "nextFrame" =>
                b.running.commands = <<>> /\ b.active.state \in States \ {"Pending"}
      BY <1>5, <2>3, <2>4, <2>9, <3>1, <3>6
    <3>8. StateOf(b) # "Pending"
      BY <2>9, <2>11
    <3> QED
      BY <2>11, <3>3, <3>4, <3>5, <3>7, <3>8 DEF Lined
  <2>16. DialogOf(b, Way(b, s, live), r, u, live)
    <3>1. b.active.id = id /\ b.active.of = t
      BY <2>3 DEF id, t
    <3> QED
      BY <2>3, <2>9, <2>11, <2>12, <3>1 DEF DialogOf
  <2>17. b.lockCommands = <<>>
    BY <1>3, <1>5, <2>3 DEF Talks
  <2>18. \A d : Heard(b.waiting, r, d) => Answer(d)
    BY <2>3, <2>14 DEF Talks, w
  <2>19. Talks(b, s, r, u, live)
    BY <2>9, <2>12, <2>15, <2>16, <2>17, <2>18 DEF Talks
  <2> QED
    BY <2>19 DEF b, a
<1> QED
  BY <1>4, <1>5

\* The next handler begins.
LEMMA RunNextTalks ==
    ASSUME NEW q, NEW s, NEW r, NEW u, NEW live, Talks(q, s, r, u, live), Formed(q),
           IsSequence(s), IsActive(q) => q.lockCommands = <<>>,
           Free(q.nextId, q.waiting, Way(q, s, live), r, u)
    PROVE  Talks(RunNext(q), s, r, u, live)
<1> DEFINE a == [q EXCEPT !.urgent = Tail(@)]
           h == Head(q.urgent)
           d == Head(q.waiting)
<1>1. IsQueue(q) /\ Handlers(q) /\ Typed(q)
  BY DEF Formed
<1>2. DOMAIN q = {"tasks", "active", "isLocked", "urgent", "waiting", "running", "nextId",
                  "lockCommands", "fields"}
  BY <1>1 DEF IsQueue
<1>3. CASE q.running # Idle \/ (q.urgent = <<>> /\ q.waiting = <<>>)
  <2>1. RunNext(q) = q
    BY <1>3 DEF RunNext
  <2> QED
    BY <2>1
<1>4. CASE q.running = Idle /\ q.urgent # <<>>
  <2>1. RunNext(q) = Begin(a, h)
    BY <1>4 DEF RunNext
  <2>2. /\ IsSequence(q.urgent) /\ IsSequence(Tail(q.urgent))
        /\ \A x : Holds(q.urgent, x) <=> x = h \/ Holds(Tail(q.urgent), x)
    BY <1>1, <1>4, TailHolds DEF Handlers
  <2>3. /\ DOMAIN a = DOMAIN q /\ a.urgent = Tail(q.urgent) /\ a.tasks = q.tasks /\ a.active = q.active
        /\ a.fields = q.fields /\ a.waiting = q.waiting /\ a.running = Idle
        /\ a.lockCommands = q.lockCommands /\ a.nextId = q.nextId
    BY <1>2, <1>4
  <2> HIDE DEF a, h
  <2>4. IsQueue(a)
    BY <1>1, <2>3 DEF IsQueue
  <2>5. Handlers(a)
    BY <1>1, <2>2, <2>3 DEF Handlers, Idle
  <2>6. Typed(a)
    BY <1>1, <2>3 DEF Typed, Idle
  <2>7. Talks(a, s, r, u, live) /\ Way(a, s, live) = Way(q, s, live)
    <3>1. a.running = q.running /\ a.lockCommands \in {q.lockCommands, <<>>}
      BY <1>4, <2>3
    <3> QED
      BY <2>3, <3>1, SameTalks
  <2>8. h = Start \/ \E id : h = AbortOf(id)
    BY <1>1, <2>2 DEF Handlers
  <2>9. CASE h = Start
    <3>1. Begin(a, h) = BeginStart(a)
      BY <2>9 DEF Begin, Start
    <3>2. IsActive(a) => a.lockCommands = <<>>
      BY <2>3 DEF IsActive
    <3>3. Talks(BeginStart(a), s, r, u, live)
      BY <2>3, <2>4, <2>5, <2>6, <2>7, <3>2, StartTalks
    <3> QED
      BY <2>1, <3>1, <3>3
  <2>10. ASSUME NEW id, h = AbortOf(id) PROVE Talks(RunNext(q), s, r, u, live)
    <3>1. Begin(a, h) = BeginAbort(a, id)
      BY <2>10 DEF Begin, AbortOf
    <3>2. Free(a.nextId, a.waiting, Way(a, s, live), r, u)
      BY <2>3, <2>7
    <3>3. Talks(BeginAbort(a, id), s, r, u, live)
      BY <2>3, <2>4, <2>5, <2>6, <2>7, <3>2, AbortTalks
    <3> QED
      BY <2>1, <3>1, <3>3
  <2> QED
    BY <2>8, <2>9, <2>10
<1>5. CASE q.running = Idle /\ q.urgent = <<>> /\ q.waiting # <<>>
  <2> DEFINE b == [q EXCEPT !.waiting = Tail(@)]
  <2>1. RunNext(q) = Begin(b, d)
    BY <1>5 DEF RunNext
  <2>2. Holds(q.waiting, d)
    BY <1>1, <1>5, TailHolds DEF Handlers
  <2>3. PICK c : d = Handle(c)
    BY <1>1, <2>2 DEF Handlers
  <2>4. Begin(b, d) = BeginHandle(b, c)
    BY <2>3 DEF Begin, Handle
  <2>5. Talks(BeginHandle(b, c), s, r, u, live)
    BY <1>1, <1>5, <2>3, HandleTalks
  <2> QED
    BY <2>1, <2>4, <2>5
<1> QED
  BY <1>3, <1>4, <1>5

\* A number stays free if what is sent more is not about it.
LEMMA SentFree ==
    ASSUME NEW id, NEW w, NEW p, NEW r, NEW u, NEW l, IsSequence(p), IsSequence(l),
           Free(id, w, p, r, u), \A i \in DOMAIN l : ~About(l[i], id)
    PROVE  Free(id, w, p \o l, r, u)
<1>1. \A i \in DOMAIN (p \o l) : ~About((p \o l)[i], id)
  <2>1. /\ Len(p) \in Nat /\ Len(l) \in Nat /\ DOMAIN p = 1 .. Len(p) /\ DOMAIN l = 1 .. Len(l)
        /\ DOMAIN (p \o l) = 1 .. Len(p) + Len(l)
        /\ \A i \in 1 .. Len(p) : (p \o l)[i] = p[i]
        /\ \A i \in 1 .. Len(l) : (p \o l)[Len(p) + i] = l[i]
    BY JoinAt
  <2> DEFINE t == p \o l
  <2> HIDE DEF t
  <2>2. ASSUME NEW i \in 1 .. Len(p) + Len(l) PROVE ~About(t[i], id)
    <3>1. CASE i <= Len(p)
      <4>1. i \in DOMAIN p /\ t[i] = p[i]
        BY <2>1, <2>2, <3>1 DEF t
      <4> QED
        BY <4>1 DEF Free
    <3>2. CASE ~(i <= Len(p))
      <4>1. i - Len(p) \in 1 .. Len(l) /\ i = Len(p) + (i - Len(p))
        BY <2>1, <2>2, <3>2
      <4>2. t[i] = l[i - Len(p)] /\ i - Len(p) \in DOMAIN l
        BY <2>1, <4>1 DEF t
      <4> QED
        BY <4>2
    <3> QED
      BY <3>1, <3>2
  <2> QED
    BY <2>1, <2>2 DEF t
<1> QED
  BY <1>1 DEF Free

\* A frame is over; what becomes of the clip is not the device's concern.
LEMMA BetweenDialog ==
    ASSUME NEW id, NEW t, NEW moved, NEW w, NEW p, NEW r, NEW u, NEW live,
           NEW state \in States \ {"Pending"}, Dialog(id, t, moved, "Between", w, p, r, u, live)
    PROVE  Dialog(id, t, moved, state, w, p, r, u, live)
BY DEF Dialog, Uploads, States

\* The running handler ends, and what it gave is with the interval.
LEMMA RestsTalks ==
    ASSUME NEW q, NEW h, NEW s, NEW r, NEW u, NEW live, Talks(q, s, r, u, live), IsActive(q),
           h.running = Idle, h.tasks = q.tasks, h.waiting = q.waiting, h.lockCommands = <<>>,
           h.active.of = q.active.of, \A t : Holds(q.tasks, t) => h.fields[t] = q.fields[t],
           Chained(Way(h, s, live), u),
           Dialog(h.active.id, h.active.of, h.fields[h.active.of].moved, h.active.state, h.waiting,
                  Way(h, s, live), r, u, live),
           h.active.state = "Pending" => h.active.queuedCommands = <<>>
    PROVE  Talks(h, s, r, u, live)
<1>1. IsActive(h) /\ ~Own(h) /\ ~Waits(h)
  BY DEF IsActive, Own, Waits, Idle
<1>2. Given(h) = <<>> /\ StateOf(h) = h.active.state
  BY <1>1, OthersGive
<1>3. h.running.wait \notin {"firstFrame", "nextFrame"}
  BY DEF Idle
<1>4. Lined(h)
  BY <1>1, <1>2, <1>3 DEF Talks, Lined
<1>5. DialogOf(h, Way(h, s, live), r, u, live)
  BY <1>2 DEF DialogOf
<1> QED
  BY <1>1, <1>4, <1>5 DEF Talks

\* A result is stored: what it gives is with the interval.
LEMMA StoredTalks ==
    ASSUME NEW q, NEW s, NEW r, NEW u, NEW live, Talks(q, s, r, u, live), Good(q), Typed(q),
           IsSequence(s), q.running.wait = "store", q.lockCommands = <<>>
    PROVE  LET h == HandlerDone(Resumed(q))
           IN  Talks(h, s, r, u, live) /\ Way(h, s, live) = Way(q, s, live) /\ h.nextId = q.nextId
<1> DEFINE a == Resumed(q)
           h == HandlerDone(a)
           id == q.running.id
           result == q.running.result
<1>1. /\ DOMAIN q = {"tasks", "active", "isLocked", "urgent", "waiting", "running", "nextId",
                     "lockCommands", "fields"}
      /\ DOMAIN q.active = {"id", "of", "state", "queuedCommands"}
  BY DEF Good, Begun, IsQueue
<1>2. Rests(q, h)
  <2>1. q.running # Idle
    BY DEF Idle
  <2> QED
    BY <2>1, ResumedRests
<1>3. a = StoreResult(q, id, result)
  BY DEF Resumed
<1>4. /\ DOMAIN a = DOMAIN q /\ a.fields = q.fields /\ a.active.of = q.active.of
      /\ a.active.id = q.active.id
  BY <1>1, <1>3, StoreEffect DEF SameHandlers
<1>5. a.nextId = q.nextId
  BY <1>1, <1>3, StoreSends
<1> HIDE DEF a
<1>6. h.fields = q.fields /\ h.active = a.active /\ h.nextId = q.nextId
  BY <1>1, <1>4, <1>5 DEF HandlerDone
<1> HIDE DEF h
<1>7. /\ h.running = Idle /\ h.tasks = q.tasks /\ h.waiting = q.waiting /\ h.lockCommands = <<>>
      /\ ~Own(q) => h.active = q.active
      /\ Own(q) => /\ h.active.state = result.newState
                   /\ h.active.queuedCommands = q.active.queuedCommands \o result.commands
  BY <1>2 DEF Rests
<1>8. ~Waits(h) /\ ~Own(h)
  BY <1>7 DEF Waits, Own, Idle
<1>9. CASE ~Own(q)
  <2>1. Given(q) = <<>> /\ StateOf(q) = q.active.state
    BY <1>9, OthersGive
  <2> HIDE DEF result, id
  <2>2. Talks(h, s, r, u, live) /\ Way(h, s, live) = Way(q, s, live)
    BY <1>6, <1>7, <1>8, <1>9, <2>1, SameTalks
  <2> QED
    BY <1>6, <2>2 DEF h, a
<1>10. CASE Own(q)
  <2>1. IsActive(q) /\ Given(q) = result.commands /\ StateOf(q) = result.newState
    BY <1>10 DEF Own, Given, StateOf
  <2>2. Given(h) = <<>>
    BY <1>8 DEF Given
  <2>3. Unsent(h) = Unsent(q)
    <3>1. IsSequence(h.active.queuedCommands)
      <4>1. IsSequence(q.active.queuedCommands) /\ IsSequence(Given(q))
        BY WayIs
      <4> QED
        BY <1>7, <1>10, <2>1, <4>1, JoinThree
    <3>2. h.active.queuedCommands \o <<>> = h.active.queuedCommands
      BY <3>1, JoinThree
    <3> QED
      BY <1>7, <1>10, <2>1, <2>2, <3>2 DEF Unsent
  <2>4. Way(h, s, live) = Way(q, s, live)
    BY <2>3 DEF Way
  <2>5. Chained(Way(h, s, live), u)
    BY <2>4 DEF Talks
  <2>6. Dialog(h.active.id, h.active.of, h.fields[h.active.of].moved, h.active.state, h.waiting,
               Way(h, s, live), r, u, live)
    BY <1>4, <1>6, <1>7, <1>10, <2>1, <2>4 DEF Talks, DialogOf
  <2>7. h.active.state = "Pending" => h.active.queuedCommands = <<>>
    <3>1. h.active.state = "Pending" => q.active.queuedCommands = <<>> /\ result.commands = <<>>
      BY <1>7, <1>10, <2>1 DEF Talks, Lined
    <3>2. <<>> \o <<>> = <<>>
      OBVIOUS
    <3> QED
      BY <1>7, <1>10, <3>1, <3>2
  <2> HIDE DEF result, id
  <2>8. h.active.of = q.active.of /\ \A t : Holds(q.tasks, t) => h.fields[t] = q.fields[t]
    BY <1>4, <1>6
  <2>9. Talks(h, s, r, u, live)
    BY <1>7, <2>1, <2>5, <2>6, <2>7, <2>8, RestsTalks
  <2> QED
    BY <1>6, <2>4, <2>9 DEF h, a
<1> QED
  BY <1>9, <1>10

\* A clip begins with its first frame.
LEMMA FirstFrameTalks ==
    ASSUME NEW q, NEW s, NEW r, NEW u, NEW live, Talks(q, s, r, u, live), Good(q), Typed(q),
           IsSequence(s), q.running.wait = "firstFrame", q.lockCommands = <<>>,
           NEW next, next # q.running.id, Free(next, q.waiting, Way(q, s, live), r, u)
    PROVE  LET h == HandlerDone(Resumed(q))
           IN  /\ Talks(h, s, r, u, live) /\ h.nextId = q.nextId
               /\ Free(next, h.waiting, Way(h, s, live), r, u)
<1> DEFINE a == Resumed(q)
           h == HandlerDone(a)
           id == q.running.id
           t == q.running.of
           x == q.fields[t]
           result == StartClip(t, x, id)
           b == StoreFields(q, t, result)
           p == Way(q, s, live)
           p2 == Way(h, s, live)
<1>1. /\ DOMAIN q = {"tasks", "active", "isLocked", "urgent", "waiting", "running", "nextId",
                     "lockCommands", "fields"}
      /\ DOMAIN q.active = {"id", "of", "state", "queuedCommands"}
      /\ DOMAIN q.fields = Transfers /\ t \in Transfers /\ IsTransfer(x)
  BY DEF Good, Begun, IsQueue, OwnFrame
<1>2. Rests(q, h)
  <2>1. q.running # Idle
    BY DEF Idle
  <2> QED
    BY <2>1, ResumedRests
<1>3. Given(q) = <<>> /\ StateOf(q) = q.active.state
  BY OthersGive
<1>4. /\ ~Holds(q.tasks, t) /\ (IsActive(q) /\ q.active.of = t => Own(q))
      /\ Own(q) => q.active.state = "Pending" /\ q.active.of = t /\ id = q.active.id /\ IsActive(q)
  BY DEF Talks, Lined, Good, Begun, OwnFrame, Own
<1>5. ~Waits(h) /\ ~Own(h) /\ Given(h) = <<>>
  BY <1>2 DEF Rests, Waits, Own, Idle, Given
<1>6. /\ h.running = Idle /\ h.tasks = q.tasks /\ h.waiting = q.waiting /\ h.lockCommands = <<>>
      /\ ~Own(q) => h.active = q.active
  BY <1>2 DEF Rests
<1>7. CASE NoFrames(q)
  <2>1. a = q
    BY <1>7 DEF Resumed
  <2>2. h.fields = q.fields /\ h.active = q.active /\ h.nextId = q.nextId
    BY <1>1, <2>1 DEF HandlerDone
  <2> HIDE DEF h, a, x, t, id
  <2>3. Talks(h, s, r, u, live) /\ Way(h, s, live) = Way(q, s, live)
    BY <1>3, <1>5, <1>6, <2>2, SameTalks
  <2> QED
    BY <1>6, <2>2, <2>3 DEF h, a
<1>8. CASE ~NoFrames(q)
  <2>1. a = StoreResult(b, id, result)
    BY <1>8 DEF Resumed, ResumeStartClip
  <2>2. /\ result.newState = "Ready" /\ result.fields.moved = 0
        /\ result.commands = <<ClearClip>> \o <<Request(t, id, x.numFrames + 1)>>
    <3>1. TakeFrame(x).numFrames = x.numFrames + 1 /\ TakeFrame(x).moved = 0
      BY <1>1 DEF TakeFrame, IsTransfer
    <3> QED
      BY <3>1 DEF StartClip, StartBuffer, Progress
  <2> HIDE DEF result
  <2>3. /\ DOMAIN b = DOMAIN q /\ b.active = q.active /\ b.nextId = q.nextId
        /\ b.fields = [q.fields EXCEPT ![t] = result.fields]
    BY <1>1 DEF StoreFields
  <2> HIDE DEF b
  <2>4. /\ DOMAIN a = DOMAIN q /\ a.fields = b.fields /\ a.active.of = q.active.of
        /\ a.active.id = q.active.id
        /\ a.active.state = IF IsActive(b) /\ b.active.id = id THEN result.newState
                                                               ELSE b.active.state
    BY <1>1, <2>1, <2>3, StoreEffect DEF SameHandlers
  <2>5. /\ a.nextId = q.nextId
        /\ a.active.queuedCommands = IF IsActive(b) /\ b.active.id = id
                                     THEN b.active.queuedCommands \o result.commands
                                     ELSE b.active.queuedCommands
    BY <1>1, <2>1, <2>3, StoreSends
  <2> HIDE DEF a
  <2>6. h.fields = [q.fields EXCEPT ![t] = result.fields] /\ h.active = a.active /\ h.nextId = q.nextId
    BY <1>1, <2>3, <2>4, <2>5 DEF HandlerDone
  <2>7. h.fields[t] = result.fields /\ \A e \in Transfers : e # t => h.fields[e] = q.fields[e]
    BY <1>1, <2>6
  <2>8. \A e : Holds(q.tasks, e) => h.fields[e] = q.fields[e]
    <3>1. \A e : Holds(q.tasks, e) => e \in Transfers /\ e # t
      BY <1>4 DEF Holds, Good, Begun, IsQueue
    <3> QED
      BY <2>7, <3>1
  <2> HIDE DEF h
  <2>9. CASE ~Own(q)
    <3>1. IsActive(q) => h.fields[q.active.of] = q.fields[q.active.of]
      <4>1. IsActive(q) => q.active.of \in Transfers /\ q.active.of # t
        BY <1>4, <2>9 DEF Good, Begun, IsQueue, IsActive
      <4> QED
        BY <2>7, <4>1
    <3> HIDE DEF t, id, x
    <3>2. Talks(h, s, r, u, live) /\ Way(h, s, live) = Way(q, s, live)
      BY <1>3, <1>5, <1>6, <2>8, <2>9, <3>1, SameTalks
    <3> QED
      BY <1>6, <2>6, <3>2 DEF h, a
  <2>10. CASE Own(q)
    <3>1. /\ IsActive(b) /\ b.active.id = id /\ q.active.queuedCommands = <<>>
      BY <1>3, <1>4, <2>3, <2>10 DEF IsActive, Talks, Lined
    <3> DEFINE e == <<ClearClip>>
               f == Request(t, id, x.numFrames + 1)
               k == s \o e
    <3>2. /\ h.active.state = "Ready" /\ h.active.id = id /\ h.active.of = t
          /\ h.active.queuedCommands = <<>> \o (e \o <<f>>)
      BY <1>4, <2>2, <2>3, <2>4, <2>5, <2>6, <2>10, <3>1
    <3>3. IsSequence(e) /\ IsSequence(<<f>>) /\ IsSequence(k)
      BY GivenSequences, JoinThree
    <3>4. \A i \in DOMAIN e : Other(e[i])
      BY DEF Other, ClearClip, Parts, Answers
    <3>5. p = s
      BY <1>3, <3>1, NothingUnsent
    <3>6. p2 = IF live THEN k \o <<f>> ELSE s
      <4> HIDE DEF e, f
      <4>1. IsSequence(e \o <<f>>) /\ <<>> \o (e \o <<f>>) = e \o <<f>> /\ (e \o <<f>>) \o <<>> = e \o <<f>>
        BY <3>3, JoinThree
      <4>2. Unsent(h) = e \o <<f>>
        BY <1>5, <3>2, <4>1 DEF Unsent
      <4>3. s \o (e \o <<f>>) = (s \o e) \o <<f>>
        BY <3>3, JoinThree
      <4> QED
        BY <4>2, <4>3 DEF Way
    <3>7. /\ Free(id, q.waiting, s, r, u) /\ Chained(s, u)
      BY <1>3, <1>4, <2>10, <3>5 DEF Talks, DialogOf, Dialog
    <3>8. \A i \in DOMAIN e : \A n : ~About(e[i], n)
      BY <3>4 DEF Other, About
    <3>9. \A l : Holds(q.waiting, l) => \E d : l = Handle(d)
      BY DEF Good, Begun, Handlers
    <3> HIDE DEF e, f, p2
    <3>10. Free(id, q.waiting, k, r, u) /\ Chained(k, u)
      <4>1. Free(id, q.waiting, k, r, u)
        BY <3>3, <3>7, <3>8, SentFree
      <4>2. Chained(k, u)
        BY <3>3, <3>4, <3>7, OthersChained
      <4> QED
        BY <4>1, <4>2
    <3> HIDE DEF k
    <3>11. Dialog(id, t, 0, "Ready", q.waiting, p2, r, u, live) /\ Chained(p2, u)
      <4> DEFINE w == q.waiting
                 frame == x.numFrames + 1
      <4>1. /\ Free(id, w, k, r, u) /\ Free(id, w, s, r, u)
            /\ \A l : Holds(w, l) => \E d : l = Handle(d)
        BY <3>7, <3>9, <3>10
      <4>2. f = Request(t, id, frame)
        BY DEF f
      <4> HIDE DEF w, frame, id, t
      <4>3. CASE live
        <5>1. p2 = k \/ p2 = k \o <<Request(t, id, frame)>>
          BY <3>6, <4>2, <4>3
        <5>2. t \in Transfers /\ IsSequence(k) /\ Free(id, w, k, r, u)
              /\ \A l : Holds(w, l) => \E d : l = Handle(d)
          BY <1>1, <3>3, <4>1
        <5>3. Dialog(id, t, 0, "Ready", w, p2, r, u, live) /\ (Chained(k, u) => Chained(p2, u))
          BY ONLY <5>1, <5>2, RequestDialog
        <5> QED
          BY <3>10, <5>3 DEF w
      <4>4. CASE ~live
        <5>1. p2 = s \/ p2 = s \o <<Request(t, id, frame)>>
          BY <3>6, <4>4
        <5>2. t \in Transfers /\ IsSequence(s) /\ Free(id, w, s, r, u)
              /\ \A l : Holds(w, l) => \E d : l = Handle(d)
          BY <1>1, <4>1
        <5>3. Dialog(id, t, 0, "Ready", w, p2, r, u, live) /\ (Chained(s, u) => Chained(p2, u))
          BY ONLY <5>1, <5>2, RequestDialog
        <5> QED
          BY <3>7, <5>3 DEF w
      <4> QED
        BY <4>3, <4>4
    <3>12. Free(next, q.waiting, p2, r, u)
      <4>1. Free(next, q.waiting, s, r, u)
        BY <3>5
      <4>2. Free(next, q.waiting, k, r, u)
        BY <3>3, <3>8, <4>1, SentFree DEF k
      <4>3. \A i \in DOMAIN <<f>> : ~About(<<f>>[i], next)
        BY DEF f, Request, About
      <4>4. Free(next, q.waiting, k \o <<f>>, r, u)
        BY <3>3, <4>2, <4>3, SentFree
      <4> QED
        BY <3>6, <4>1, <4>4
    <3>13. Talks(h, s, r, u, live)
      <4>1. Dialog(h.active.id, h.active.of, h.fields[h.active.of].moved, h.active.state, h.waiting,
                   Way(h, s, live), r, u, live)
        BY <1>6, <2>2, <2>7, <3>2, <3>11 DEF p2
      <4>2. Chained(Way(h, s, live), u) /\ h.active.of = q.active.of /\ IsActive(q)
            /\ h.active.state # "Pending"
        BY <1>4, <2>10, <3>2, <3>11 DEF p2
      <4> QED
        BY <1>6, <2>8, <4>1, <4>2, RestsTalks
    <3> QED
      BY <1>6, <2>6, <3>12, <3>13 DEF h, a, p2
  <2> QED
    BY <2>9, <2>10
<1> QED
  BY <1>7, <1>8

\* The number and the state that the next frame of a clip, or its end, gives a transfer.
LEMMA NextFrameGives ==
    ASSUME NEW q, Good(q), q.running.wait = "nextFrame"
    PROVE  LET a == ResumeNextFrame(q)
               left == FramesLeft(q.running.of, q.fields[q.running.of])
           IN  /\ a.nextId = IF left THEN After(q.nextId) ELSE q.nextId
               /\ Own(q) => /\ a.active.id = IF left THEN q.nextId ELSE q.active.id
                            /\ a.active.state = IF left THEN "Ready" ELSE "Finished"
<1> DEFINE t == q.running.of
           x == q.fields[t]
           id == q.running.id
           result == IF FramesLeft(t, x) THEN NextFrame(t, x, q.nextId) ELSE LastFrameDone(x)
           other == [result EXCEPT !.commands = q.running.commands \o @]
           b == StoreFields(q, t, result)
           c == StoreResult(b, id, other)
           a == ResumeNextFrame(q)
<1>0. /\ DOMAIN q = {"tasks", "active", "isLocked", "urgent", "waiting", "running", "nextId",
                     "lockCommands", "fields"}
      /\ DOMAIN q.active = {"id", "of", "state", "queuedCommands"}
      /\ t \in Transfers
  BY DEF Good, Begun, IsQueue, OwnFrame
<1>1. other.newState = IF FramesLeft(t, x) THEN "Ready" ELSE "Finished"
  <2>1. CASE FramesLeft(t, x)
    BY <2>1 DEF NextFrame, StartBuffer, Progress
  <2>2. CASE ~FramesLeft(t, x)
    BY <2>2 DEF LastFrameDone, Progress
  <2> QED
    BY <2>1, <2>2
<1>2. a = IF FramesLeft(t, x) THEN StoreNewId(TakeId(c), id, q.nextId) ELSE c
  BY DEF ResumeNextFrame
<1>3. Own(q) <=> IsActive(q) /\ q.active.id = id
  BY DEF Own, Waits
<1> HIDE DEF other, result, a, t
<1>4. DOMAIN b = DOMAIN q /\ b.active = q.active /\ b.nextId = q.nextId
  BY <1>0 DEF StoreFields
<1> HIDE DEF b, id
<1>5. /\ DOMAIN c = DOMAIN q /\ DOMAIN c.active = DOMAIN q.active /\ c.active.of = q.active.of
      /\ c.active.id = q.active.id
      /\ Own(q) => c.active.state = other.newState
  BY <1>0, <1>3, <1>4, StoreEffect DEF SameHandlers, IsActive
<1>6. c.nextId = q.nextId
  BY <1>0, <1>4, StoreSends
<1> HIDE DEF c
<1>7. CASE ~FramesLeft(t, x)
  BY <1>1, <1>2, <1>5, <1>6, <1>7 DEF a, t
<1>8. CASE FramesLeft(t, x)
  <2> DEFINE d == TakeId(c)
  <2>1. DOMAIN d = DOMAIN q /\ d.active = c.active /\ d.nextId = After(q.nextId)
    BY <1>0, <1>5, <1>6 DEF TakeId, After
  <2>2. a = StoreNewId(d, id, q.nextId)
    BY <1>2, <1>8
  <2> HIDE DEF d
  <2>3. IsActive(d) /\ d.active.id = id <=> Own(q)
    BY <1>3, <1>5, <2>1 DEF IsActive
  <2>4. CASE ~Own(q)
    <3>1. a = d
      BY <2>2, <2>3, <2>4 DEF StoreNewId
    <3> QED
      BY <1>8, <2>1, <2>4, <3>1 DEF a, t
  <2>5. CASE Own(q)
    <3>1. a = [d EXCEPT !.active.id = q.nextId]
      BY <2>2, <2>3, <2>5 DEF StoreNewId
    <3>2. a.active.id = q.nextId /\ a.active.state = d.active.state /\ a.nextId = d.nextId
      BY <1>0, <1>5, <2>1, <3>1
    <3> QED
      BY <1>1, <1>5, <1>8, <2>1, <2>5, <3>2 DEF a, t
  <2> QED
    BY <2>4, <2>5
<1> QED
  BY <1>7, <1>8

\* A clip goes on with its next frame and number, or is over.
LEMMA NextFrameTalks ==
    ASSUME NEW q, NEW s, NEW r, NEW u, NEW live, Talks(q, s, r, u, live), Good(q), Typed(q),
           IsSequence(s), q.running.wait = "nextFrame", q.lockCommands = <<>>,
           Free(q.nextId, q.waiting, Way(q, s, live), r, u),
           Free(After(q.nextId), q.waiting, Way(q, s, live), r, u), After(q.nextId) # q.nextId
    PROVE  LET h == HandlerDone(Resumed(q))
           IN  Talks(h, s, r, u, live) /\ Free(h.nextId, h.waiting, Way(h, s, live), r, u)
<1> DEFINE a == ResumeNextFrame(q)
           h == HandlerDone(a)
           t == q.running.of
           x == q.fields[t]
           result == IF FramesLeft(t, x) THEN NextFrame(t, x, q.nextId) ELSE LastFrameDone(x)
           p == Way(q, s, live)
           p2 == Way(h, s, live)
           w == q.waiting
<1>1. /\ DOMAIN q = {"tasks", "active", "isLocked", "urgent", "waiting", "running", "nextId",
                     "lockCommands", "fields"}
      /\ DOMAIN q.fields = Transfers /\ t \in Transfers /\ IsTransfer(x)
      /\ \A l : Holds(w, l) => \E d : l = Handle(d)
  BY DEF Good, Begun, IsQueue, OwnFrame, Handlers
<1>2. HandlerDone(Resumed(q)) = h
  BY DEF Resumed
<1>3. /\ ~Holds(q.tasks, t) /\ (IsActive(q) /\ q.active.of = t => Own(q))
      /\ q.running.commands = <<>>
      /\ Own(q) => q.active.of = t /\ IsActive(q)
  BY DEF Talks, Lined, Good, Begun, OwnFrame, Own
<1>4. /\ SameHandlers(q, a) /\ a.lockCommands = q.lockCommands
      /\ a.active.of = q.active.of /\ (~Own(q) => a.active = q.active)
      /\ a.fields = [q.fields EXCEPT ![t] = result.fields]
      /\ a.active.queuedCommands = IF Own(q) THEN q.active.queuedCommands
                                                     \o (q.running.commands \o result.commands)
                                             ELSE q.active.queuedCommands
  BY NextFrameStays
<1>5. /\ a.nextId = IF FramesLeft(t, x) THEN After(q.nextId) ELSE q.nextId
      /\ Own(q) => /\ a.active.id = IF FramesLeft(t, x) THEN q.nextId ELSE q.active.id
                   /\ a.active.state = IF FramesLeft(t, x) THEN "Ready" ELSE "Finished"
  BY NextFrameGives
<1> HIDE DEF a, result
<1>6. /\ h.running = Idle /\ h.tasks = q.tasks /\ h.waiting = w /\ h.lockCommands = <<>>
      /\ h.active = a.active /\ h.fields = a.fields /\ h.nextId = a.nextId
  BY <1>1, <1>4 DEF HandlerDone, SameHandlers
<1>7. h.fields[t] = result.fields /\ \A e \in Transfers : e # t => h.fields[e] = q.fields[e]
  BY <1>1, <1>4, <1>6
<1>8. \A e : Holds(q.tasks, e) => h.fields[e] = q.fields[e]
  <2>1. \A e : Holds(q.tasks, e) => e \in Transfers /\ e # t
    BY <1>3 DEF Holds, Good, Begun, IsQueue
  <2> QED
    BY <1>7, <2>1
<1> HIDE DEF h
<1>9. ~Waits(h) /\ ~Own(h) /\ Given(h) = <<>>
  BY <1>6 DEF Waits, Own, Idle, Given
<1>10. CASE ~Own(q)
  <2>1. IsActive(q) => h.fields[q.active.of] = q.fields[q.active.of]
    <3>1. IsActive(q) => q.active.of \in Transfers /\ q.active.of # t
      BY <1>3, <1>10 DEF Good, Begun, IsQueue, IsActive
    <3> QED
      BY <1>7, <3>1
  <2>2. Given(q) = <<>> /\ StateOf(q) = q.active.state
    BY <1>10, OthersGive
  <2>3. h.active = q.active
    BY <1>4, <1>6, <1>10
  <2> HIDE DEF w, t
  <2>4. Talks(h, s, r, u, live) /\ Way(h, s, live) = Way(q, s, live)
    BY <1>6, <1>8, <1>9, <2>1, <2>2, <2>3, SameTalks DEF w
  <2> QED
    BY <1>2, <1>5, <1>6, <2>4 DEF w
<1>11. CASE Own(q)
  <2>1. Given(q) = <<>> /\ StateOf(q) = "Between"
    BY <1>3, <1>11 DEF Given, StateOf
  <2>2. IsSequence(p) /\ IsSequence(q.active.queuedCommands) /\ Chained(p, u)
    BY WayIs DEF Talks
  <2>3. Unsent(q) = q.active.queuedCommands
    BY <2>1, <2>2, JoinThree DEF Unsent
  <2>4. p = IF live THEN s \o q.active.queuedCommands ELSE s
    BY <2>3 DEF Way
  <2>5. ASSUME IsSequence(result.commands)
        PROVE  p2 = IF live THEN p \o result.commands ELSE p
    <3> DEFINE k == q.active.queuedCommands
               g == result.commands
    <3>1. <<>> \o g = g
      BY <2>5, JoinThree
    <3>2. h.active.queuedCommands = k \o g
      BY <1>3, <1>4, <1>6, <1>11, <3>1
    <3> HIDE DEF k, g
    <3>3. IsSequence(k) /\ IsSequence(g)
      BY <2>2, <2>5 DEF k, g
    <3>4. IsSequence(k \o g) /\ (k \o g) \o <<>> = k \o g /\ s \o (k \o g) = (s \o k) \o g
      <4>1. IsSequence(k \o g)
        BY <3>3, JoinThree
      <4> QED
        BY <3>3, <4>1, JoinThree
    <3>5. Unsent(h) = k \o g
      BY <1>9, <3>2, <3>4 DEF Unsent
    <3> QED
      BY <2>4, <3>4, <3>5 DEF Way, k, g
  <2>6. Dialog(q.active.id, t, x.moved, "Between", w, p, r, u, live)
    BY <1>3, <1>11, <2>1 DEF Talks, DialogOf
  <2>7. h.active.of = t /\ h.active.of = q.active.of /\ IsActive(q)
    BY <1>3, <1>4, <1>6, <1>11
  <2>8. ASSUME Dialog(h.active.id, t, h.fields[t].moved, h.active.state, w, p2, r, u, live),
               Chained(p2, u), h.active.state # "Pending"
        PROVE  Talks(h, s, r, u, live)
    <3>1. Dialog(h.active.id, h.active.of, h.fields[h.active.of].moved, h.active.state, h.waiting,
                 Way(h, s, live), r, u, live)
      BY <1>6, <2>7, <2>8
    <3>2. Chained(Way(h, s, live), u)
      BY <2>8
    <3> HIDE DEF p2, w, t, x
    <3> QED
      BY <1>6, <1>8, <2>7, <2>8, <3>1, <3>2, RestsTalks DEF w
  <2> HIDE DEF p2, p
  <2>9. CASE FramesLeft(t, x)
    <3> DEFINE f == Request(t, q.nextId, x.numFrames + 1)
               id == q.nextId
               frame == x.numFrames + 1
    <3>1. result.commands = <<f>> /\ result.fields.moved = 0
      <4>1. TakeFrame(x).numFrames = x.numFrames + 1 /\ TakeFrame(x).moved = 0
        BY <1>1 DEF TakeFrame, IsTransfer
      <4> QED
        BY <2>9, <4>1 DEF NextFrame, StartBuffer, Progress, result
    <3>2. IsSequence(<<f>>)
      BY GivenSequences
    <3>3. p2 = IF live THEN p \o <<f>> ELSE p
      BY <2>5, <3>1, <3>2
    <3>4. p2 = p \/ p2 = p \o <<Request(t, id, frame)>>
      BY <3>3
    <3>5. t \in Transfers /\ IsSequence(p) /\ Free(id, w, p, r, u)
          /\ \A l : Holds(w, l) => \E d : l = Handle(d)
      BY <1>1, <2>2 DEF p
    <3>6. Dialog(id, t, 0, "Ready", w, p2, r, u, live) /\ Chained(p2, u)
      <4> HIDE DEF id, t, w, frame, f
      <4>1. Dialog(id, t, 0, "Ready", w, p2, r, u, live) /\ (Chained(p, u) => Chained(p2, u))
        BY ONLY <3>4, <3>5, RequestDialog
      <4> QED
        BY <2>2, <4>1
    <3>7. h.active.id = id /\ h.active.state = "Ready" /\ h.fields[t].moved = 0
          /\ h.nextId = After(q.nextId)
      BY <1>5, <1>6, <1>7, <1>11, <2>9, <3>1
    <3>8. Talks(h, s, r, u, live)
      BY <2>8, <3>6, <3>7
    <3>9. Free(h.nextId, w, p2, r, u)
      <4>1. Free(After(q.nextId), w, p, r, u)
        BY DEF p
      <4>2. \A i \in DOMAIN <<f>> : ~About(<<f>>[i], After(q.nextId))
        BY DEF Request, About
      <4>3. Free(After(q.nextId), w, p \o <<f>>, r, u)
        <5> HIDE DEF f, w
        <5> QED
          BY <2>2, <3>2, <4>1, <4>2, SentFree
      <4> QED
        BY <3>3, <3>7, <4>1, <4>3
    <3> QED
      BY <1>2, <1>6, <3>8, <3>9 DEF p2
  <2>10. CASE ~FramesLeft(t, x)
    <3> DEFINE f == SetClip(x.numFrames)
    <3>1. result.commands = <<f>> /\ result.fields.moved = x.moved
      <4>1. Settle(x, "resolved").moved = x.moved
        BY <1>1 DEF Settle, IsTransfer
      <4> QED
        BY <2>10, <4>1 DEF LastFrameDone, Progress, result
    <3>2. IsSequence(<<f>>) /\ \A i \in DOMAIN <<f>> : Other(<<f>>[i]) /\ \A n : ~About(<<f>>[i], n)
      <4>1. IsSequence(<<f>>)
        <5> HIDE DEF f
        <5> QED
          BY ONLY GivenSequences
      <4> QED
        BY <4>1 DEF Other, SetClip, Parts, Answers, About
    <3>3. p2 = IF live THEN p \o <<f>> ELSE p
      BY <2>5, <3>1, <3>2
    <3>4. h.active.id = q.active.id /\ h.active.state = "Finished" /\ h.fields[t].moved = x.moved
          /\ h.nextId = q.nextId
      BY <1>5, <1>6, <1>7, <1>11, <2>10, <3>1
    <3> HIDE DEF f, w, t
    <3>5. Dialog(q.active.id, t, x.moved, "Finished", w, p, r, u, live)
      BY <2>6, BetweenDialog DEF States
    <3>6. Chained(p \o <<f>>, u)
      BY <2>2, <3>2, OthersChained
    <3>7. \A i \in DOMAIN p2 : Other(p2[i]) \/ \E j \in DOMAIN p : p2[i] = p[j]
      <4>1. CASE p2 = p
        BY <4>1
      <4>2. CASE p2 = p \o <<f>>
        <5>1. \A i \in DOMAIN p2 : \/ \E j \in DOMAIN p : p2[i] = p[j]
                                   \/ \E j \in DOMAIN <<f>> : p2[i] = <<f>>[j]
          BY <2>2, <3>2, <4>2, MoreIn
        <5> QED
          BY <3>2, <5>1
      <4> QED
        BY <3>3, <4>1, <4>2
    <3>8. Dialog(q.active.id, t, x.moved, "Finished", w, p2, r, u, live)
      BY <3>5, <3>7, OthersDialog
    <3>9. Chained(p2, u)
      BY <2>2, <3>3, <3>6
    <3>10. Talks(h, s, r, u, live)
      BY <2>8, <3>4, <3>8, <3>9
    <3>11. Free(h.nextId, w, p2, r, u)
      <4>1. Free(q.nextId, w, p, r, u)
        BY DEF p, w
      <4>2. Free(q.nextId, w, p \o <<f>>, r, u)
        BY <2>2, <3>2, <4>1, SentFree
      <4> QED
        BY <3>3, <3>4, <4>1, <4>2
    <3> QED
      BY <1>2, <1>6, <3>10, <3>11 DEF p2
  <2> QED
    BY <2>9, <2>10
<1> QED
  BY <1>10, <1>11

\* The source of a clip throws: its handler ends without a result.
LEMMA ThrownTalks ==
    ASSUME NEW q, NEW s, NEW r, NEW u, NEW live, Talks(q, s, r, u, live), Good(q), Typed(q),
           IsSequence(s), q.running.wait # "store", q.lockCommands = <<>>
    PROVE  LET h == HandlerDone(q)
           IN  Talks(h, s, r, u, live) /\ Way(h, s, live) = Way(q, s, live) /\ h.nextId = q.nextId
<1> DEFINE h == HandlerDone(q)
<1>1. DOMAIN q = {"tasks", "active", "isLocked", "urgent", "waiting", "running", "nextId",
                  "lockCommands", "fields"}
  BY DEF Good, Begun, IsQueue
<1>2. /\ h.running = Idle /\ h.tasks = q.tasks /\ h.waiting = q.waiting /\ h.lockCommands = <<>>
      /\ h.active = q.active /\ h.fields = q.fields /\ h.nextId = q.nextId
  BY <1>1 DEF HandlerDone
<1> HIDE DEF h
<1>3. ~Waits(h) /\ ~Own(h) /\ Given(h) = <<>>
  BY <1>2 DEF Waits, Own, Idle, Given
<1>4. CASE ~Own(q) \/ ~Waits(q) \/ q.running.wait = "firstFrame"
  <2>1. Given(q) = <<>> /\ StateOf(q) = q.active.state
    BY <1>4, OthersGive
  <2>2. Talks(h, s, r, u, live) /\ Way(h, s, live) = Way(q, s, live)
    BY <1>2, <1>3, <2>1, SameTalks
  <2> QED
    BY <1>2, <2>2 DEF h
<1>5. CASE Own(q) /\ q.running.wait = "nextFrame"
  <2>1. Given(q) = <<>> /\ StateOf(q) = "Between" /\ IsActive(q)
        /\ q.active.state \in States \ {"Pending"}
    BY <1>5 DEF Given, StateOf, Talks, Lined, Own
  <2>2. Way(h, s, live) = Way(q, s, live)
    BY <1>2, <1>3, <2>1 DEF Way, Unsent
  <2> DEFINE id == q.active.id
             t == q.active.of
             moved == q.fields[t].moved
             p == Way(q, s, live)
             w == q.waiting
             state == q.active.state
  <2>3. Dialog(id, t, moved, "Between", w, p, r, u, live) /\ state \in States \ {"Pending"}
    BY <2>1 DEF Talks, DialogOf
  <2> HIDE DEF id, t, moved, p, w, state
  <2>4. Dialog(id, t, moved, state, w, p, r, u, live)
    BY <2>3, BetweenDialog
  <2>5. Dialog(h.active.id, h.active.of, h.fields[h.active.of].moved, h.active.state, h.waiting,
               Way(h, s, live), r, u, live)
    BY <1>2, <2>2, <2>4 DEF id, t, moved, p, w, state
  <2>6. Chained(Way(h, s, live), u)
    BY <2>2 DEF Talks
  <2>7. h.active.state # "Pending"
    BY <1>2, <2>1
  <2>8. Talks(h, s, r, u, live)
    BY <1>2, <2>1, <2>5, <2>6, <2>7, RestsTalks
  <2> QED
    BY <1>2, <2>2, <2>8 DEF h
<1> QED
  BY <1>4, <1>5 DEF Waits

\* The running handler goes on and ends.
LEMMA ResumedTalks ==
    ASSUME NEW q, NEW h, NEW s, NEW r, NEW u, NEW live, Talks(q, s, r, u, live), Good(q), Typed(q),
           IsSequence(s), q.running # Idle, q.lockCommands = <<>>, IdIsFree(q),
           \A id \in {q.nextId, After(q.nextId)} : Free(id, q.waiting, Way(q, s, live), r, u),
           After(q.nextId) # q.nextId,
           \/ h = HandlerDone(Resumed(q))
           \/ SourceThrows(q) /\ h = HandlerDone(q)
    PROVE  Talks(h, s, r, u, live) /\ Free(h.nextId, h.waiting, Way(h, s, live), r, u)
<1>1. DOMAIN q = {"tasks", "active", "isLocked", "urgent", "waiting", "running", "nextId",
                  "lockCommands", "fields"}
  BY DEF Good, Begun, IsQueue
<1>2. q.running.wait \in {"return", "store", "firstFrame", "nextFrame"}
  BY DEF Good, Begun, Handlers
<1>3. Free(q.nextId, q.waiting, Way(q, s, live), r, u)
      /\ Free(After(q.nextId), q.waiting, Way(q, s, live), r, u)
  OBVIOUS
<1>4. CASE h = HandlerDone(q) /\ q.running.wait # "store"
  <2>1. Talks(h, s, r, u, live) /\ Way(h, s, live) = Way(q, s, live) /\ h.nextId = q.nextId
    BY <1>4, ThrownTalks
  <2>2. h.waiting = q.waiting
    BY <1>1, <1>4 DEF HandlerDone
  <2> QED
    BY <1>3, <2>1, <2>2
<1>5. CASE h = HandlerDone(Resumed(q)) /\ q.running.wait = "store"
  <2>1. Talks(h, s, r, u, live) /\ Way(h, s, live) = Way(q, s, live) /\ h.nextId = q.nextId
    BY <1>5, StoredTalks
  <2>2. h.waiting = q.waiting
    BY <1>5, ResumedRests DEF Rests
  <2> QED
    BY <1>3, <2>1, <2>2
<1>6. CASE h = HandlerDone(Resumed(q)) /\ q.running.wait = "firstFrame"
  <2> DEFINE next == q.nextId
  <2>1. next # q.running.id /\ Free(next, q.waiting, Way(q, s, live), r, u)
    BY <1>3, <1>6 DEF IdIsFree, Waits
  <2>2. Talks(h, s, r, u, live) /\ h.nextId = next /\ Free(next, h.waiting, Way(h, s, live), r, u)
    <3>1. q.running.wait = "firstFrame"
      BY <1>6
    <3> DEFINE g == HandlerDone(Resumed(q))
    <3>2. Talks(g, s, r, u, live) /\ g.nextId = q.nextId /\ Free(next, g.waiting, Way(g, s, live), r, u)
      <4> HIDE DEF next
      <4> QED
        BY <2>1, <3>1, FirstFrameTalks
    <3> QED
      BY <1>6, <3>2
  <2> QED
    BY <2>2
<1>7. CASE h = HandlerDone(Resumed(q)) /\ q.running.wait = "nextFrame"
  BY <1>3, <1>7, NextFrameTalks
<1>8. CASE h = HandlerDone(Resumed(q)) /\ q.running.wait = "return"
  <2>1. h = HandlerDone(q)
    BY <1>8 DEF Resumed
  <2> QED
    BY <1>4, <1>8, <2>1
<1> QED
  BY <1>2, <1>4, <1>5, <1>6, <1>7, <1>8 DEF SourceThrows

-----------------------------------------------------------------------------
(* What client and device have told each other, as the event loop goes on *)

\* What the steps of the event loop rest on: `s` is on its way to the device, `r` to the client,
\* and `u` is what the device is at.
Spoken(s, r, u, live) ==
    /\ MaxTransferIndex >= 3 /\ InOrder(queue, interval) /\ Typed(queue) /\ IdIsFree(queue)
    /\ IsSequence(s) /\ IsSequence(r) /\ Talks(queue, s, r, u, live)
    /\ \A id \in {queue.nextId, After(queue.nextId)} :
           Free(id, queue.waiting, Way(queue, s, live), r, u)

\* The same, of a queue that has sent the lock commands of the last event.
Opens(q, s, r, u, live) ==
    /\ InOrder(q, interval) /\ Formed(q) /\ IdIsFree(q)
    /\ IsSequence(s) /\ IsSequence(r) /\ Talks(q, s, r, u, live) /\ q.lockCommands = <<>>
    /\ \A id \in {q.nextId, After(q.nextId)} : Free(id, q.waiting, Way(q, s, live), r, u)
    /\ After(q.nextId) # q.nextId
    /\ SameTransfers(queue, q) /\ q.running = queue.running /\ (IsActive(queue) <=> IsActive(q))
    /\ Way(q, s, live) = Way(queue, s, live)

\* A new event begins.
LEMMA FreshTalks ==
    ASSUME NEW s, NEW r, NEW u, NEW live, Spoken(s, r, u, live)
    PROVE  Opens(Fresh, s, r, u, live)
<1> DEFINE q == Fresh
<1>1. /\ Formed(q) /\ SameTransfers(queue, q) /\ q.running = queue.running
      /\ q.lockCommands = <<>> /\ (IsActive(queue) <=> IsActive(q))
  <2>1. Formed(queue)
    BY DEF Spoken, Formed, InOrder, Good, Begun
  <2> QED
    BY <2>1, UnsentCalm DEF Fresh
<1>2. InOrder(q, interval)
  BY UnsentGood DEF Fresh, Spoken
<1> HIDE DEF q
<1>3. /\ q.tasks = queue.tasks /\ q.active = queue.active /\ q.waiting = queue.waiting
      /\ q.fields = queue.fields /\ q.nextId = queue.nextId
  BY <1>1 DEF SameTransfers
<1>4. Talks(q, s, r, u, live) /\ Way(q, s, live) = Way(queue, s, live)
  <2>1. q.lockCommands \in {queue.lockCommands, <<>>}
    BY <1>1
  <2>2. Talks(queue, s, r, u, live)
    BY DEF Spoken
  <2> QED
    BY <1>1, <1>3, <2>1, <2>2, SameTalks
<1>5. IdIsFree(q)
  BY <1>1, <1>3 DEF Spoken, IdIsFree, Waits
<1>6. After(q.nextId) # q.nextId
  <2>1. q.nextId \in Numbers
    BY <1>2 DEF InOrder, Numbered
  <2> QED
    BY <2>1, AfterNumbers DEF Spoken
<1>7. \A id \in {q.nextId, After(q.nextId)} : Free(id, q.waiting, Way(q, s, live), r, u)
  BY <1>3, <1>4 DEF Spoken
<1> QED
  BY <1>1, <1>2, <1>4, <1>5, <1>6, <1>7 DEF q, Opens, Spoken

\* Lock commands are sent one after the other, too: a handler adds none or one.
LEMMA EndSends ==
    ASSUME NEW q, IsQueue(q), IsSequence(q.lockCommands)
    PROVE  IsSequence(EndActive(q).lockCommands)
<1> DEFINE a == [TransferCompleted(q) EXCEPT !.active = NoActive]
<1>1. /\ DOMAIN a = DOMAIN q /\ a.active = NoActive /\ a.tasks = q.tasks /\ a.fields = q.fields
      /\ a.lockCommands = q.lockCommands \/ a.lockCommands = Append(q.lockCommands, FALSE)
  BY DEF TransferCompleted, SendLock, IsQueue
<1>2. EndActive(q) = DequeueAndRun(a)
  BY DEF EndActive
<1> HIDE DEF a
<1>3. IsSequence(a.lockCommands)
  <2>1. CASE a.lockCommands = q.lockCommands
    BY <2>1
  <2>2. CASE a.lockCommands = Append(q.lockCommands, FALSE)
    <3>1. IsSequence(Append(q.lockCommands, FALSE))
      BY AppendHolds
    <3> QED
      BY ONLY <3>1, <2>2
  <2> QED
    BY <1>1, <2>1, <2>2
<1>4. NoActive.of = NoTransfer /\ DOMAIN NoActive = {"id", "of", "state", "queuedCommands"}
  BY DEF NoActive
<1>5. IsQueue(a) /\ ~IsActive(a)
  BY <1>1, <1>4 DEF IsQueue, IsActive
<1>6. CASE a.tasks = <<>>
  BY <1>2, <1>3, <1>6 DEF DequeueAndRun
<1>7. CASE a.tasks # <<>>
  <2>1. DequeueAndRun(a).lockCommands = a.lockCommands
    BY <1>5, <1>7, DequeueSends
  <2> QED
    BY <1>2, <1>3, <2>1
<1> QED
  BY <1>6, <1>7

\* The next handler.
LEMMA RunNextSends ==
    ASSUME NEW q, Formed(q), IsSequence(q.lockCommands)
    PROVE  IsSequence(RunNext(q).lockCommands)
<1>1. CASE q.running # Idle \/ (q.urgent = <<>> /\ q.waiting = <<>>)
  BY <1>1 DEF RunNext
<1>2. CASE q.running = Idle /\ q.urgent # <<>>
  <2> DEFINE a == [q EXCEPT !.urgent = Tail(@)]
             h == Head(q.urgent)
  <2>1. IsQueue(a) /\ a.lockCommands = q.lockCommands
    BY DEF Formed, IsQueue
  <2>2. h = Start \/ \E id : h = AbortOf(id)
    BY <1>2, TailHolds DEF Handlers, Formed
  <2>3. RunNext(q) = Begin(a, h)
    BY <1>2 DEF RunNext
  <2> HIDE DEF a, h
  <2>4. CASE h = Start
    <3>1. Begin(a, h) = BeginStart(a)
      BY <2>4 DEF Begin, Start
    <3>2. /\ \/ BeginStart(a).lockCommands = a.lockCommands
             \/ BeginStart(a).lockCommands = Append(a.lockCommands, TRUE)
      BY <2>1 DEF BeginStart, SendLock, IsQueue
    <3>3. IsSequence(Append(a.lockCommands, TRUE))
      BY <2>1, AppendHolds
    <3> QED
      BY <2>1, <2>3, <3>1, <3>2, <3>3
  <2>5. CASE \E id : h = AbortOf(id)
    <3>1. PICK id : h = AbortOf(id)
      BY <2>5
    <3>2. Begin(a, h) = BeginAbort(a, id)
      BY <3>1 DEF Begin, AbortOf
    <3> DEFINE b == [a EXCEPT !.running = Returning]
               c == AbortActive(b)
    <3>3. /\ DOMAIN b = DOMAIN a /\ b.lockCommands = a.lockCommands
          /\ b.active = a.active /\ b.fields = a.fields /\ b.tasks = a.tasks
      BY <2>1 DEF IsQueue
    <3>4. BeginAbort(a, id) = IF IsActive(a) /\ a.active.id = id THEN EndActive(c) ELSE b
      BY DEF BeginAbort
    <3> HIDE DEF b
    <3>5. ASSUME IsActive(a)
          PROVE  IsQueue(c) /\ c.lockCommands = b.lockCommands
      <4> DEFINE t == b.active.of
                 x == Abort(b.fields[t])
      <4>1. t \in Transfers /\ IsTransfer(b.fields[t]) /\ IsQueue(b)
        BY <2>1, <3>3, <3>5 DEF IsQueue, IsActive
      <4>2. IsTransfer(x)
        BY <4>1 DEF Abort, Settle, IsTransfer
      <4>3. c = [b EXCEPT !.fields[t] = x]
        BY DEF AbortActive
      <4> HIDE DEF t, x, c
      <4> QED
        BY <4>1, <4>2, <4>3 DEF IsQueue
    <3> HIDE DEF c
    <3>6. IsActive(a) => IsSequence(EndActive(c).lockCommands)
      BY <2>1, <3>3, <3>5, EndSends
    <3> QED
      BY <2>1, <2>3, <3>2, <3>3, <3>4, <3>6
  <2> QED
    BY <2>2, <2>4, <2>5
<1>3. CASE q.running = Idle /\ q.urgent = <<>> /\ q.waiting # <<>>
  <2> DEFINE a == [q EXCEPT !.waiting = Tail(@)]
             h == Head(q.waiting)
  <2>1. Holds(q.waiting, h)
    BY <1>3, TailHolds DEF Handlers, Formed
  <2>2. PICK command : h = Handle(command)
    BY <2>1 DEF Handlers, Formed
  <2>3. IsQueue(a) /\ a.lockCommands = q.lockCommands
    BY DEF Formed, IsQueue
  <2>4. RunNext(q) = Begin(a, h)
    BY <1>3 DEF RunNext
  <2> HIDE DEF a, h
  <2>5. Begin(a, h) = BeginHandle(a, command)
    BY <2>2 DEF Begin, Handle
  <2>6. BeginHandle(a, command).lockCommands = a.lockCommands
    BY <2>3 DEF BeginHandle, IsQueue
  <2> QED
    BY <2>3, <2>4, <2>5, <2>6
<1> QED
  BY <1>1, <1>2, <1>3

\* What holds of the queue and both channels after every event.
Speaks(q, s, r, u, live) ==
    Typed(q) /\ IsSequence(q.lockCommands) /\ Talks(q, s, r, u, live)

\* The turn of the next handler.
LEMMA TurnTalks ==
    ASSUME NEW q, NEW s, NEW r, NEW u, NEW live, Talks(q, s, r, u, live), Formed(q), IsSequence(s),
           q.lockCommands = <<>> \/ (IsSequence(q.lockCommands) /\ ~IsActive(q)),
           Free(q.nextId, q.waiting, Way(q, s, live), r, u)
    PROVE  Speaks(RunNext(q), s, r, u, live)
<1>1. IsSequence(q.lockCommands) /\ (IsActive(q) => q.lockCommands = <<>>)
  BY ShortHolds
<1>2. Typed(RunNext(q)) /\ IsSequence(RunNext(q).lockCommands)
  BY <1>1, RunNextTyped, RunNextSends DEF Formed
<1> QED
  BY <1>1, <1>2, RunNextTalks DEF Speaks

\* A handler goes on.
LEMMA ResumeTalks ==
    ASSUME NEW s, NEW r, NEW u, NEW live, Spoken(s, r, u, live), Resume
    PROVE  Speaks(queue', s, r, u, live)
<1> DEFINE q == Fresh
<1>1. Opens(q, s, r, u, live)
  BY FreshTalks
<1>2. \/ queue' = RunNext(HandlerDone(Resumed(q)))
      \/ queue' = RunNext(HandlerDone(q)) /\ SourceThrows(queue)
  BY DEF Resume
<1>3. queue.running # Idle
  BY DEF Resume
<1> HIDE DEF q
<1>4. q.running # Idle /\ (SourceThrows(queue) <=> SourceThrows(q)) /\ Good(q) /\ Typed(q)
  BY <1>1, <1>3 DEF Opens, SourceThrows, InOrder, Formed
<1>5. ASSUME NEW h, h = HandlerDone(Resumed(q)) \/ (SourceThrows(q) /\ h = HandlerDone(q))
      PROVE  Talks(h, s, r, u, live) /\ Free(h.nextId, h.waiting, Way(h, s, live), r, u)
  BY <1>1, <1>4, <1>5, ResumedTalks DEF Opens
<1>6. CASE queue' = RunNext(HandlerDone(Resumed(q)))
  <2> DEFINE h == HandlerDone(Resumed(q))
  <2>1. Good(h) /\ Typed(h)
    BY <1>4, ResumedGood, ResumedTyped
  <2>2. Rests(q, h)
    BY <1>4, ResumedRests
  <2>3. Talks(h, s, r, u, live) /\ Free(h.nextId, h.waiting, Way(h, s, live), r, u)
    BY <1>5
  <2> HIDE DEF h
  <2>4. Formed(h) /\ h.lockCommands = <<>>
    BY <1>1, <2>1, <2>2 DEF Formed, Good, Begun, Rests, Opens
  <2>5. queue' = RunNext(h) /\ IsSequence(s)
    BY <1>1, <1>6 DEF h, Opens
  <2> QED
    BY <2>3, <2>4, <2>5, TurnTalks
<1>7. CASE queue' = RunNext(HandlerDone(q)) /\ SourceThrows(queue)
  <2> DEFINE h == HandlerDone(q)
  <2>1. SameTransfers(q, h) /\ h.running = Idle /\ h.lockCommands = q.lockCommands
    BY <1>1 DEF HandlerDone, SameTransfers, Formed, IsQueue, Opens
  <2>2. Talks(h, s, r, u, live) /\ Free(h.nextId, h.waiting, Way(h, s, live), r, u)
    BY <1>4, <1>5, <1>7
  <2> HIDE DEF h
  <2>3. Formed(h) /\ h.lockCommands = <<>>
    BY <1>1, <2>1 DEF Formed, SameTransfers, IsQueue, Handlers, Typed, Idle, Opens
  <2>4. queue' = RunNext(h) /\ IsSequence(s)
    BY <1>1, <1>7 DEF h, Opens
  <2> QED
    BY <2>2, <2>3, <2>4, TurnTalks
<1> QED
  BY <1>2, <1>6, <1>7

\* One more transfer waits for its turn.
LEMMA LinedUp ==
    ASSUME NEW q, NEW a, NEW t \in Transfers, NEW s, NEW r, NEW u, NEW live, Talks(q, s, r, u, live),
           IsSequence(q.tasks), OwnFrame(q),
           a.tasks = Append(q.tasks, t), a.active = q.active, a.waiting = q.waiting,
           a.fields = q.fields, a.running = q.running, a.lockCommands = q.lockCommands,
           t # q.active.of, q.fields[t] = NewTransfer, ~Holds(q.tasks, t)
    PROVE  Talks(a, s, r, u, live) /\ Way(a, s, live) = Way(q, s, live)
<1>1. (IsActive(a) <=> IsActive(q)) /\ (Own(a) <=> Own(q))
  BY DEF Own, IsActive, Waits
<1>2. Given(a) = Given(q) /\ StateOf(a) = StateOf(q)
  BY <1>1 DEF Given, StateOf
<1>3. Way(a, s, live) = Way(q, s, live)
  BY <1>2 DEF Way, Unsent
<1>4. Lined(a)
  <2>1. \A i, j \in DOMAIN a.tasks : a.tasks[i] = a.tasks[j] => i = j
    <3>1. Append(q.tasks, t) = q.tasks \o <<t>>
      BY DEF IsSequence
    <3>2. /\ Len(q.tasks) \in Nat /\ DOMAIN q.tasks = 1 .. Len(q.tasks)
          /\ DOMAIN a.tasks = 1 .. Len(q.tasks) + 1
          /\ a.tasks[Len(q.tasks) + 1] = t
          /\ \A i \in 1 .. Len(q.tasks) : a.tasks[i] = q.tasks[i]
      BY <3>1, OneMoreAt
    <3>3. \A i \in 1 .. Len(q.tasks) : a.tasks[i] # t
      BY <3>2 DEF Holds
    <3>4. \A i, j \in 1 .. Len(q.tasks) : a.tasks[i] = a.tasks[j] => i = j
      BY <3>2 DEF Talks, Lined
    <3>5. \A i \in DOMAIN a.tasks : i \in 1 .. Len(q.tasks) \/ i = Len(q.tasks) + 1
      BY <3>2
    <3> QED
      BY <3>2, <3>3, <3>4, <3>5
  <2>2. \A x : Holds(a.tasks, x) <=> Holds(q.tasks, x) \/ x = t
    BY AppendHolds
  <2>3. \A x : Holds(a.tasks, x) => a.fields[x] = NewTransfer /\ x # a.active.of
    BY <2>2 DEF Talks, Lined
  <2>4. ASSUME q.running.wait \in {"firstFrame", "nextFrame"} PROVE t # q.running.of
    BY <2>4 DEF OwnFrame, Settled, NewTransfer
  <2>5. a.running.wait \in {"firstFrame", "nextFrame"} =>
           /\ ~Holds(a.tasks, a.running.of)
           /\ IsActive(a) /\ a.active.of = a.running.of => Own(a)
    BY <1>1, <2>2, <2>4 DEF Talks, Lined
  <2>6. /\ a.running.wait = "firstFrame" /\ Own(a) => a.active.state = "Pending"
        /\ a.running.wait = "nextFrame" =>
              a.running.commands = <<>> /\ (Own(a) => a.active.state \in States \ {"Pending"})
        /\ ~IsActive(a) => a.active.queuedCommands = <<>>
        /\ \A i \in DOMAIN a.waiting : a.waiting[i].command.type \in Answers
        /\ IsActive(a) /\ StateOf(a) = "Pending" => a.active.queuedCommands = <<>> /\ Given(a) = <<>>
    BY <1>1, <1>2 DEF Talks, Lined
  <2> QED
    BY <2>1, <2>3, <2>5, <2>6 DEF Lined
<1>5. IsActive(a) => DialogOf(a, Way(a, s, live), r, u, live)
  BY <1>1, <1>2, <1>3 DEF Talks, DialogOf
<1>6. a.lockCommands # <<>> /\ IsActive(a) => StateOf(a) = "Pending"
  BY <1>1, <1>2 DEF Talks
<1>7. Chained(Way(a, s, live), u) /\ \A c : Heard(a.waiting, r, c) => Answer(c)
  BY <1>3 DEF Talks
<1> QED
  BY <1>3, <1>4, <1>5, <1>6, <1>7 DEF Talks

\* A transfer begins while no other is active: its number is free, and so is what is sent.
LEMMA DequeueWay ==
    ASSUME NEW q, NEW s, NEW r, NEW u, NEW live, Talks(q, s, r, u, live), Formed(q),
           IsSequence(s), IdIsFree(q), NEW id, Free(id, q.waiting, Way(q, s, live), r, u)
    PROVE  LET b == DequeueAndRun(q)
           IN  /\ Formed(b) /\ b.lockCommands = q.lockCommands
               /\ Free(id, b.waiting, Way(b, s, live), r, u)
               /\ IsActive(q) \/ q.tasks = <<>> => b = q
               /\ ~IsActive(q) /\ q.tasks # <<>> => b.nextId = After(q.nextId)
<1> DEFINE b == DequeueAndRun(q)
<1>1. CASE IsActive(q) \/ q.tasks = <<>>
  BY <1>1 DEF DequeueAndRun
<1>2. CASE ~IsActive(q) /\ q.tasks # <<>>
  <2>1. /\ Formed(b) /\ b.lockCommands = q.lockCommands
    BY <1>2, DequeueLock
  <2>2. /\ b.waiting = <<>> /\ b.running = q.running /\ b.active.id = q.nextId
        /\ b.nextId = After(q.nextId) /\ b.active.queuedCommands = <<>>
    BY <1>2, DequeueEffect, DequeueSends DEF Formed, After
  <2> HIDE DEF b
  <2>3. ~Own(b) /\ ~Own(q)
    BY <1>2, <2>2 DEF Own, Waits, IdIsFree
  <2>4. Given(b) = <<>> /\ Given(q) = <<>> /\ q.active.queuedCommands = <<>>
    BY <1>2, <2>3 DEF Given, Talks, Lined
  <2>5. Way(b, s, live) = s /\ Way(q, s, live) = s
    BY <2>2, <2>4, NothingUnsent
  <2>6. Silent(id, b.waiting, r)
    BY <2>2, ShortHolds DEF Free, Silent, Heard
  <2> QED
    BY <1>2, <2>1, <2>2, <2>5, <2>6 DEF b, Free
<1> QED
  BY <1>1, <1>2

\* A transfer is enqueued.
LEMMA EnqueueTalks ==
    ASSUME NEW s, NEW r, NEW u, NEW live, Spoken(s, r, u, live), NEW t \in Transfers, Unused(t),
           Enqueue(t)
    PROVE  Speaks(queue', s, r, u, live)
<1> DEFINE q == Fresh
           a == [q EXCEPT !.tasks = Append(@, t)]
           b == DequeueAndRun(a)
<1>1. Opens(q, s, r, u, live)
  BY FreshTalks
<1>2. queue' = RunNext(b)
  BY DEF Enqueue
<1> HIDE DEF q
<1>3. /\ DOMAIN a = DOMAIN q /\ a.tasks = Append(q.tasks, t) /\ a.active = q.active
      /\ a.fields = q.fields /\ a.urgent = q.urgent /\ a.waiting = q.waiting
      /\ a.running = q.running /\ a.isLocked = q.isLocked /\ a.nextId = q.nextId
      /\ a.lockCommands = q.lockCommands
  BY <1>1 DEF Opens, Formed, IsQueue
<1> HIDE DEF a
<1>4. a.tasks \in Seq(Transfers)
  BY <1>1, <1>3 DEF Opens, Formed, IsQueue
<1>5. Formed(a) /\ IdIsFree(a)
  BY <1>1, <1>3, <1>4 DEF Opens, Formed, IsQueue, Handlers, Typed, IdIsFree, Waits, SameTransfers
<1>6. t # q.active.of /\ q.fields[t] = NewTransfer /\ ~Holds(q.tasks, t)
  BY <1>1 DEF Opens, SameTransfers, Unused, Holds
<1>7. Talks(a, s, r, u, live) /\ Way(a, s, live) = Way(q, s, live)
  <2>1. IsSequence(q.tasks) /\ OwnFrame(q) /\ Talks(q, s, r, u, live)
    BY <1>1 DEF Opens, Formed, IsQueue, IsSequence, InOrder, Good, Begun
  <2> QED
    BY <1>3, <1>6, <2>1, LinedUp
<1>8. /\ Free(a.nextId, a.waiting, Way(a, s, live), r, u)
      /\ Free(After(a.nextId), a.waiting, Way(a, s, live), r, u)
  BY <1>1, <1>3, <1>7 DEF Opens
<1>9. Talks(b, s, r, u, live)
  <2>1. IsQueue(a) /\ Handlers(a) /\ IsSequence(s)
    BY <1>1, <1>5 DEF Formed, Opens
  <2> QED
    BY <1>5, <1>7, <1>8, <2>1, DequeueTalks
<1>10. /\ Formed(b) /\ b.lockCommands = <<>>
       /\ Free(b.nextId, b.waiting, Way(b, s, live), r, u)
  <2>1. IsSequence(s)
    BY <1>1 DEF Opens
  <2>2. CASE IsActive(a) \/ a.tasks = <<>>
    BY <1>1, <1>3, <1>5, <1>7, <1>8, <2>1, <2>2, DequeueWay DEF Opens
  <2>3. CASE ~IsActive(a) /\ a.tasks # <<>>
    BY <1>1, <1>3, <1>5, <1>7, <1>8, <2>1, <2>3, DequeueWay DEF Opens
  <2> QED
    BY <2>2, <2>3
<1> HIDE DEF b
<1>11. IsSequence(s)
  BY <1>1 DEF Opens
<1> QED
  BY <1>2, <1>9, <1>10, <1>11, TurnTalks

\* A queue with one more start or abort is well formed.
LEMMA AddedFormed ==
    ASSUME NEW q, NEW a, Formed(q),
           DOMAIN a = DOMAIN q, a.tasks = q.tasks, a.active = q.active, a.fields = q.fields,
           a.waiting = q.waiting, a.running = q.running, a.nextId = q.nextId,
           a.lockCommands = q.lockCommands,
           a.urgent = q.urgent \/ \E h : /\ h = Start \/ \E id : h = AbortOf(id)
                                         /\ a.urgent = Append(q.urgent, h)
    PROVE  Formed(a)
<1>1. /\ IsSequence(a.urgent)
      /\ \A h : Holds(a.urgent, h) => Holds(q.urgent, h) \/ h = Start \/ \E id : h = AbortOf(id)
  <2>1. IsSequence(q.urgent)
    BY DEF Formed, Handlers
  <2>2. CASE a.urgent = q.urgent
    BY <2>1, <2>2
  <2>3. ASSUME NEW g, g = Start \/ \E id : g = AbortOf(id), a.urgent = Append(q.urgent, g)
        PROVE  /\ IsSequence(a.urgent)
               /\ \A h : Holds(a.urgent, h) => Holds(q.urgent, h) \/ h = Start \/ \E id : h = AbortOf(id)
    <3>1. IsSequence(a.urgent) /\ \A h : Holds(a.urgent, h) => Holds(q.urgent, h) \/ h = g
      BY <2>1, <2>3, AppendHolds
    <3> QED
      BY <2>3, <3>1
  <2> QED
    BY <2>2, <2>3
<1> QED
  BY <1>1 DEF Formed, IsQueue, Handlers, Typed

\* The lock is noted, and perhaps a start or an abort is added.
LEMMA AddedTalks ==
    ASSUME NEW q, NEW a, NEW s, NEW r, NEW u, NEW live, Opens(q, s, r, u, live),
           DOMAIN a = DOMAIN q, a.tasks = q.tasks, a.active = q.active, a.fields = q.fields,
           a.waiting = q.waiting, a.running = q.running, a.nextId = q.nextId,
           a.lockCommands = q.lockCommands,
           a.urgent = q.urgent \/ \E h : /\ h = Start \/ \E id : h = AbortOf(id)
                                         /\ a.urgent = Append(q.urgent, h)
    PROVE  Speaks(a, s, r, u, live) /\ Speaks(RunNext(a), s, r, u, live)
<1>1. Formed(q)
  BY DEF Opens
<1>2. Formed(a)
  BY <1>1, AddedFormed
<1>3. Talks(a, s, r, u, live) /\ Way(a, s, live) = Way(q, s, live)
  <2>1. Talks(q, s, r, u, live) /\ a.lockCommands \in {q.lockCommands, <<>>}
    BY DEF Opens
  <2> QED
    BY <2>1, SameTalks
<1>4. /\ Free(a.nextId, a.waiting, Way(a, s, live), r, u) /\ IsSequence(s)
      /\ a.lockCommands = <<>>
  BY <1>3 DEF Opens
<1>5. Speaks(RunNext(a), s, r, u, live)
  BY <1>2, <1>3, <1>4, TurnTalks
<1>6. Speaks(a, s, r, u, live)
  BY <1>2, <1>3, <1>4, ShortHolds DEF Formed, Speaks
<1> QED
  BY <1>5, <1>6

\* The device gave the lock, or took it, or sending failed.
LEMMA NoticeTalks ==
    ASSUME NEW s, NEW r, NEW u, NEW live, Spoken(s, r, u, live),
           LockObtained \/ (\E locked : UpdateLock(locked)) \/ SendFailed
    PROVE  Speaks(queue', s, r, u, live)
<1> DEFINE q == Fresh
<1>1. Opens(q, s, r, u, live)
  BY FreshTalks
<1>2. DOMAIN q = {"tasks", "active", "isLocked", "urgent", "waiting", "running", "nextId",
                  "lockCommands", "fields"}
  BY <1>1 DEF Opens, Formed, IsQueue
<1>3. \/ queue' = RunNext(TryStartTransfer([q EXCEPT !.isLocked = TRUE]))
      \/ \E locked : LET a == [q EXCEPT !.isLocked = locked]
                     IN  queue' = a \/ queue' = RunNext(TryAbortTransfer(a))
      \/ queue' = RunNext(TryAbortTransfer(q))
  BY DEF LockObtained, UpdateLock, SendFailed
<1> HIDE DEF q
<1>4. ASSUME NEW a, NEW b,
             a = q \/ \E locked : a = [q EXCEPT !.isLocked = locked],
             b = a \/ b = TryStartTransfer(a) \/ b = TryAbortTransfer(a)
      PROVE  Speaks(b, s, r, u, live) /\ Speaks(RunNext(b), s, r, u, live)
  <2>1. /\ DOMAIN a = DOMAIN q /\ a.tasks = q.tasks /\ a.active = q.active /\ a.fields = q.fields
        /\ a.urgent = q.urgent /\ a.waiting = q.waiting /\ a.running = q.running
        /\ a.nextId = q.nextId /\ a.lockCommands = q.lockCommands
    BY <1>2, <1>4
  <2>2. \/ b = a
        \/ \E h : /\ h = Start \/ \E id : h = AbortOf(id)
                  /\ b = [a EXCEPT !.urgent = Append(@, h)]
    BY <1>4 DEF TryStartTransfer, TryAbortTransfer, AddUrgent
  <2>3. CASE b = a
    BY <1>1, <2>1, <2>3, AddedTalks
  <2>4. CASE b # a
    <3>1. PICK h : /\ h = Start \/ \E id : h = AbortOf(id)
                   /\ b = [a EXCEPT !.urgent = Append(@, h)]
      BY <2>2, <2>4
    <3>2. /\ DOMAIN b = DOMAIN q /\ b.tasks = q.tasks /\ b.active = q.active /\ b.fields = q.fields
          /\ b.urgent = Append(q.urgent, h) /\ b.waiting = q.waiting /\ b.running = q.running
          /\ b.nextId = q.nextId /\ b.lockCommands = q.lockCommands
      BY <1>2, <2>1, <3>1
    <3>3. \E g : (g = Start \/ \E id : g = AbortOf(id)) /\ b.urgent = Append(q.urgent, g)
      BY <3>1, <3>2
    <3> QED
      BY <1>1, <3>2, <3>3, AddedTalks
  <2> QED
    BY <2>3, <2>4
<1>5. CASE queue' = RunNext(TryStartTransfer([q EXCEPT !.isLocked = TRUE]))
  BY <1>4, <1>5
<1>6. CASE \E locked : LET a == [q EXCEPT !.isLocked = locked]
                       IN  queue' = a \/ queue' = RunNext(TryAbortTransfer(a))
  BY <1>4, <1>6
<1>7. CASE queue' = RunNext(TryAbortTransfer(q))
  BY <1>4, <1>7
<1> QED
  BY <1>3, <1>5, <1>6, <1>7

\* A command has arrived that the queue has no need to hear.
LEMMA UnheardTalks ==
    ASSUME NEW q, NEW s, NEW r, NEW u, NEW live, IsSequence(r), r # <<>>, Talks(q, s, r, u, live)
    PROVE  Talks(q, s, Tail(r), u, live)
<1>1. \A c : Heard(q.waiting, Tail(r), c) => Heard(q.waiting, r, c)
  BY TailHolds DEF Heard
<1>2. IsActive(q) => DialogOf(q, Way(q, s, live), Tail(r), u, live)
  <2>1. SUFFICES ASSUME DialogOf(q, Way(q, s, live), r, u, live)
                 PROVE  DialogOf(q, Way(q, s, live), Tail(r), u, live)
    BY DEF Talks
  <2>2. LastWord(q.active.id, q.waiting, r, u) => LastWord(q.active.id, q.waiting, Tail(r), u)
    BY ReceivedHeard
  <2> QED
    BY <1>1, <2>1, <2>2, LessHeard DEF DialogOf
<1> QED
  BY <1>1, <1>2 DEF Talks

\* One that has arrived for the active transfer waits for its turn.
LEMMA WaitsTalks ==
    ASSUME NEW q, NEW a, NEW s, NEW r, NEW u, NEW live, IsSequence(r), r # <<>>,
           Talks(q, s, r, u, live), IsSequence(q.waiting), Head(r).type \in Answers,
           a.tasks = q.tasks, a.active = q.active, a.waiting = Append(q.waiting, Handle(Head(r))),
           a.fields = q.fields, a.running = q.running, a.lockCommands = q.lockCommands
    PROVE  Talks(a, s, Tail(r), u, live) /\ Way(a, s, live) = Way(q, s, live)
<1>1. (IsActive(a) <=> IsActive(q)) /\ (Own(a) <=> Own(q))
  BY DEF Own, IsActive, Waits
<1>2. Given(a) = Given(q) /\ StateOf(a) = StateOf(q)
  BY <1>1 DEF Given, StateOf
<1>3. Way(a, s, live) = Way(q, s, live)
  BY <1>2 DEF Way, Unsent
<1>4. /\ \A x : Holds(a.waiting, x) <=> Holds(q.waiting, x) \/ x = Handle(Head(r))
      /\ Holds(r, Head(r)) /\ \A x : Holds(Tail(r), x) => Holds(r, x)
  BY AppendHolds, TailHolds
<1>5. ASSUME NEW c, Heard(a.waiting, Tail(r), c) PROVE Heard(q.waiting, r, c)
  <2>1. Handle(c) = Handle(Head(r)) => c = Head(r)
    BY DEF Handle
  <2> QED
    BY <1>4, <1>5, <2>1 DEF Heard
<1>6. Lined(a)
  <2>1. \A i \in DOMAIN a.waiting : a.waiting[i].command.type \in Answers
    <3>1. Handle(Head(r)).command = Head(r)
      BY DEF Handle
    <3>2. \A x : Holds(q.waiting, x) => x.command.type \in Answers
      BY DEF Talks, Lined, Holds
    <3>3. \A x : Holds(a.waiting, x) => x.command.type \in Answers
      BY <1>4, <3>1, <3>2
    <3> QED
      BY <3>3 DEF Holds
  <2>2. /\ a.running.wait = "firstFrame" /\ Own(a) => a.active.state = "Pending"
        /\ a.running.wait = "nextFrame" =>
              a.running.commands = <<>> /\ (Own(a) => a.active.state \in States \ {"Pending"})
        /\ IsActive(a) /\ StateOf(a) = "Pending" => a.active.queuedCommands = <<>> /\ Given(a) = <<>>
    BY <1>1, <1>2 DEF Talks, Lined
  <2> QED
    BY <1>1, <2>1, <2>2 DEF Talks, Lined
<1>7. IsActive(a) => DialogOf(a, Way(a, s, live), Tail(r), u, live)
  <2>1. SUFFICES ASSUME DialogOf(q, Way(q, s, live), r, u, live)
                 PROVE  DialogOf(a, Way(a, s, live), Tail(r), u, live)
    BY <1>1 DEF Talks
  <2>2. LastWord(q.active.id, q.waiting, r, u) => LastWord(q.active.id, a.waiting, Tail(r), u)
    BY WaitsHeard
  <2>3. Dialog(q.active.id, q.active.of, q.fields[q.active.of].moved, StateOf(q), a.waiting,
               Way(q, s, live), Tail(r), u, live)
    BY <1>5, <2>1, <2>2, LessHeard DEF DialogOf
  <2> QED
    BY <1>2, <1>3, <2>3 DEF DialogOf
<1>8. a.lockCommands # <<>> /\ IsActive(a) => StateOf(a) = "Pending"
  BY <1>1, <1>2 DEF Talks
<1>9. Chained(Way(a, s, live), u) /\ \A c : Heard(a.waiting, Tail(r), c) => Answer(c)
  BY <1>3, <1>5 DEF Talks
<1> QED
  BY <1>3, <1>6, <1>7, <1>8, <1>9 DEF Talks

\* A command of the device arrives for a transfer.
LEMMA HearTalks ==
    ASSUME NEW s, NEW r, NEW u, NEW live, Spoken(s, r, u, live), r # <<>>,
           HandleReceived(Head(r)), Head(r).type \in Answers, Counted(Head(r))
    PROVE  Speaks(queue', s, Tail(r), u, live)
<1> DEFINE q == Fresh
           a == AddCommand(q, Head(r))
<1>1. Opens(q, s, r, u, live)
  BY FreshTalks
<1>2. queue' = RunNext(a) \/ queue' = q
  BY DEF HandleReceived
<1> HIDE DEF q
<1>3. CASE queue' = q
  <2>1. Talks(q, s, Tail(r), u, live)
    BY <1>1, UnheardTalks DEF Opens
  <2>2. Speaks(q, s, Tail(r), u, live)
    BY <1>1, <2>1, ShortHolds DEF Opens, Formed, Speaks
  <2> QED
    BY <1>3, <2>2
<1>4. CASE queue' = RunNext(a)
  <2>1. /\ DOMAIN a = DOMAIN q /\ a.tasks = q.tasks /\ a.active = q.active /\ a.fields = q.fields
        /\ a.urgent = q.urgent /\ a.running = q.running /\ a.isLocked = q.isLocked
        /\ a.nextId = q.nextId /\ a.lockCommands = q.lockCommands
        /\ a.waiting = Append(q.waiting, Handle(Head(r)))
    BY <1>1 DEF AddCommand, Opens, Formed, IsQueue
  <2> HIDE DEF a
  <2>2. IsSequence(q.waiting) /\ IsSequence(r) /\ Talks(q, s, r, u, live)
    BY <1>1 DEF Opens, Formed, Handlers
  <2>3. /\ IsSequence(a.waiting)
        /\ \A h : Holds(a.waiting, h) <=> Holds(q.waiting, h) \/ h = Handle(Head(r))
    BY <2>1, <2>2, AppendHolds
  <2>4. Formed(a)
    <3>1. Handle(Head(r)).command = Head(r)
      BY DEF Handle
    <3> QED
      BY <1>1, <2>1, <2>3, <3>1 DEF Opens, Formed, IsQueue, Handlers, Typed
  <2>5. Talks(a, s, Tail(r), u, live) /\ Way(a, s, live) = Way(q, s, live)
    BY <2>1, <2>2, WaitsTalks
  <2>6. Free(a.nextId, a.waiting, Way(a, s, live), Tail(r), u)
    <3>1. Free(q.nextId, q.waiting, Way(q, s, live), r, u)
      BY <1>1 DEF Opens
    <3>2. ASSUME NEW c, Heard(a.waiting, Tail(r), c) PROVE Heard(q.waiting, r, c)
      <4>1. Handle(c) = Handle(Head(r)) => c = Head(r)
        BY DEF Handle
      <4>2. Holds(r, Head(r)) /\ \A x : Holds(Tail(r), x) => Holds(r, x)
        BY <2>2, TailHolds
      <4> QED
        BY <2>3, <3>2, <4>1, <4>2 DEF Heard
    <3> QED
      BY <2>1, <2>5, <3>1, <3>2 DEF Free, Silent
  <2>7. IsSequence(s) /\ a.lockCommands = <<>>
    BY <1>1, <2>1 DEF Opens
  <2> QED
    BY <1>4, <2>4, <2>5, <2>6, <2>7, TurnTalks
<1> QED
  BY <1>2, <1>3, <1>4

\* A queue that is cleared has nothing to send.
LEMMA ClearTyped ==
    ASSUME NEW q, Formed(q)
    PROVE  /\ Typed(ClearQueue(q))
           /\ IsSequence(q.lockCommands) => IsSequence(ClearQueue(q).lockCommands)
<1> DEFINE aborted == {q.tasks[i] : i \in DOMAIN q.tasks} \union
                      (IF IsActive(q) THEN {q.active.of} ELSE {})
           a == TransferCompleted(ClearHandlers([q EXCEPT !.tasks = <<>>]))
           fields == [t \in Transfers |-> IF t \in aborted THEN Abort(a.fields[t]) ELSE a.fields[t]]
           r == ClearQueue(q)
<1>1. /\ DOMAIN q = {"tasks", "active", "isLocked", "urgent", "waiting", "running", "nextId",
                     "lockCommands", "fields"}
      /\ \A t \in Transfers : IsTransfer(q.fields[t]) /\ q.fields[t].moved \in Int
  BY DEF Formed, IsQueue, Typed
<1>2. /\ DOMAIN a = DOMAIN q /\ a.waiting = <<>>
      /\ a.running = q.running /\ a.fields = q.fields
      /\ a.lockCommands = q.lockCommands \/ a.lockCommands = Append(q.lockCommands, FALSE)
  BY <1>1 DEF TransferCompleted, ClearHandlers, SendLock
<1>3. r = [a EXCEPT !.active = NoActive, !.fields = fields]
  BY DEF ClearQueue
<1>4. \A t \in Transfers : fields[t].moved \in Int
  BY <1>1, <1>2 DEF Abort, Settle, IsTransfer
<1> HIDE DEF a, fields, r
<1>5. /\ r.waiting = <<>> /\ r.running = q.running /\ r.active = NoActive /\ r.fields = fields
      /\ r.lockCommands = a.lockCommands
  BY <1>1, <1>2, <1>3
<1>6. NoActive.queuedCommands = <<>>
  BY DEF NoActive
<1>7. Typed(r)
  BY <1>4, <1>5, <1>6, GivenOrders, ShortHolds DEF Typed, Formed
<1>8. ASSUME IsSequence(q.lockCommands) PROVE IsSequence(r.lockCommands)
  <2>1. CASE a.lockCommands = q.lockCommands
    BY <1>5, <1>8, <2>1
  <2>2. CASE a.lockCommands = Append(q.lockCommands, FALSE)
    <3>1. IsSequence(Append(q.lockCommands, FALSE))
      BY ONLY <1>8, AppendHolds
    <3> QED
      BY ONLY <3>1, <1>5, <2>2
  <2> QED
    BY <1>2, <2>1, <2>2
<1> QED
  BY <1>7, <1>8 DEF r

\* Sending starts or stops.
LEMMA SendingTalks ==
    ASSUME NEW s, NEW r, NEW u, NEW live, Spoken(s, r, u, live),
           StartCommandSending \/ StopCommandSending
    PROVE  /\ Speaks(queue', s, r, u, live)
           /\ StopCommandSending \/ ~interval => ~IsActive(queue') /\ Way(queue', s, live) = s
<1> DEFINE q == Fresh
<1>1. Opens(q, s, r, u, live)
  BY FreshTalks
<1>2. \/ queue' = q /\ ~StopCommandSending /\ interval
      \/ queue' = ClearQueue(q)
  BY DEF StartCommandSending, StopCommandSending
<1> HIDE DEF q
<1>3. CASE queue' = q /\ ~StopCommandSending /\ interval
  BY <1>1, <1>3, ShortHolds DEF Opens, Formed, Speaks
<1>4. CASE queue' = ClearQueue(q)
  <2>1. Typed(ClearQueue(q)) /\ IsSequence(ClearQueue(q).lockCommands)
    BY <1>1, ClearTyped, ShortHolds DEF Opens
  <2>2. /\ Talks(ClearQueue(q), s, r, u, live) /\ Way(ClearQueue(q), s, live) = s
        /\ ~IsActive(ClearQueue(q))
    BY <1>1, ClearTalks DEF Opens, Formed
  <2> QED
    BY <1>4, <2>1, <2>2 DEF Speaks
<1> QED
  BY <1>2, <1>3, <1>4

\* What the interval takes is under way already.
LEMMA TakenWay ==
    ASSUME NEW q, NEW a, NEW s, NEW s2, NEW l, NEW live, Typed(q), IsSequence(s), IsSequence(l),
           IsSequence(a.active.queuedCommands),
           l \o a.active.queuedCommands = q.active.queuedCommands,
           \/ live /\ s2 = s \o l
           \/ ~live /\ s2 = s,
           Given(a) = Given(q)
    PROVE  Way(a, s2, live) = Way(q, s, live)
<1>1. CASE ~live
  BY <1>1 DEF Way
<1>2. CASE live
  <2> DEFINE m == a.active.queuedCommands
             g == Given(q)
  <2>1. IsSequence(m) /\ IsSequence(g) /\ Given(a) = g /\ q.active.queuedCommands = l \o m
    BY WayIs
  <2>2. Way(a, s2, live) = (s \o l) \o (m \o g) /\ Way(q, s, live) = s \o ((l \o m) \o g)
    BY <1>2, <2>1 DEF Way, Unsent
  <2> HIDE DEF m, g
  <2>3. (s \o l) \o (m \o g) = s \o (l \o (m \o g))
    BY <2>1, JoinThree
  <2>4. (l \o m) \o g = l \o (m \o g)
    BY <2>1, JoinThree
  <2> QED
    BY <2>2, <2>3, <2>4
<1> QED
  BY <1>1, <1>2

\* The interval takes commands of the active transfer: they are under way already.
LEMMA TakenTalks ==
    ASSUME NEW q, NEW a, NEW s, NEW s2, NEW l, NEW r, NEW u, NEW live, Talks(q, s, r, u, live),
           Typed(q), IsSequence(s), IsSequence(l), IsSequence(a.active.queuedCommands),
           l \o a.active.queuedCommands = q.active.queuedCommands,
           s2 = IF live THEN s \o l ELSE s,
           q.active.queuedCommands = <<>> => a.active.queuedCommands = <<>>,
           a.tasks = q.tasks, a.active.of = q.active.of, a.active.id = q.active.id,
           a.active.state = q.active.state, a.waiting = q.waiting,
           a.fields = q.fields, a.running = q.running, a.lockCommands = q.lockCommands
    PROVE  Talks(a, s2, r, u, live)
<1>1. (IsActive(a) <=> IsActive(q)) /\ (Own(a) <=> Own(q))
  BY DEF Own, IsActive, Waits
<1>2. Given(a) = Given(q) /\ StateOf(a) = StateOf(q)
  BY <1>1 DEF Given, StateOf
<1>3. Way(a, s2, live) = Way(q, s, live)
  <2>1. (live /\ s2 = s \o l) \/ (~live /\ s2 = s)
    OBVIOUS
  <2> QED
    BY ONLY <1>2, <2>1, Typed(q), IsSequence(s), IsSequence(l), IsSequence(a.active.queuedCommands),
       l \o a.active.queuedCommands = q.active.queuedCommands, TakenWay
<1>4. Lined(a)
  <2>1. /\ a.running.wait = "firstFrame" /\ Own(a) => a.active.state = "Pending"
        /\ a.running.wait = "nextFrame" =>
              a.running.commands = <<>> /\ (Own(a) => a.active.state \in States \ {"Pending"})
        /\ ~IsActive(a) => a.active.queuedCommands = <<>>
        /\ IsActive(a) /\ StateOf(a) = "Pending" => a.active.queuedCommands = <<>> /\ Given(a) = <<>>
    BY <1>1, <1>2 DEF Talks, Lined
  <2> QED
    BY <1>1, <2>1 DEF Talks, Lined
<1>5. IsActive(a) => DialogOf(a, Way(a, s2, live), r, u, live)
  BY <1>1, <1>2, <1>3 DEF Talks, DialogOf
<1>6. a.lockCommands # <<>> /\ IsActive(a) => StateOf(a) = "Pending"
  BY <1>1, <1>2 DEF Talks
<1>7. Chained(Way(a, s2, live), u) /\ \A c : Heard(a.waiting, r, c) => Answer(c)
  BY <1>3 DEF Talks
<1> QED
  BY <1>4, <1>5, <1>6, <1>7 DEF Talks

\* The active transfer is done with: the next one begins, or the lock is returned.
LEMMA EndedTalks ==
    ASSUME NEW q, NEW s, NEW r, NEW u, NEW live, Opens(q, s, r, u, live)
    PROVE  LET b == EndActive(q)
           IN  /\ Talks(b, s, r, u, live) /\ Formed(b)
               /\ b.lockCommands = <<>> \/ (IsSequence(b.lockCommands) /\ ~IsActive(b))
               /\ Free(b.nextId, b.waiting, Way(b, s, live), r, u)
<1> DEFINE a == [TransferCompleted(q) EXCEPT !.active = NoActive]
           b == DequeueAndRun(a)
<1>1. Opens(q, s, r, u, live) /\ q.lockCommands = <<>> /\ IsSequence(s)
  BY DEF Opens
<1>2. /\ DOMAIN a = DOMAIN q /\ a.active = NoActive
      /\ \A f \in {"tasks", "urgent", "waiting", "running", "nextId", "fields"} : a[f] = q[f]
      /\ q.tasks # <<>> => a.lockCommands = <<>>
      /\ a.lockCommands = q.lockCommands \/ a.lockCommands = Append(q.lockCommands, FALSE)
  <2>1. CASE Locking /\ q.isLocked /\ q.tasks = <<>>
    <3>1. a = [q EXCEPT !.lockCommands = Append(@, FALSE), !.isLocked = FALSE,
                        !.active = NoActive]
      BY <2>1 DEF TransferCompleted, SendLock
    <3> HIDE DEF a
    <3> QED
      BY <1>1, <2>1, <3>1 DEF Opens, Formed, IsQueue
  <2>2. CASE ~(Locking /\ q.isLocked /\ q.tasks = <<>>)
    <3>1. a = [q EXCEPT !.active = NoActive]
      BY <2>2 DEF TransferCompleted
    <3> HIDE DEF a
    <3> QED
      BY <1>1, <2>2, <3>1 DEF Opens, Formed, IsQueue
  <2> QED
    BY <2>1, <2>2
<1> HIDE DEF a
<1>3. NoActive.of = NoTransfer /\ DOMAIN NoActive = {"id", "of", "state", "queuedCommands"}
      /\ NoActive.queuedCommands = <<>>
  BY DEF NoActive
<1>4. /\ ~IsActive(a) /\ IdIsFree(a)
  BY <1>1, <1>2, <1>3 DEF IsActive, IdIsFree, Waits, Opens
<1>5. Formed(a)
  BY <1>1, <1>2, <1>3, GivenOrders DEF Formed, IsQueue, Handlers, Typed, Opens
<1>6. /\ Talks(a, s, r, u, live) /\ Way(a, s, live) = s
      /\ \A id : Free(id, q.waiting, Way(q, s, live), r, u) => Free(id, a.waiting, s, r, u)
  <2>1. Talks(q, s, r, u, live) /\ IsQueue(q) /\ Typed(q)
    BY <1>1 DEF Opens, Formed
  <2>2. /\ a.running = q.running /\ a.tasks = q.tasks /\ a.waiting = q.waiting
        /\ a.fields = q.fields
    BY <1>2
  <2> QED
    BY <1>1, <1>2, <2>1, <2>2, DroppedTalks
<1>7. /\ Free(a.nextId, a.waiting, Way(a, s, live), r, u)
      /\ Free(After(a.nextId), a.waiting, Way(a, s, live), r, u)
  <2>1. a.nextId = q.nextId
    BY <1>2
  <2> QED
    BY <1>1, <1>6, <2>1 DEF Opens
<1>8. Talks(b, s, r, u, live)
  <2>1. IsQueue(a) /\ Handlers(a)
    BY <1>5 DEF Formed
  <2> QED
    BY <1>1, <1>4, <1>6, <1>7, <2>1, DequeueTalks
<1>9. /\ Formed(b)
      /\ b.lockCommands = <<>> \/ (IsSequence(b.lockCommands) /\ ~IsActive(b))
      /\ Free(b.nextId, b.waiting, Way(b, s, live), r, u)
  <2>1. a.tasks = q.tasks
    BY <1>2
  <2>2. CASE a.tasks = <<>>
    <3>1. b = a
      BY <2>2 DEF DequeueAndRun
    <3>2. CASE a.lockCommands = q.lockCommands
      BY <1>1, <1>4, <1>5, <1>7, <3>1, <3>2
    <3>3. CASE a.lockCommands = Append(q.lockCommands, FALSE)
      <4>1. IsSequence(a.lockCommands)
        BY <1>1, <3>3, ShortHolds, AppendHolds
      <4> QED
        BY <1>4, <1>5, <1>7, <3>1, <4>1
    <3> QED
      BY <1>2, <3>2, <3>3
  <2>3. CASE a.tasks # <<>>
    <3>1. /\ Formed(b) /\ b.lockCommands = a.lockCommands /\ b.nextId = After(a.nextId)
          /\ Free(After(a.nextId), b.waiting, Way(b, s, live), r, u)
      BY <1>1, <1>4, <1>5, <1>6, <1>7, <2>3, DequeueWay
    <3> QED
      BY <1>2, <2>1, <2>3, <3>1
  <2> QED
    BY <2>2, <2>3
<1>10. EndActive(q) = b
  BY DEF EndActive, a
<1> HIDE DEF b
<1> QED
  BY <1>8, <1>9, <1>10

\* What the interval takes and what it leaves is what there was.
LEMMA PoppedJoins ==
    ASSUME IsActive(queue), IsSequence(queue.active.queuedCommands)
    PROVE  LET l == queue.active.queuedCommands
           IN  Popped \o SubSeq(l, Len(Popped) + 1, Len(l)) = l
<1> DEFINE l == queue.active.queuedCommands
           n == IF Len(l) < MaxPerTick THEN Len(l) ELSE MaxPerTick
<1>1. Popped = SubSeq(l, 1, n) /\ IsSequence(l)
  BY DEF Popped
<1> HIDE DEF l
<1>2. Len(l) \in Nat /\ n \in 0 .. Len(l)
  BY <1>1, JoinAt, QueueAssumption
<1> HIDE DEF n
<1>3. Len(SubSeq(l, 1, n)) = n
  BY <1>1, <1>2 DEF IsSequence
<1>4. SubSeq(l, 1, n) \o SubSeq(l, n + 1, Len(l)) = l
  BY <1>1, <1>2, SplitJoins
<1>5. Popped \o SubSeq(l, Len(Popped) + 1, Len(l)) = l
  BY <1>1, <1>3, <1>4
<1> QED
  BY <1>5 DEF l

\* The interval ticks.
LEMMA TickTalks ==
    ASSUME NEW s, NEW r, NEW u, NEW live, Spoken(s, r, u, live), Tick
    PROVE  /\ Speaks(queue', IF live THEN s \o Popped ELSE s, r, u, live)
           /\ IsSequence(Popped) /\ (Popped # <<>> => queue'.lockCommands = <<>>)
<1> DEFINE q == Fresh
<1>1. Opens(q, s, r, u, live)
  BY FreshTalks
<1>2. IsActive(queue) /\ Orders(queue.active.queuedCommands) /\ IsSequence(s)
  BY DEF Tick, Spoken, Typed
<1>3. /\ Orders(Popped) /\ IsSequence(Popped)
      /\ queue.active.queuedCommands = <<>> => Popped = <<>>
  BY <1>2, PoppedTyped DEF Popped, Orders
<1>4. /\ q.active = queue.active /\ q.nextId = queue.nextId /\ q.tasks = queue.tasks
      /\ q.waiting = queue.waiting /\ q.running = queue.running /\ q.lockCommands = <<>>
      /\ q.fields = queue.fields
  BY <1>1 DEF Opens, SameTransfers
<1>5. CASE queue.active.queuedCommands = <<>> /\ queue.active.state = "Finished"
  <2> DEFINE b == EndActive(q)
  <2>1. queue' = RunNext(b)
    BY <1>5 DEF Tick
  <2>2. /\ Talks(b, s, r, u, live) /\ Formed(b)
        /\ b.lockCommands = <<>> \/ (IsSequence(b.lockCommands) /\ ~IsActive(b))
        /\ Free(b.nextId, b.waiting, Way(b, s, live), r, u)
    BY <1>1, EndedTalks
  <2> HIDE DEF b
  <2>3. Speaks(queue', s, r, u, live)
    BY <1>2, <2>1, <2>2, TurnTalks
  <2>4. Popped = <<>> /\ s \o <<>> = s
    BY <1>2, <1>3, <1>5, JoinThree, GivenSequences
  <2> QED
    BY <1>3, <2>3, <2>4
<1>6. CASE ~(queue.active.queuedCommands = <<>> /\ queue.active.state = "Finished")
  <2> DEFINE a == [q EXCEPT !.active.queuedCommands = SubSeq(@, Len(Popped) + 1, Len(@))]
  <2>1. queue' = a
    BY <1>6 DEF Tick
  <2> HIDE DEF q
  <2>2. /\ DOMAIN a = DOMAIN q /\ a.tasks = q.tasks /\ a.fields = q.fields
        /\ a.urgent = q.urgent /\ a.waiting = q.waiting /\ a.running = q.running
        /\ a.isLocked = q.isLocked /\ a.nextId = q.nextId /\ a.lockCommands = q.lockCommands
        /\ a.active.of = q.active.of
        /\ a.active.id = q.active.id /\ a.active.state = q.active.state
        /\ a.active.queuedCommands
             = SubSeq(q.active.queuedCommands, Len(Popped) + 1, Len(q.active.queuedCommands))
    BY <1>1 DEF Opens, Formed, IsQueue
  <2> HIDE DEF a
  <2>3. Len(Popped) \in Nat
    BY <1>3, JoinAt
  <2>4. Orders(a.active.queuedCommands)
    BY <1>2, <1>4, <2>2, <2>3, PoppedTyped
  <2>5. Typed(a) /\ Typed(q)
    BY <1>1, <2>2, <2>4 DEF Opens, Formed, Typed
  <2>6. Popped \o a.active.queuedCommands = q.active.queuedCommands
    <3>1. /\ IsSequence(queue.active.queuedCommands)
          /\ a.active.queuedCommands
               = SubSeq(queue.active.queuedCommands, Len(Popped) + 1, Len(queue.active.queuedCommands))
      BY <1>2, <1>4, <2>2 DEF Orders
    <3> QED
      BY <1>2, <1>4, <3>1, PoppedJoins
  <2>7. q.active.queuedCommands = <<>> => a.active.queuedCommands = <<>>
    <3>1. SubSeq(<<>>, Len(<<>>) + 1, Len(<<>>)) = <<>>
      OBVIOUS
    <3> QED
      BY <1>3, <1>4, <2>2, <3>1
  <2>8. Talks(q, s, r, u, live) /\ IsSequence(a.active.queuedCommands)
    BY <1>1, <2>4 DEF Opens, Orders
  <2> DEFINE s2 == IF live THEN s \o Popped ELSE s
  <2>9. s2 = IF live THEN s \o Popped ELSE s
    OBVIOUS
  <2> HIDE DEF s2
  <2>10. Talks(a, s2, r, u, live)
    BY <1>2, <1>3, <2>2, <2>5, <2>6, <2>7, <2>8, <2>9, TakenTalks
  <2>11. Speaks(a, s2, r, u, live)
    BY <1>4, <2>2, <2>5, <2>10, ShortHolds DEF Speaks
  <2> QED
    BY <1>3, <1>4, <2>1, <2>2, <2>11 DEF s2
<1> QED
  BY <1>5, <1>6

-----------------------------------------------------------------------------
(* The channels *)

\* Lock commands are sent ahead of what is given to the interval: then there is nothing.
LEMMA SendTalks ==
    ASSUME NEW q, NEW s, NEW l, NEW r, NEW u, NEW live, Speaks(q, s, r, u, live), IsSequence(s),
           IsSequence(l), \A i \in DOMAIN l : Other(l[i]), q.lockCommands = <<>> => l = <<>>
    PROVE  Speaks(q, s \o l, r, u, live) /\ IsSequence(s \o l)
<1>1. CASE l = <<>>
  <2>1. s \o l = s
    BY <1>1, JoinThree, ShortHolds
  <2> QED
    BY <2>1
<1>2. CASE l # <<>>
  <2>1. Talks(q, s, r, u, live)
    BY DEF Speaks
  <2>2. q.active.queuedCommands = <<>> /\ Given(q) = <<>>
    <3>1. CASE IsActive(q)
      BY <1>2, <2>1, <3>1 DEF Talks, Lined
    <3>2. CASE ~IsActive(q)
      BY <2>1, <3>2 DEF Talks, Lined, Given, Own
    <3> QED
      BY <3>1, <3>2
  <2>3. Way(q, s, live) = s /\ Way(q, s \o l, live) = s \o l /\ IsSequence(s \o l)
    <3>1. IsSequence(s \o l)
      BY JoinThree
    <3> QED
      BY <2>2, <3>1, NothingUnsent
  <2>4. Chained(s, u)
    BY <2>1, <2>3 DEF Talks
  <2>5. Chained(s \o l, u)
    BY <2>4, OthersChained
  <2>6. IsActive(q) => DialogOf(q, s \o l, r, u, live)
    <3>1. SUFFICES ASSUME IsActive(q) PROVE DialogOf(q, s \o l, r, u, live)
      OBVIOUS
    <3>2. DialogOf(q, s, r, u, live) /\ StateOf(q) # "Transferring"
      BY <1>2, <2>1, <2>3, <3>1 DEF Talks
    <3> DEFINE p == s \o l
    <3>3. \A i \in DOMAIN p : Other(p[i]) \/ \E j \in DOMAIN s : p[i] = s[j]
      <4>1. /\ Len(s) \in Nat /\ Len(l) \in Nat /\ DOMAIN s = 1 .. Len(s)
            /\ DOMAIN l = 1 .. Len(l) /\ DOMAIN p = 1 .. Len(s) + Len(l)
            /\ \A i \in 1 .. Len(s) : p[i] = s[i]
            /\ \A i \in 1 .. Len(l) : p[Len(s) + i] = l[i]
        BY JoinAt
      <4> HIDE DEF p
      <4>2. ASSUME NEW i \in DOMAIN p PROVE Other(p[i]) \/ \E j \in DOMAIN s : p[i] = s[j]
        <5>1. CASE i <= Len(s)
          BY <4>1, <5>1
        <5>2. CASE ~(i <= Len(s))
          <6>1. i - Len(s) \in 1 .. Len(l) /\ i = Len(s) + (i - Len(s))
            BY <4>1, <5>2
          <6> QED
            BY <4>1, <6>1
        <5> QED
          BY <5>1, <5>2
      <4> QED
        BY <4>2
    <3> HIDE DEF p
    <3>4. DialogOf(q, p, r, u, live)
      BY <3>2, <3>3, OthersDialog DEF DialogOf
    <3> QED
      BY <3>4 DEF p
  <2>7. Talks(q, s \o l, r, u, live)
    BY <2>1, <2>3, <2>5, <2>6 DEF Talks
  <2> QED
    BY <2>3, <2>7 DEF Speaks
<1> QED
  BY <1>1, <1>2

\* Nothing more can be sent.
LEMMA DeafTalks ==
    ASSUME NEW q, NEW s, NEW r, NEW u, NEW live, Speaks(q, s, r, u, live), IsSequence(s)
    PROVE  Speaks(q, s, r, u, FALSE)
<1>1. IsSequence(Unsent(q)) /\ Talks(q, s, r, u, live)
  BY WayIs DEF Speaks
<1>2. Way(q, s, FALSE) = s /\ (Way(q, s, live) = s \/ Way(q, s, live) = s \o Unsent(q))
  BY DEF Way
<1>3. Chained(s, u)
  BY <1>1, <1>2, PrefixChained DEF Talks
<1>4. IsActive(q) => DialogOf(q, s, r, u, FALSE)
  <2>1. SUFFICES ASSUME DialogOf(q, Way(q, s, live), r, u, live)
                 PROVE  DialogOf(q, s, r, u, FALSE)
    BY <1>1 DEF Talks
  <2> DEFINE p == Way(q, s, live)
  <2>2. \A i \in DOMAIN s : \E j \in DOMAIN p : s[i] = p[j]
    <3>1. CASE p = s
      BY <3>1
    <3>2. CASE p = s \o Unsent(q)
      <4> DEFINE t == Unsent(q)
      <4>1. IsSequence(t) /\ p = s \o t
        BY <1>1, <3>2
      <4> HIDE DEF t, p
      <4>2. /\ Len(s) \in Nat /\ Len(t) \in Nat /\ DOMAIN s = 1 .. Len(s)
            /\ DOMAIN p = 1 .. Len(s) + Len(t) /\ \A i \in 1 .. Len(s) : p[i] = s[i]
        BY <4>1, JoinAt
      <4>3. \A i \in DOMAIN s : i \in DOMAIN p
        BY <4>2
      <4> QED
        BY <4>2, <4>3
    <3> QED
      BY <1>2, <3>1, <3>2
  <2> HIDE DEF p
  <2>3. DialogOf(q, p, r, u, live)
    BY <2>1 DEF p
  <2> QED
    BY <2>2, <2>3, LessSent DEF DialogOf
<1>5. Talks(q, s, r, u, FALSE)
  BY <1>1, <1>2, <1>3, <1>4 DEF Talks
<1> QED
  BY <1>5 DEF Speaks

\* Whether more can be sent is no matter to a queue without a transfer.
LEMMA IdleTalks ==
    ASSUME NEW q, NEW s, NEW r, NEW u, NEW live, Speaks(q, s, r, u, live), ~IsActive(q),
           IsSequence(s)
    PROVE  \A on : Speaks(q, s, r, u, on) /\ Way(q, s, on) = s
<1>1. Talks(q, s, r, u, live) /\ Given(q) = <<>> /\ q.active.queuedCommands = <<>>
  BY DEF Speaks, Talks, Lined, Given, Own
<1>2. ASSUME NEW on PROVE Speaks(q, s, r, u, on) /\ Way(q, s, on) = s
  <2>1. Way(q, s, on) = s /\ Way(q, s, live) = s
    BY <1>1, NothingUnsent
  <2> QED
    BY <1>1, <2>1 DEF Speaks, Talks
<1> QED
  BY <1>2

\* The connection is lost, and all that was on its way.
LEMMA CutTalks ==
    ASSUME NEW q, NEW s, NEW r, NEW u, NEW live, Speaks(q, s, r, u, live), ~IsActive(q),
           IsSequence(s)
    PROVE  \A u2, on : Speaks(q, <<>>, <<>>, u2, on)
<1>1. Talks(q, s, r, u, live) /\ Given(q) = <<>> /\ q.active.queuedCommands = <<>>
  BY DEF Speaks, Talks, Lined, Given, Own
<1>2. ASSUME NEW u2, NEW on PROVE Speaks(q, <<>>, <<>>, u2, on)
  <2>1. Way(q, <<>>, on) = <<>>
    BY <1>1, NothingUnsent, ShortHolds
  <2>2. Chained(<<>>, u2)
    BY DEF Chained
  <2>3. \A c : Heard(q.waiting, <<>>, c) => Heard(q.waiting, r, c)
    BY ShortHolds DEF Heard
  <2> QED
    BY <1>1, <2>1, <2>2, <2>3 DEF Speaks, Talks
<1> QED
  BY <1>2

\* The device tells something that is not about a transfer.
LEMMA NewsTalks ==
    ASSUME NEW q, NEW s, NEW r, NEW u, NEW live, Speaks(q, s, r, u, live), IsSequence(r),
           Handlers(q), NEW c, Other(c)
    PROVE  Speaks(q, s, r \o <<c>>, u, live) /\ IsSequence(r \o <<c>>)
<1> DEFINE r2 == r \o <<c>>
<1>1. Talks(q, s, r, u, live)
  BY DEF Speaks
<1>2. \A h : Holds(q.waiting, h) => \E d : h = Handle(d)
  BY DEF Handlers
<1>3. /\ IsSequence(r2) /\ \A d : Holds(r2, d) <=> Holds(r, d) \/ d = c
  <2>1. r2 = Append(r, c)
    BY DEF IsSequence
  <2> HIDE DEF r2
  <2>2. IsSequence(Append(r, c)) /\ \A d : Holds(Append(r, c), d) <=> Holds(r, d) \/ d = c
    BY AppendHolds
  <2> QED
    BY <2>1, <2>2
<1>4. IsActive(q) => DialogOf(q, Way(q, s, live), r2, u, live)
  BY <1>1, <1>2, NewsDialog DEF Talks, DialogOf
<1> HIDE DEF r2
<1>5. \A d : Heard(q.waiting, r2, d) => Answer(d)
  <2>1. Answer(c)
    BY DEF Other, Answer, Answers
  <2> QED
    BY <1>1, <1>3, <2>1 DEF Heard, Talks
<1>6. Talks(q, s, r2, u, live)
  BY <1>1, <1>4, <1>5 DEF Talks
<1> QED
  BY <1>3, <1>6 DEF r2, Speaks

\* The device takes a command without an answer: as if it had told anything else.
LEMMA QuietTalks ==
    ASSUME NEW q, NEW s, NEW r, NEW u, NEW live, NEW c, Speaks(q, s, r \o <<c>>, u, live),
           IsSequence(r)
    PROVE  Speaks(q, s, r, u, live)
<1>1. Talks(q, s, r \o <<c>>, u, live)
  BY DEF Speaks
<1>2. IsActive(q) => DialogOf(q, Way(q, s, live), r, u, live)
  BY <1>1, QuietDialog DEF Talks, DialogOf
<1>3. \A d : Heard(q.waiting, r, d) => Heard(q.waiting, r \o <<c>>, d)
  <2>1. r \o <<c>> = Append(r, c)
    BY DEF IsSequence
  <2> QED
    BY <2>1, AppendHolds DEF Heard
<1>4. Talks(q, s, r, u, live)
  BY <1>1, <1>2, <1>3 DEF Talks
<1> QED
  BY <1>4 DEF Speaks

\* What the device says to a command: something else, or an answer that ends no transfer it
\* still has.
Replies(d, c, u, u2) ==
    /\ d.type \in Answers /\ d.id = c.id
    /\ c.type = "request" \/ At(u, c.id)
    /\ d.type = "data" => (c.type = "request" /\ Kind[c.of] = "download") \/ c.type = "dataAck"
    /\ d.type = "complete" => c.type \in {"data", "dataAck"}
    /\ Ends(d, c.id) => ~At(u2, c.id)

\* What the device makes of the command it takes.
Makes(c, u, u2) == Drops(u2) \/ Begins(c, u2) \/ GoesOn(c, u, u2)

\* Device and client on a transfer, when the device takes a command.
LEMMA TakenDialog ==
    ASSUME NEW id, NEW t, NEW moved, NEW state, NEW w, NEW p, NEW r, NEW u, NEW live,
           Dialog(id, t, moved, state, w, p, r, u, live),
           IsSequence(r), \A h : Holds(w, h) => \E d : h = Handle(d),
           IsSequence(p), p # <<>>, Chained(p, u), NEW u2, Makes(Head(p), u, u2),
           NEW d, Other(d) \/ Replies(d, Head(p), u, u2)
    PROVE  Dialog(id, t, moved, state, w, Tail(p), r \o <<d>>, u2, live)
<1> DEFINE c == Head(p)
           p2 == Tail(p)
<1>1. /\ IsSequence(p2) /\ Len(p) \in Nat /\ Len(p2) = Len(p) - 1
      /\ DOMAIN p = 1 .. Len(p) /\ DOMAIN p2 = 1 .. Len(p) - 1
      /\ 1 \in DOMAIN p /\ c = p[1]
      /\ \A i \in DOMAIN p2 : i \in Nat /\ i >= 1 /\ i + 1 \in DOMAIN p /\ p2[i] = p[i + 1]
  BY RestAt
<1>2. Makes(c, u, u2) /\ (Other(d) \/ Replies(d, c, u, u2))
  OBVIOUS
<1> HIDE DEF c, p2
<1>3. /\ c.type = "data" => /\ c.chunk \in Nat \ {0}
                            /\ Reaches(p, 0, u, c.id, c.chunk - 1)
      /\ c.type = "description" => (At(u, c.id) => u.got = 0)
      /\ c.type = "dataAck" => (At(u, c.id) => Kind[u.of] = "download")
      /\ c.type = "request" => ~At(u, c.id) /\ c.of \in Transfers
                               /\ \A j \in DOMAIN p : j > 1 => ~About(p[j], c.id)
  <2>1. 1 \in DOMAIN p /\ p[1] = c /\ 1 - 1 = 0
    BY <1>1
  <2>2. c.type = "data" => c.chunk \in Nat \ {0} /\ Reaches(p, 1 - 1, u, c.id, c.chunk - 1)
    BY <2>1 DEF Chained
  <2> QED
    BY <2>1, <2>2 DEF Chained
<1>4. \A i \in DOMAIN p : p[i].type = "request" /\ p[i].id = id => p[i].of = t
  BY DEF Dialog, Exchange
<1>5. At(u, id) => u.of = t
  BY DEF Dialog, Exchange
<1>6. c.type = "request" /\ c.id = id => c.of = t /\ Requested(p, id)
  BY <1>1, <1>4 DEF Requested
<1>7. About(d, id) => Replies(d, c, u, u2) /\ c.id = id
  BY <1>2 DEF About, Other, Replies
<1>8. \A i \in DOMAIN p2 : \E j \in DOMAIN p : p2[i] = p[j]
  BY <1>1
<1>9. At(u2, id) => (At(u, id) /\ u2.of = u.of) \/ (u2.of = t /\ Requested(p, id))
  BY <1>2, <1>6 DEF At, Makes, Drops, Begins, GoesOn
<1>10. At(u2, id) => At(u, id) \/ (c.type = "request" /\ c.id = id)
  BY <1>2 DEF At, Makes, Drops, Begins, GoesOn
<1>11. ASSUME Requested(p2, id)
       PROVE  ~At(u, id) /\ ~(c.type = "request" /\ c.id = id)
  <2>1. PICK j \in DOMAIN p2 : p2[j].type = "request" /\ p2[j].id = id
    BY <1>11 DEF Requested
  <2>2. j + 1 \in DOMAIN p /\ p[j + 1] = p2[j] /\ j + 1 > 1
    BY <1>1
  <2>3. ~At(u, id)
    BY <2>1, <2>2 DEF Chained
  <2>4. About(p[j + 1], id)
    BY <2>1, <2>2 DEF About
  <2> QED
    BY <1>3, <2>2, <2>3, <2>4
<1>12. About(d, id) => At(u, id) \/ (c.type = "request" /\ c.id = id)
  BY <1>7 DEF Replies
<1>13. About(d, id) \/ At(u2, id) => ~Requested(p2, id)
  BY <1>10, <1>11, <1>12
<1>14. About(d, id) => At(u, id) \/ Requested(p, id)
  BY <1>6, <1>12
<1>15. Ends(d, id) => ~At(u2, id)
  <2>1. Ends(d, id) => About(d, id)
    BY DEF Ends, About, Answers
  <2> QED
    BY <1>7, <2>1 DEF Replies
<1>16. Kind[t] # "download" /\ About(d, id) => d.type # "data"
  BY <1>3, <1>5, <1>6, <1>7 DEF Replies
<1>17. /\ Kind[t] # "download"
       /\ \A i \in DOMAIN p : p[i].type \in Parts => p[i].id # id
       /\ At(u, id) => u.got = 0
       => /\ At(u2, id) => u2.got = 0
          /\ About(d, id) => d.type # "complete"
  <2> SUFFICES ASSUME Kind[t] # "download",
                      \A i \in DOMAIN p : p[i].type \in Parts => p[i].id # id,
                      At(u, id) => u.got = 0
               PROVE  /\ At(u2, id) => u2.got = 0
                      /\ About(d, id) => d.type # "complete"
    OBVIOUS
  <2>1. c.type \in Parts => c.id # id
    BY <1>1
  <2>2. c.type = "dataAck" /\ At(u, id) => c.id # id
    BY <1>3, <1>5
  <2>3. About(d, id) => d.type # "complete"
    BY <1>7, <2>1, <2>2 DEF Replies, Parts
  <2>4. At(u2, id) => u2.got = 0
    <3>1. SUFFICES ASSUME At(u2, id) PROVE u2.got = 0
      OBVIOUS
    <3>2. CASE Begins(c, u2)
      BY <3>2 DEF Begins
    <3>3. CASE GoesOn(c, u, u2)
      <4>1. At(u, id) /\ u.id = id
        BY <3>1, <3>3 DEF At, GoesOn
      <4>2. c.type \notin {"description", "data", "dataAck"} \/ c.id # u.id
        BY <2>1, <2>2, <4>1 DEF Parts
      <4> QED
        BY <3>3, <4>1, <4>2 DEF GoesOn
    <3> QED
      BY <1>2, <3>1, <3>2, <3>3 DEF Makes, Drops, At
  <2> QED
    BY <2>3, <2>4
<1>18. Reaches(p, Len(p), u, id, moved) => Reaches(p2, Len(p2), u2, id, moved)
  <2> SUFFICES ASSUME Reaches(p, Len(p), u, id, moved) PROVE Reaches(p2, Len(p2), u2, id, moved)
    OBVIOUS
  <2>1. Len(p) # 0 /\ p[Len(p)] = Chunk(id, moved)
    BY <1>1 DEF Reaches
  <2>2. CASE Len(p2) # 0
    <3>1. Len(p2) \in DOMAIN p2 /\ Len(p2) + 1 = Len(p)
      BY <1>1, <2>2
    <3> QED
      BY <1>1, <2>1, <2>2, <3>1 DEF Reaches
  <2>3. CASE Len(p2) = 0
    <3>1. c = Chunk(id, moved)
      BY <1>1, <2>1, <2>3
    <3>2. c.id = id /\ c.type # "request"
      BY <3>1 DEF Chunk, Description, Data
    <3>3. ASSUME At(u2, id) PROVE u2.got = moved /\ u2.described
      <4>1. GoesOn(c, u, u2)
        BY <1>2, <3>2, <3>3 DEF Makes, Drops, Begins, At
      <4>2. At(u, id) /\ u.id = id
        BY <3>3, <4>1 DEF At, GoesOn
      <4>3. CASE moved = 0
        <5>1. c.type = "description"
          BY <3>1, <4>3 DEF Chunk, Description
        <5> QED
          BY <1>3, <3>2, <4>1, <4>2, <4>3, <5>1 DEF GoesOn
      <4>4. CASE moved # 0
        <5>1. c.type = "data" /\ c.chunk = moved
          BY <3>1, <4>4 DEF Chunk, Data
        <5>2. u.got = moved - 1 /\ u.described /\ moved \in Nat
          BY <1>3, <3>2, <4>2, <5>1 DEF Reaches
        <5>3. u2.got = u.got + 1 /\ (u2.described <=> u.described)
          BY <3>2, <4>1, <4>2, <5>1 DEF GoesOn
        <5> QED
          BY <5>2, <5>3
      <4> QED
        BY <4>3, <4>4
    <3> QED
      BY <2>3, <3>3 DEF Reaches
  <2> QED
    BY <2>2, <2>3
<1> DEFINE D == Dialog(id, t, moved, state, w, p2, r \o <<d>>, u2, live)
<1>19. D
  BY ONLY <1>8, <1>9, <1>13, <1>14, <1>15, <1>16, <1>17, <1>18, IsSequence(r),
     \A h : Holds(w, h) => \E e : h = Handle(e),
     Dialog(id, t, moved, state, w, p, r, u, live), DeviceDialog
<1> QED
  BY <1>19 DEF p2

\* The device takes what was sent first.
LEMMA TailWay ==
    ASSUME NEW q, NEW s, NEW live, Typed(q), IsSequence(s), s # <<>>
    PROVE  LET p == Way(q, s, live)
           IN  /\ IsSequence(p) /\ p # <<>> /\ Head(p) = Head(s)
               /\ Way(q, Tail(s), live) = Tail(p)
<1> DEFINE p == Way(q, s, live)
           s2 == Tail(s)
           t == Unsent(q)
<1>1. IsSequence(s2) /\ IsSequence(p) /\ IsSequence(t)
  BY WayIs, TailHolds
<1>2. (p = s /\ Way(q, s2, live) = s2) \/ (p = s \o t /\ Way(q, s2, live) = s2 \o t)
  BY DEF Way
<1> HIDE DEF t
<1>3. s \o t # <<>> /\ Head(s \o t) = Head(s) /\ Tail(s \o t) = Tail(s) \o t
  BY <1>1, JoinTail
<1> QED
  BY <1>1, <1>2, <1>3

\* The device takes a command.
LEMMA DeviceTalks ==
    ASSUME NEW q, NEW s, NEW r, NEW u, NEW live, Speaks(q, s, r, u, live), Handlers(q),
           IsSequence(s), s # <<>>, IsSequence(r), NEW u2, Makes(Head(s), u, u2),
           NEW d, Other(d) \/ Replies(d, Head(s), u, u2), Answer(d)
    PROVE  Speaks(q, Tail(s), r \o <<d>>, u2, live)
<1> DEFINE p == Way(q, s, live)
           s2 == Tail(s)
           r2 == r \o <<d>>
<1>1. Talks(q, s, r, u, live) /\ Typed(q)
  BY DEF Speaks
<1>2. \A h : Holds(q.waiting, h) => \E e : h = Handle(e)
  BY DEF Handlers
<1>3. /\ IsSequence(r2) /\ \A e : Holds(r2, e) <=> Holds(r, e) \/ e = d
  <2>1. r2 = Append(r, d)
    BY DEF IsSequence
  <2> HIDE DEF r2
  <2>2. IsSequence(Append(r, d)) /\ \A e : Holds(Append(r, d), e) <=> Holds(r, e) \/ e = d
    BY AppendHolds
  <2> QED
    BY <2>1, <2>2
<1>4. /\ IsSequence(s2) /\ IsSequence(p) /\ p # <<>> /\ Head(p) = Head(s)
      /\ Way(q, s2, live) = Tail(p)
  BY <1>1, TailWay, TailHolds
<1> HIDE DEF r2, p, s2
<1>5. Chained(p, u)
  BY <1>1 DEF Talks, p
<1>6. Chained(Tail(p), u2)
  BY <1>4, <1>5, TakenChained DEF Makes
<1>7. IsActive(q) => DialogOf(q, Tail(p), r2, u2, live)
  <2>1. SUFFICES ASSUME DialogOf(q, p, r, u, live) PROVE DialogOf(q, Tail(p), r2, u2, live)
    BY <1>1 DEF Talks, p
  <2>2. Makes(Head(p), u, u2) /\ (Other(d) \/ Replies(d, Head(p), u, u2))
    BY <1>4
  <2> QED
    BY ONLY <2>1, <2>2, <1>2, <1>4, <1>5, IsSequence(r), TakenDialog DEF DialogOf, r2
<1>8. \A e : Heard(q.waiting, r2, e) => Answer(e)
  BY <1>1, <1>3 DEF Heard, Talks
<1>9. Talks(q, s2, r2, u2, live)
  BY <1>1, <1>4, <1>6, <1>7, <1>8 DEF Talks
<1>10. Speaks(q, s2, r2, u2, live)
  BY <1>1, <1>9 DEF Speaks
<1> QED
  BY <1>10 DEF r2, s2

\* The device has no more of a transfer than before.
NoMore(u, u2) ==
    \/ Drops(u2)
    \/ /\ u2.of = u.of /\ u2.id = u.id /\ u2.got = u.got
       /\ u2.described <=> u.described

\* It says something of its own accord: of the transfer it has, or of nothing.
Says(d, u, u2) ==
    \/ Other(d)
    \/ /\ d.type \in {"continue", "error"} /\ At(u, d.id)
       /\ d.type = "error" => ~At(u2, d.id)

\* What is on its way stays in order.
LEMMA ToldChained ==
    ASSUME NEW p, NEW u, NEW u2, Chained(p, u), NoMore(u, u2)
    PROVE  Chained(p, u2)
<1>1. \A id : At(u2, id) => /\ At(u, id) /\ u2.of = u.of /\ u2.got = u.got
                            /\ u2.described <=> u.described
  BY DEF NoMore, Drops, At
<1>2. \A n, id, c : Reaches(p, n, u, id, c) => Reaches(p, n, u2, id, c)
  BY <1>1 DEF Reaches
<1>3. ASSUME NEW i \in DOMAIN p
      PROVE
        /\ p[i].type = "data" => /\ p[i].chunk \in Nat \ {0}
                                 /\ Reaches(p, i - 1, u2, p[i].id, p[i].chunk - 1)
        /\ p[i].type = "description" =>
              /\ At(u2, p[i].id) => u2.got = 0
              /\ \A j \in DOMAIN p : j < i /\ p[j].type = "data" => p[j].id # p[i].id
        /\ p[i].type \in Parts => (At(u2, p[i].id) => Kind[u2.of] # "download")
        /\ p[i].type = "dataAck" => (At(u2, p[i].id) => Kind[u2.of] = "download")
        /\ p[i].type = "request" =>
              /\ ~At(u2, p[i].id) /\ p[i].of \in Transfers
              /\ \A j \in DOMAIN p : j > i => ~About(p[j], p[i].id)
  BY <1>1, <1>2 DEF Chained
<1> QED
  BY <1>3 DEF Chained

\* So does the dialog.
LEMMA ToldDialog ==
    ASSUME NEW id, NEW t, NEW moved, NEW state, NEW w, NEW p, NEW r, NEW u, NEW live,
           Dialog(id, t, moved, state, w, p, r, u, live),
           IsSequence(r), \A h : Holds(w, h) => \E d : h = Handle(d),
           Chained(p, u), NEW u2, NoMore(u, u2), NEW d, Says(d, u, u2)
    PROVE  Dialog(id, t, moved, state, w, p, r \o <<d>>, u2, live)
<1>1. At(u2, id) => /\ At(u, id) /\ u2.of = u.of /\ u2.got = u.got
                    /\ u2.described <=> u.described
  BY DEF NoMore, Drops, At
<1>2. About(d, id) => d.id = id /\ d.type \in {"continue", "error"} /\ At(u, id)
                      /\ (d.type = "error" => ~At(u2, id))
  BY DEF Says, Other, About
<1>3. At(u, id) => ~Requested(p, id)
  BY DEF Chained, Requested
<1>4. \A i \in DOMAIN p : \E j \in DOMAIN p : p[i] = p[j]
  OBVIOUS
<1>5. At(u2, id) => (At(u, id) /\ u2.of = u.of) \/ (u2.of = t /\ Requested(p, id))
  BY <1>1
<1>6. About(d, id) \/ At(u2, id) => ~Requested(p, id)
  BY <1>1, <1>2, <1>3
<1>7. About(d, id) => At(u, id) \/ Requested(p, id)
  BY <1>2
<1>8. Ends(d, id) => ~At(u2, id)
  <2>1. Ends(d, id) => About(d, id) /\ d.type \in {"complete", "error"}
    BY DEF Ends, About, Answers
  <2> QED
    BY <1>2, <2>1
<1>9. Kind[t] # "download" /\ About(d, id) => d.type # "data"
  BY <1>2
<1>10. /\ Kind[t] # "download"
       /\ \A i \in DOMAIN p : p[i].type \in Parts => p[i].id # id
       /\ At(u, id) => u.got = 0
       => /\ At(u2, id) => u2.got = 0
          /\ About(d, id) => d.type # "complete"
  BY <1>1, <1>2
<1>11. Reaches(p, Len(p), u, id, moved) => Reaches(p, Len(p), u2, id, moved)
  BY <1>1 DEF Reaches
<1> QED
  BY ONLY <1>4, <1>5, <1>6, <1>7, <1>8, <1>9, <1>10, <1>11, IsSequence(r),
     \A h : Holds(w, h) => \E e : h = Handle(e),
     Dialog(id, t, moved, state, w, p, r, u, live), DeviceDialog

\* The device speaks of its own accord.
LEMMA ToldTalks ==
    ASSUME NEW q, NEW s, NEW r, NEW u, NEW live, Speaks(q, s, r, u, live), Handlers(q),
           IsSequence(r), NEW u2, NoMore(u, u2), NEW d, Says(d, u, u2), Answer(d)
    PROVE  Speaks(q, s, r \o <<d>>, u2, live)
<1> DEFINE p == Way(q, s, live)
           r2 == r \o <<d>>
<1>1. Talks(q, s, r, u, live)
  BY DEF Speaks
<1>2. \A h : Holds(q.waiting, h) => \E e : h = Handle(e)
  BY DEF Handlers
<1>3. \A e : Holds(r2, e) <=> Holds(r, e) \/ e = d
  <2>1. r2 = Append(r, d)
    BY DEF IsSequence
  <2> HIDE DEF r2
  <2>2. \A e : Holds(Append(r, d), e) <=> Holds(r, e) \/ e = d
    BY AppendHolds
  <2> QED
    BY <2>1, <2>2
<1> HIDE DEF r2, p
<1>4. Chained(p, u)
  BY <1>1 DEF Talks, p
<1>5. Chained(p, u2)
  BY <1>4, ToldChained
<1>6. IsActive(q) => DialogOf(q, p, r2, u2, live)
  <2>1. SUFFICES ASSUME DialogOf(q, p, r, u, live) PROVE DialogOf(q, p, r2, u2, live)
    BY <1>1 DEF Talks, p
  <2> QED
    BY ONLY <2>1, <1>2, <1>4, IsSequence(r), NoMore(u, u2), Says(d, u, u2), ToldDialog
       DEF DialogOf, r2
<1>7. \A e : Heard(q.waiting, r2, e) => Answer(e)
  BY <1>1, <1>3 DEF Heard, Talks
<1>8. Talks(q, s, r2, u2, live)
  BY <1>1, <1>5, <1>6, <1>7 DEF Talks, p
<1> QED
  BY <1>8 DEF Speaks, r2

-----------------------------------------------------------------------------
(* The steps of the pool *)

InTalk ==
    /\ Speaks(queue, toDevice, toClient, upload, link = "up")
    /\ IsSequence(toDevice) /\ IsSequence(toClient)
    /\ link \in {"down", "opening", "up", "closing"}
    /\ link \in {"down", "opening"} => ~interval
    /\ link = "down" => /\ toDevice = <<>> /\ toClient = <<>>
                        /\ upload.of = NoTransfer /\ holder # "us"
    /\ DOMAIN upload = DOMAIN NoUpload
    /\ ~misplaced /\ ~undescribed

\* What the steps rest on.
LEMMA InSpoken ==
    ASSUME MaxTransferIndex >= 3, InOrder(queue, interval), FrameIdIsFree, NextIdsAreUnused, InTalk
    PROVE  Spoken(toDevice, toClient, upload, link = "up")
<1>1. IdIsFree(queue)
  BY StoreIdIsFree DEF IdIsFree, Waits, FrameIdIsFree, InOrder
<1> QED
  BY <1>1 DEF Spoken, InTalk, Speaks, NextIdsAreUnused

\* The lock commands of an event, as they are sent.
LEMMA LocksAreOthers ==
    ASSUME NEW c, IsSequence(c)
    PROVE  LET l == [i \in DOMAIN c |-> Lock(c[i])]
           IN  IsSequence(l) /\ (\A i \in DOMAIN l : Other(l[i])) /\ (c = <<>> => l = <<>>)
<1> DEFINE l == [i \in DOMAIN c |-> Lock(c[i])]
           S == {Lock(c[i]) : i \in DOMAIN c}
<1>1. Len(c) \in Nat /\ DOMAIN c = 1 .. Len(c)
  BY DEF IsSequence
<1>2. \A i \in 1 .. Len(c) : Lock(c[i]) \in S
  BY <1>1
<1> HIDE DEF S
<1>3. l = [i \in 1 .. Len(c) |-> Lock(c[i])]
  BY <1>1
<1>4. [i \in 1 .. Len(c) |-> Lock(c[i])] \in Seq(S)
  BY <1>1, <1>2
<1>5. IsSequence(l)
  BY <1>3, <1>4 DEF IsSequence
<1>6. \A x : Other(Lock(x))
  BY DEF Lock, Other, Parts, Answers
<1> QED
  BY <1>5, <1>6

\* What an event sends: lock commands at once, and what the interval took.
LEMMA SentTalks ==
    ASSUME NEW c, NEW r, NEW u, NEW live, IsSequence(toDevice), IsSequence(c), Send(c),
           c # <<>> => /\ queue'.lockCommands = <<>>
                       /\ live <=> link \notin {"down", "closing"},
           live => link \notin {"down", "closing"}, live \in BOOLEAN,
           Speaks(queue', IF live THEN toDevice \o c ELSE toDevice, r, u, live)
    PROVE  Speaks(queue', toDevice', r, u, live) /\ IsSequence(toDevice')
<1>1. CASE link \in {"down", "closing"}
  BY <1>1 DEF Send
<1>2. CASE link \notin {"down", "closing"}
  <2> DEFINE k == queue'.lockCommands
             l == [i \in DOMAIN k |-> Lock(k[i])]
  <2>1. toDevice' = (toDevice \o l) \o c
    BY <1>2 DEF Send
  <2>2. IsSequence(k)
    BY DEF Speaks
  <2> HIDE DEF k
  <2>3. IsSequence(l) /\ (\A i \in DOMAIN l : Other(l[i])) /\ (k = <<>> => l = <<>>)
    BY <2>2, LocksAreOthers
  <2> HIDE DEF l
  <2>4. CASE c = <<>>
    <3>1. toDevice \o c = toDevice /\ toDevice' = toDevice \o l
      BY <2>1, <2>3, <2>4, JoinThree
    <3>2. Speaks(queue', toDevice, r, u, live)
      BY <3>1
    <3>3. Speaks(queue', toDevice \o l, r, u, live) /\ IsSequence(toDevice \o l)
      BY <2>3, <3>2, SendTalks DEF k
    <3> QED
      BY <3>1, <3>3
  <2>5. CASE c # <<>>
    <3>1. l = <<>> /\ live
      BY <1>2, <2>3, <2>5 DEF k
    <3>2. toDevice' = toDevice \o c /\ IsSequence(toDevice \o c)
      BY <2>1, <2>3, <3>1, JoinThree
    <3> QED
      BY <3>1, <3>2
  <2> QED
    BY <2>4, <2>5
<1> QED
  BY <1>1, <1>2

\* A step of the client that is not about what it received.
LEMMA ActsTalk ==
    ASSUME InTalk, NEW c, Send(c), IsSequence(c),
           c # <<>> => /\ queue'.lockCommands = <<>> /\ link \in {"up", "closing"},
           Speaks(queue', IF link = "up" THEN toDevice \o c ELSE toDevice, toClient, upload,
                  link = "up"),
           UNCHANGED <<toClient, deviceVars, link, interval>>
    PROVE  InTalk'
<1> DEFINE live == link = "up"
<1>1. live \in BOOLEAN /\ (live => link \notin {"down", "closing"})
  OBVIOUS
<1>2. c # <<>> => queue'.lockCommands = <<>> /\ (live <=> link \notin {"down", "closing"})
  OBVIOUS
<1>3. Speaks(queue', IF live THEN toDevice \o c ELSE toDevice, toClient, upload, live)
  OBVIOUS
<1>4. IsSequence(toDevice)
  BY DEF InTalk
<1> HIDE DEF live
<1>5. Speaks(queue', toDevice', toClient, upload, live) /\ IsSequence(toDevice')
  BY ONLY <1>1, <1>2, <1>3, <1>4, IsSequence(c), Send(c), SentTalks
<1>6. link = "down" => toDevice' = toDevice
  BY DEF Send
<1>7. /\ toClient' = toClient /\ link' = link /\ interval' = interval /\ upload' = upload
      /\ holder' = holder /\ misplaced' = misplaced /\ undescribed' = undescribed
  BY DEF deviceVars
<1>8. Speaks(queue', toDevice', toClient', upload', link' = "up")
  BY <1>5, <1>7 DEF live
<1> QED
  BY <1>5, <1>6, <1>7, <1>8 DEF InTalk

\* A transfer is enqueued, a handler goes on, or sending failed.
LEMMA ClientTalk ==
    ASSUME InTalk, Spoken(toDevice, toClient, upload, link = "up"),
           UserEnqueues \/ HandlerResumes \/ SendingFails
    PROVE  InTalk'
<1>1. Send(<<>>) /\ UNCHANGED <<toClient, deviceVars, link, interval>>
  BY DEF UserEnqueues, HandlerResumes, SendingFails, ClientStep, Enqueue, Resume, SendFailed
<1> DEFINE live == link = "up"
<1>2. Spoken(toDevice, toClient, upload, live)
  OBVIOUS
<1> HIDE DEF live
<1>3. Speaks(queue', toDevice, toClient, upload, live)
  <2>1. CASE UserEnqueues
    BY <1>2, <2>1, EnqueueTalks DEF UserEnqueues, ClientStep
  <2>2. CASE HandlerResumes
    BY <1>2, <2>2, ResumeTalks DEF HandlerResumes, ClientStep
  <2>3. CASE SendingFails
    BY <1>2, <2>3, NoticeTalks DEF SendingFails, ClientStep
  <2> QED
    BY <2>1, <2>2, <2>3
<1> DEFINE c == <<>>
<1>4. Send(c) /\ IsSequence(c) /\ c = <<>> /\ IsSequence(toDevice)
  BY <1>1, ShortHolds DEF InTalk
<1> HIDE DEF c
<1>5. toDevice \o c = toDevice
  BY <1>4, JoinThree
<1>6. Speaks(queue', IF link = "up" THEN toDevice \o c ELSE toDevice, toClient, upload, link = "up")
  BY <1>3, <1>5 DEF live
<1> QED
  BY ONLY <1>1, <1>4, <1>6, InTalk, ActsTalk

\* The interval ticks.
LEMMA TicksTalk ==
    ASSUME InTalk, Spoken(toDevice, toClient, upload, link = "up"), IntervalTicks
    PROVE  InTalk'
<1> DEFINE live == link = "up"
<1>1. Tick /\ Send(Popped) /\ UNCHANGED <<toClient, deviceVars, link, interval>>
  BY DEF IntervalTicks, Tick
<1>2. Spoken(toDevice, toClient, upload, live)
  OBVIOUS
<1> HIDE DEF live
<1> DEFINE c == Popped
<1>3. /\ Speaks(queue', IF live THEN toDevice \o c ELSE toDevice, toClient, upload, live)
      /\ IsSequence(c) /\ (c # <<>> => queue'.lockCommands = <<>>)
  BY <1>1, <1>2, TickTalks
<1>4. link \in {"up", "closing"}
  BY <1>1 DEF InTalk, Tick
<1>5. Speaks(queue', IF link = "up" THEN toDevice \o c ELSE toDevice, toClient, upload, link = "up")
  BY <1>3 DEF live
<1>6. Send(c)
  BY <1>1
<1> HIDE DEF c
<1> QED
  BY ONLY <1>1, <1>3, <1>4, <1>5, <1>6, InTalk, ActsTalk

\* The client takes a command from its channel.
LEMMA ReceivesTalk ==
    ASSUME InTalk, Spoken(toDevice, toClient, upload, link = "up"), ClientReceives
    PROVE  InTalk'
<1> DEFINE live == link = "up"
           r2 == Tail(toClient)
           c == Head(toClient)
<1>1. /\ toClient # <<>> /\ toClient' = r2 /\ Send(<<>>) /\ UNCHANGED deviceVars
      /\ \/ c.type = "lockObtained" /\ LockObtained /\ UNCHANGED link
         \/ c.type = "lockState" /\ UpdateLock(c.locked) /\ UNCHANGED link
         \/ /\ c.type = "initComplete" /\ StartCommandSending
            /\ link' = IF link = "opening" THEN "up" ELSE link
         \/ c.type \in Answers /\ HandleReceived(c) /\ UNCHANGED link
  BY DEF ClientReceives, Answers
<1>2. Spoken(toDevice, toClient, upload, live) /\ IsSequence(toClient) /\ IsSequence(toDevice)
      /\ link \in {"opening", "up", "closing"} /\ (link = "opening" => ~interval)
  BY <1>1 DEF InTalk
<1>3. live \in BOOLEAN /\ (live <=> link = "up")
  OBVIOUS
<1> HIDE DEF live, r2, c
<1>4. \A q : Speaks(q, toDevice, toClient, upload, live) => Speaks(q, toDevice, r2, upload, live)
  BY <1>1, <1>2, UnheardTalks DEF Speaks, r2
<1>5. /\ Speaks(queue', toDevice, r2, upload, live)
      /\ \/ link' = link /\ interval' = interval
         \/ interval' /\ link' = "up" /\ link \in {"opening", "up"}
            /\ (link = "opening" => ~IsActive(queue'))
         \/ interval' /\ link' = link /\ link = "closing"
  <2>1. CASE c.type = "lockObtained" /\ LockObtained /\ UNCHANGED link
    <3>1. Speaks(queue', toDevice, toClient, upload, live)
      BY <1>2, <2>1, NoticeTalks
    <3> QED
      BY <1>4, <2>1, <3>1 DEF LockObtained
  <2>2. CASE c.type = "lockState" /\ UpdateLock(c.locked) /\ UNCHANGED link
    <3>1. Speaks(queue', toDevice, toClient, upload, live)
      BY <1>2, <2>2, NoticeTalks
    <3> QED
      BY <1>4, <2>2, <3>1 DEF UpdateLock
  <2>3. CASE /\ c.type = "initComplete" /\ StartCommandSending
             /\ link' = IF link = "opening" THEN "up" ELSE link
    <3>1. /\ Speaks(queue', toDevice, toClient, upload, live)
          /\ ~interval => ~IsActive(queue')
      BY <1>2, <2>3, SendingTalks
    <3>2. interval'
      BY <2>3 DEF StartCommandSending
    <3> QED
      BY <1>2, <1>4, <2>3, <3>1, <3>2
  <2>4. CASE c.type \in Answers /\ HandleReceived(c) /\ UNCHANGED link
    <3>1. Counted(c)
      <4>1. Talks(queue, toDevice, toClient, upload, live)
        BY <1>2 DEF Spoken
      <4>2. Heard(queue.waiting, toClient, c)
        BY <1>1, <1>2, TailHolds DEF Heard, c
      <4> QED
        BY <4>1, <4>2 DEF Talks, Answer, Counted
    <3>2. Speaks(queue', toDevice, r2, upload, live)
      BY <1>1, <1>2, <2>4, <3>1, HearTalks DEF c, r2
    <3> QED
      BY <2>4, <3>2 DEF HandleReceived
  <2> QED
    BY <1>1, <2>1, <2>2, <2>3, <2>4
<1> DEFINE on == link' = "up"
<1>6. Speaks(queue', toDevice, r2, upload, on) /\ (link' \in {"opening", "up"} \/ ~on)
  <2>1. CASE link' = link
    BY <1>3, <1>5, <2>1
  <2>2. CASE link' # link
    <3>1. ~IsActive(queue')
      BY <1>5, <2>2
    <3> QED
      BY <1>2, <1>5, <3>1, IdleTalks
  <2> QED
    BY <2>1, <2>2
<1> DEFINE e == <<>>
<1>7. Send(e) /\ IsSequence(e) /\ e = <<>>
  BY <1>1, ShortHolds
<1>8. on \in BOOLEAN /\ (on => link \notin {"down", "closing"})
  BY <1>2, <1>5
<1> HIDE DEF e, on
<1>9. toDevice \o e = toDevice
  BY <1>2, <1>7, JoinThree
<1>10. Speaks(queue', IF on THEN toDevice \o e ELSE toDevice, r2, upload, on)
  BY <1>6, <1>9
<1>11. Speaks(queue', toDevice', r2, upload, on) /\ IsSequence(toDevice')
  BY ONLY <1>2, <1>7, <1>8, <1>10, SentTalks
<1>12. IsSequence(r2)
  BY <1>1, <1>2, TailHolds DEF r2
<1>13. /\ link' \in {"opening", "up", "closing"} /\ (link' = "opening" => ~interval')
  BY <1>2, <1>5
<1>14. /\ upload' = upload /\ misplaced' = misplaced /\ undescribed' = undescribed
  BY <1>1 DEF deviceVars
<1>15. Speaks(queue', toDevice', toClient', upload', link' = "up")
  BY <1>1, <1>11, <1>14 DEF on
<1> QED
  BY <1>1, <1>11, <1>12, <1>13, <1>14, <1>15 DEF InTalk

\* A connection is made, closes or is lost.
LEMMA LinksTalk ==
    ASSUME InTalk, Spoken(toDevice, toClient, upload, link = "up"), Handlers(queue),
           LinkOpens \/ LinkCloses \/ LinkLost
    PROVE  InTalk'
<1> DEFINE live == link = "up"
<1>1. /\ Speaks(queue, toDevice, toClient, upload, live) /\ IsSequence(toDevice)
      /\ IsSequence(toClient) /\ Spoken(toDevice, toClient, upload, live)
  BY DEF InTalk
<1>2. live <=> link = "up"
  OBVIOUS
<1> HIDE DEF live
<1>3. CASE LinkOpens
  <2>1. /\ link = "down" /\ link' = "opening" /\ toClient = <<>>
        /\ UNCHANGED <<queue, interval, toDevice, upload, holder, misplaced, undescribed>>
        /\ ~interval /\ live \in BOOLEAN /\ ~live
    BY <1>2, <1>3 DEF LinkOpens, InTalk, queueVars, deviceVars
  <2> DEFINE a == LockIs(holder # "none")
             b == InitComplete
  <2>2. Other(a) /\ Other(b)
    BY DEF LockIs, InitComplete, Other, Parts, Answers
  <2>3. toClient' = <<a>> \o <<b>> \/ toClient' = <<>> \o <<b>>
    BY <1>3 DEF LinkOpens
  <2> HIDE DEF a, b
  <2>4. Speaks(queue, toDevice, <<>>, upload, live) /\ IsSequence(<<>>)
    BY <1>1, <2>1
  <2>5. /\ Speaks(queue, toDevice, <<>> \o <<a>>, upload, live) /\ IsSequence(<<>> \o <<a>>)
        /\ Speaks(queue, toDevice, <<>> \o <<b>>, upload, live) /\ IsSequence(<<>> \o <<b>>)
    BY <2>2, <2>4, NewsTalks
  <2>6. <<>> \o <<a>> = <<a>>
    BY ShortHolds, JoinThree
  <2>7. Speaks(queue, toDevice, <<a>> \o <<b>>, upload, live) /\ IsSequence(<<a>> \o <<b>>)
    BY <2>2, <2>5, <2>6, NewsTalks
  <2>8. Speaks(queue, toDevice, toClient', upload, live) /\ IsSequence(toClient')
    BY <2>3, <2>5, <2>7
  <2>9. live <=> link' = "up"
    BY <2>1
  <2>10. Speaks(queue', toDevice', toClient', upload', link' = "up")
    <3>1. live = (link' = "up")
      BY <2>1, <2>9
    <3> QED
      BY <2>1, <2>8, <3>1
  <2> QED
    BY <1>1, <2>1, <2>8, <2>10 DEF InTalk
<1>4. CASE LinkCloses
  <2>1. /\ link' = "closing"
        /\ UNCHANGED <<queue, interval, toDevice, toClient, upload, misplaced, undescribed>>
    BY <1>4 DEF LinkCloses, queueVars, deviceVars, channels
  <2>2. Speaks(queue, toDevice, toClient, upload, FALSE)
    BY <1>1, DeafTalks
  <2>3. Speaks(queue', toDevice', toClient', upload', link' = "up")
    BY <2>1, <2>2
  <2> QED
    BY <1>1, <2>1, <2>3 DEF InTalk
<1>5. CASE LinkLost
  <2>1. /\ link' = "down" /\ StopCommandSending /\ toDevice' = <<>> /\ toClient' = <<>>
        /\ holder' # "us" /\ upload' = NoUpload /\ misplaced' = misplaced
        /\ undescribed' = undescribed
    BY <1>5 DEF LinkLost
  <2>2. Speaks(queue', toDevice, toClient, upload, live) /\ ~IsActive(queue')
    BY <1>1, <2>1, SendingTalks
  <2>3. \A u2, on : Speaks(queue', <<>>, <<>>, u2, on)
    BY <1>1, <2>2, CutTalks
  <2>4. ~interval' /\ upload'.of = NoTransfer
    BY <2>1 DEF StopCommandSending, NoUpload
  <2> QED
    BY <2>1, <2>3, <2>4, ShortHolds DEF InTalk
<1> QED
  BY <1>3, <1>4, <1>5

\* Two commands are one after the other.
LEMMA TwoJoined ==
    ASSUME NEW d, NEW e
    PROVE  <<d>> \o <<e>> = <<d, e>>
<1> DEFINE S == {d, e}
           t == <<d>> \o <<e>>
<1>1. d \in S /\ e \in S
  OBVIOUS
<1> HIDE DEF S
<1>2. <<d>> \in Seq(S) /\ <<e>> \in Seq(S) /\ <<d, e>> \in Seq(S)
  BY <1>1
<1>3. t \in Seq(S) /\ Len(t) = 2 /\ t[1] = d /\ t[2] = e
  BY <1>2
<1> HIDE DEF t
<1>4. /\ Len(<<d, e>>) = 2 /\ <<d, e>>[1] = d /\ <<d, e>>[2] = e
      /\ \A i \in 1 .. 2 : i = 1 \/ i = 2
  OBVIOUS
<1>5. \A i \in 1 .. Len(t) : t[i] = <<d, e>>[i]
  BY <1>3, <1>4
<1> QED
  BY <1>2, <1>3, <1>4, <1>5, SeqEqual DEF t

\* A step of the device.
LEMMA DeviceTalk ==
    ASSUME InTalk, link # "down", UNCHANGED <<queue, interval, link>>,
           Speaks(queue, toDevice', toClient', upload', link = "up"),
           IsSequence(toDevice'), IsSequence(toClient'), DOMAIN upload' = DOMAIN NoUpload,
           ~misplaced', ~undescribed'
    PROVE  InTalk'
<1>1. Speaks(queue', toDevice', toClient', upload', link' = "up")
  OBVIOUS
<1> QED
  BY <1>1 DEF InTalk

\* The device speaks of its own accord.
LEMMA TellsTalk ==
    ASSUME InTalk, Handlers(queue), "Retry" \notin Errors,
           DeviceContinues \/ DeviceFails \/ OtherLocks \/ OtherUnlocks \/ DeviceRevokes
    PROVE  InTalk'
<1> DEFINE live == link = "up"
<1>1. /\ Speaks(queue, toDevice, toClient, upload, live) /\ IsSequence(toDevice)
      /\ IsSequence(toClient) /\ ~misplaced /\ ~undescribed /\ DOMAIN upload = DOMAIN NoUpload
  BY DEF InTalk
<1>2. /\ link # "down" /\ UNCHANGED <<queue, interval, link, toDevice, misplaced, undescribed>>
  BY DEF DeviceContinues, DeviceFails, OtherLocks, OtherUnlocks, DeviceRevokes, Grant, InTalk,
     queueVars
<1> HIDE DEF live
<1>3. Drops(NoUpload)
  BY DEF Drops, NoUpload
<1>4. \E d : /\ toClient' = toClient \o <<d>> \/ (Other(d) /\ toClient' = toClient \o <<d, LockIs(TRUE)>>)
             /\ Says(d, upload, upload') /\ Answer(d) /\ NoMore(upload, upload')
             /\ DOMAIN upload' = DOMAIN NoUpload
  <2>0. \A x : Other(LockIs(x)) /\ Answer(LockIs(x)) /\ Other(Obtained) /\ Answer(Obtained)
    BY DEF LockIs, Obtained, Other, Answer, Parts, Answers
  <2>1. CASE DeviceContinues
    <3> DEFINE d == AskForMore(upload.id, Credit)
    <3>1. toClient' = toClient \o <<d>> /\ upload.of # NoTransfer
          /\ upload' = [upload EXCEPT !.credit = Credit]
      BY <2>1 DEF DeviceContinues, Reply
    <3>2. d.type = "continue" /\ d.id = upload.id /\ d.count = Credit /\ Credit \in Nat
      BY PoolAssumption DEF AskForMore
    <3> HIDE DEF d
    <3>3. Says(d, upload, upload') /\ Answer(d)
      BY <3>1, <3>2 DEF Says, Answer, At
    <3>4. NoMore(upload, upload') /\ DOMAIN upload' = DOMAIN NoUpload
      BY <1>1, <3>1 DEF NoMore, NoUpload
    <3> QED
      BY <3>1, <3>3, <3>4
  <2>2. CASE DeviceFails
    <3>1. PICK code \in Errors : toClient' = toClient \o <<Failure(upload.id, code)>>
      BY <2>2 DEF DeviceFails, Reply
    <3> DEFINE d == Failure(upload.id, code)
    <3>2. d.type = "error" /\ d.id = upload.id /\ d.code = code /\ code # "Retry"
      BY DEF Failure
    <3>3. toClient' = toClient \o <<d>> /\ upload.of # NoTransfer /\ upload' = NoUpload
      BY <2>2, <3>1 DEF DeviceFails
    <3> HIDE DEF d
    <3>4. Says(d, upload, upload') /\ Answer(d)
      BY <1>3, <3>2, <3>3 DEF Says, Answer, At, Drops
    <3>5. NoMore(upload, upload') /\ DOMAIN upload' = DOMAIN NoUpload
      BY <1>3, <3>3 DEF NoMore
    <3> QED
      BY <3>3, <3>4, <3>5
  <2>3. CASE OtherLocks
    <3>1. toClient' = toClient \o <<LockIs(TRUE)>> /\ upload' = upload
      BY <2>3 DEF OtherLocks, Reply
    <3> QED
      BY <1>1, <2>0, <3>1 DEF Says, NoMore
  <2>4. CASE OtherUnlocks
    <3>1. /\ upload' = upload
          /\ \/ toClient' = toClient \o <<Obtained, LockIs(TRUE)>>
             \/ toClient' = toClient \o <<LockIs(FALSE)>>
      BY <2>4 DEF OtherUnlocks, Reply, Grant
    <3> QED
      BY <1>1, <2>0, <3>1 DEF Says, NoMore
  <2>5. CASE DeviceRevokes
    <3>1. toClient' = toClient \o <<LockIs(FALSE)>> /\ upload' = NoUpload
      BY <2>5 DEF DeviceRevokes, Reply
    <3> QED
      BY <1>3, <2>0, <3>1 DEF Says, NoMore
  <2> QED
    BY <2>1, <2>2, <2>3, <2>4, <2>5
<1>5. PICK d : /\ \/ toClient' = toClient \o <<d>>
                  \/ Other(d) /\ toClient' = toClient \o <<d, LockIs(TRUE)>>
               /\ Says(d, upload, upload') /\ Answer(d) /\ NoMore(upload, upload')
               /\ DOMAIN upload' = DOMAIN NoUpload
  BY <1>4
<1> DEFINE u2 == upload'
<1> HIDE DEF u2
<1>6. Speaks(queue, toDevice, toClient \o <<d>>, u2, live)
  BY <1>1, <1>5, ToldTalks DEF u2
<1>7. IsSequence(toClient \o <<d>>)
  BY <1>1, OneMoreAt
<1> DEFINE e == LockIs(TRUE)
<1>8. Other(e)
  BY DEF LockIs, Other, Parts, Answers
<1> HIDE DEF e
<1>9. /\ Speaks(queue, toDevice, (toClient \o <<d>>) \o <<e>>, u2, live)
      /\ IsSequence((toClient \o <<d>>) \o <<e>>)
  BY <1>6, <1>7, <1>8, NewsTalks
<1>10. (toClient \o <<d>>) \o <<e>> = toClient \o <<d, e>>
  <2>1. <<d>> \o <<e>> = <<d, e>>
    BY TwoJoined
  <2>2. IsSequence(<<d>>) /\ IsSequence(<<e>>)
    BY GivenSequences
  <2>3. (toClient \o <<d>>) \o <<e>> = toClient \o (<<d>> \o <<e>>)
    BY <1>1, <2>2, JoinThree
  <2> QED
    BY <2>1, <2>3
<1>11. Speaks(queue, toDevice, toClient', u2, live) /\ IsSequence(toClient')
  BY <1>5, <1>6, <1>7, <1>9, <1>10 DEF e
<1>12. /\ Speaks(queue, toDevice', toClient', upload', link = "up") /\ IsSequence(toClient')
       /\ IsSequence(toDevice') /\ ~misplaced' /\ ~undescribed' /\ DOMAIN upload' = DOMAIN NoUpload
  BY <1>1, <1>2, <1>5, <1>11 DEF u2, live
<1> QED
  BY ONLY <1>2, <1>12, InTalk, DeviceTalk

\* What the device will do with the command it takes, if all went well so far.
LEMMA HeadIs ==
    ASSUME NEW q, NEW s, NEW r, NEW u, NEW live, Talks(q, s, r, u, live), Typed(q),
           IsSequence(s), s # <<>>
    PROVE  /\ Head(s).type = "data" /\ At(u, Head(s).id) =>
                 u.described /\ Head(s).chunk = u.got + 1
           /\ Head(s).type = "request" => ~At(u, Head(s).id)
<1> DEFINE p == Way(q, s, live)
           t == Unsent(q)
<1>1. IsSequence(p) /\ IsSequence(t)
  BY WayIs
<1>2. p = s \/ p = s \o t
  BY DEF Way
<1>3. Chained(p, u)
  BY DEF Talks
<1> HIDE DEF p, t
<1>4. s \o t # <<>> /\ Head(s \o t) = Head(s)
  BY <1>1, JoinTail
<1>5. p # <<>> /\ Head(p) = Head(s)
  BY <1>2, <1>4
<1>6. 1 \in DOMAIN p /\ p[1] = Head(s) /\ 1 - 1 = 0
  BY <1>1, <1>5, RestAt
<1>7. Head(s).type = "data" => Head(s).chunk \in Nat \ {0}
                               /\ Reaches(p, 1 - 1, u, Head(s).id, Head(s).chunk - 1)
  BY <1>3, <1>6 DEF Chained
<1>8. Head(s).type = "request" => ~At(u, Head(s).id)
  BY <1>3, <1>6 DEF Chained
<1> QED
  BY <1>6, <1>7, <1>8 DEF Reaches

\* The device takes a command and answers nothing, one thing or, giving the lock, two.
LEMMA TakesTalk ==
    ASSUME InTalk, Handlers(queue), DeviceReceives
    PROVE  InTalk'
<1> DEFINE live == link = "up"
           c == Head(toDevice)
<1>1. /\ Speaks(queue, toDevice, toClient, upload, live) /\ IsSequence(toDevice)
      /\ IsSequence(toClient) /\ ~misplaced /\ ~undescribed /\ DOMAIN upload = DOMAIN NoUpload
  BY DEF InTalk
<1>2. /\ link # "down" /\ toDevice # <<>> /\ toDevice' = Tail(toDevice)
      /\ UNCHANGED <<queue, interval, link>>
  BY DEF DeviceReceives, InTalk, queueVars
<1> HIDE DEF live
<1>3. /\ c.type = "data" /\ At(upload, c.id) => upload.described /\ c.chunk = upload.got + 1
      /\ c.type = "request" => ~At(upload, c.id)
  <2>1. Talks(queue, toDevice, toClient, upload, live) /\ Typed(queue)
    BY <1>1 DEF Speaks
  <2> QED
    BY <1>1, <1>2, <2>1, HeadIs
<1>4. DevLock(c) \/ DevUnlock(c) \/ DevRequest(c) \/ DevDescription(c) \/ DevData(c)
      \/ DevDataAck(c) \/ DevClip(c)
  BY DEF DeviceReceives
<1> HIDE DEF c
<1>5. Drops(NoUpload) /\ DOMAIN NoUpload = {"id", "of", "frame", "got", "credit", "described"}
      /\ NoUpload.got = 0
  BY DEF Drops, NoUpload
<1> DEFINE Answering(d) ==
             /\ \/ toClient' = toClient \/ toClient' = toClient \o <<d>>
                \/ Other(d) /\ toClient' = toClient \o <<d, LockIs(TRUE)>>
             /\ Other(d) \/ Replies(d, c, upload, upload')
             /\ Answer(d)
           Made == /\ Makes(c, upload, upload') /\ DOMAIN upload' = DOMAIN NoUpload
                   /\ ~misplaced' /\ ~undescribed'
<1>6. /\ \A x : Other(LockIs(x)) /\ Answer(LockIs(x))
      /\ Other(Obtained) /\ Answer(Obtained) /\ Other(InitComplete) /\ Answer(InitComplete)
  BY DEF LockIs, Obtained, InitComplete, Other, Answer, Parts, Answers
<1>7. ASSUME UNCHANGED <<upload, misplaced, undescribed>>,
             c.type \notin {"description", "data", "dataAck"} \/ ~At(upload, c.id)
      PROVE  Made
  <2>1. CASE upload.of = NoTransfer
    BY <1>1, <1>7, <2>1 DEF Makes, Drops
  <2>2. CASE upload.of # NoTransfer
    <3>1. c.type \notin {"description", "data", "dataAck"} \/ c.id # upload.id
      BY <1>7, <2>2 DEF At
    <3>2. GoesOn(c, upload, upload)
      BY <3>1 DEF GoesOn
    <3> QED
      BY <1>1, <1>7, <3>2 DEF Makes
  <2> QED
    BY <2>1, <2>2
<1>8. ASSUME DevLock(c) \/ DevUnlock(c) \/ DevClip(c) PROVE (\E d : Answering(d)) /\ Made
  <2>1. \E d : Answering(d)
    <3>1. \/ toClient' = toClient
          \/ \E x : toClient' = toClient \o <<LockIs(x)>>
          \/ toClient' = toClient \o <<Obtained, LockIs(TRUE)>>
      BY <1>8 DEF DevLock, DevUnlock, DevClip, Grant, Reply
    <3>2. CASE toClient' = toClient
      BY <1>6, <3>2
    <3>3. ASSUME NEW x, toClient' = toClient \o <<LockIs(x)>> PROVE \E d : Answering(d)
      BY <1>6, <3>3
    <3>4. CASE toClient' = toClient \o <<Obtained, LockIs(TRUE)>>
      BY <1>6, <3>4
    <3> QED
      BY <3>1, <3>2, <3>3, <3>4
  <2>2. Made
    <3>1. /\ c.type \notin {"description", "data", "dataAck"}
          /\ UNCHANGED <<misplaced, undescribed>>
          /\ upload' = upload \/ upload' = NoUpload
      BY <1>8 DEF DevLock, DevUnlock, DevClip, deviceVars
    <3>2. CASE upload' = NoUpload
      BY <1>1, <1>5, <3>1, <3>2 DEF Makes
    <3> QED
      BY <1>7, <3>1, <3>2
  <2> QED
    BY <2>1, <2>2
<1>9. ASSUME DevRequest(c) PROVE (\E d : Answering(d)) /\ Made
  <2>1. c.type = "request" /\ ~At(upload, c.id) /\ UNCHANGED <<misplaced, undescribed>>
    BY <1>3, <1>9 DEF DevRequest
  <2>2. CASE Locking /\ holder # "us"
    <3> DEFINE d == Failure(c.id, "NotLocked")
    <3>1. toClient' = toClient \o <<d>> /\ upload' = upload
      BY <1>9, <2>2 DEF DevRequest, Reply
    <3>2. d.type = "error" /\ d.id = c.id /\ d.code # "Retry"
      BY DEF Failure
    <3> HIDE DEF d
    <3>3. Replies(d, c, upload, upload') /\ Answer(d)
      BY <2>1, <3>1, <3>2 DEF Replies, Answers, Answer, Ends
    <3>4. Made
      BY <1>7, <2>1, <3>1
    <3> QED
      BY <3>1, <3>3, <3>4
  <2>3. CASE ~(Locking /\ holder # "us")
    <3>1. upload' = [NoUpload EXCEPT !.id = c.id, !.of = c.of, !.frame = c.frame]
      BY <1>9, <2>3 DEF DevRequest
    <3>2. /\ upload'.id = c.id /\ upload'.of = c.of /\ upload'.got = 0
          /\ DOMAIN upload' = DOMAIN NoUpload
      BY <1>5, <3>1
    <3>3. Made
      BY <1>1, <2>1, <3>2 DEF Makes, Begins
    <3>4. CASE Kind[c.of] = "download"
      <4> DEFINE d == Data(c.id, 1)
      <4>1. toClient' = toClient \o <<d>>
        BY <1>9, <2>3, <3>4 DEF DevRequest, Reply
      <4>2. d.type = "data" /\ d.id = c.id
        BY DEF Data
      <4> HIDE DEF d
      <4>3. Replies(d, c, upload, upload') /\ Answer(d)
        BY <2>1, <3>4, <4>2 DEF Replies, Answers, Answer, Ends
      <4> QED
        BY <3>3, <4>1, <4>3
    <3>5. CASE Kind[c.of] # "download"
      <4>1. toClient' = toClient
        BY <1>9, <2>3, <3>5 DEF DevRequest
      <4> QED
        BY <1>6, <3>3, <4>1
    <3> QED
      BY <3>4, <3>5
  <2> QED
    BY <2>2, <2>3
<1>10. ASSUME DevDescription(c) PROVE (\E d : Answering(d)) /\ Made
  <2>1. /\ c.type = "description" /\ toClient' = toClient
        /\ UNCHANGED <<misplaced, undescribed>>
        /\ upload' = [upload EXCEPT !.described = @ \/ upload.id = c.id]
    BY <1>10 DEF DevDescription
  <2>2. /\ upload'.of = upload.of /\ upload'.id = upload.id /\ upload'.got = upload.got
        /\ DOMAIN upload' = DOMAIN NoUpload
        /\ upload'.described = (upload.described \/ upload.id = c.id)
    BY <1>1, <1>5, <2>1
  <2>3. /\ c.id = upload.id => upload'.described
        /\ c.id # upload.id => (upload'.described <=> upload.described)
    BY <2>2
  <2>4. GoesOn(c, upload, upload')
    BY <2>1, <2>2, <2>3 DEF GoesOn
  <2>5. Made
    BY <1>1, <2>1, <2>2, <2>4 DEF Makes
  <2> QED
    BY <1>6, <2>1, <2>5
<1>11. ASSUME DevData(c) PROVE (\E d : Answering(d)) /\ Made
  <2>1. c.type = "data"
    BY <1>11 DEF DevData
  <2>2. CASE At(upload, c.id)
    <3>1. upload.described /\ c.chunk = upload.got + 1 /\ upload.id = c.id
      BY <1>3, <2>1, <2>2 DEF At
    <3>2. ~misplaced' /\ ~undescribed'
      BY <1>1, <1>11, <2>2, <3>1 DEF DevData, At
    <3>3. CASE upload.got + 1 < Chunks[upload.of]
      <4>1. toClient' = toClient
            /\ upload' = [upload EXCEPT !.got = @ + 1, !.credit = @ - 1]
        BY <1>11, <2>2, <3>3 DEF DevData, At
      <4>2. /\ upload'.of = upload.of /\ upload'.id = upload.id /\ upload'.got = upload.got + 1
            /\ upload'.described = upload.described /\ DOMAIN upload' = DOMAIN NoUpload
        BY <1>1, <1>5, <4>1
      <4>3. GoesOn(c, upload, upload')
        BY <2>1, <3>1, <4>2 DEF GoesOn
      <4>4. Made
        BY <3>2, <4>2, <4>3 DEF Makes
      <4> QED
        BY <1>6, <4>1, <4>4
    <3>4. CASE ~(upload.got + 1 < Chunks[upload.of])
      <4> DEFINE d == AllReceived(c.id)
      <4>1. toClient' = toClient \o <<d>> /\ upload' = NoUpload
        BY <1>11, <2>2, <3>4 DEF DevData, At, Reply
      <4>2. d.type = "complete" /\ d.id = c.id
        BY DEF AllReceived
      <4> HIDE DEF d
      <4>3. Replies(d, c, upload, upload') /\ Answer(d)
        BY <1>5, <2>1, <2>2, <4>1, <4>2 DEF Replies, Answers, Answer, At, Drops
      <4>4. Made
        BY <1>5, <3>2, <4>1 DEF Makes
      <4> QED
        BY <4>1, <4>3, <4>4
    <3> QED
      BY <3>3, <3>4
  <2>3. CASE ~At(upload, c.id)
    <3>1. toClient' = toClient /\ UNCHANGED <<upload, misplaced, undescribed>>
      BY <1>11, <2>3 DEF DevData, At
    <3>2. Made
      BY <1>7, <2>3, <3>1
    <3> QED
      BY <1>6, <3>1, <3>2
  <2> QED
    BY <2>2, <2>3
<1>12. ASSUME DevDataAck(c) PROVE (\E d : Answering(d)) /\ Made
  <2>1. c.type = "dataAck" /\ UNCHANGED <<misplaced, undescribed>>
    BY <1>12 DEF DevDataAck
  <2>2. CASE At(upload, c.id)
    <3>1. CASE upload.got + 1 < Chunks[upload.of]
      <4> DEFINE d == Data(c.id, upload.got + 2)
      <4>1. toClient' = toClient \o <<d>> /\ upload' = [upload EXCEPT !.got = @ + 1]
        BY <1>12, <2>2, <3>1 DEF DevDataAck, At, Reply
      <4>2. d.type = "data" /\ d.id = c.id
        BY DEF Data
      <4> HIDE DEF d
      <4>3. /\ upload'.of = upload.of /\ upload'.id = upload.id /\ upload'.got = upload.got + 1
            /\ upload'.described = upload.described /\ DOMAIN upload' = DOMAIN NoUpload
        BY <1>1, <1>5, <4>1
      <4>4. GoesOn(c, upload, upload')
        BY <2>1, <2>2, <4>3 DEF GoesOn, At
      <4>5. Made
        BY <1>1, <2>1, <4>3, <4>4 DEF Makes
      <4>6. Replies(d, c, upload, upload') /\ Answer(d)
        BY <2>1, <2>2, <4>2 DEF Replies, Answers, Answer, Ends
      <4> QED
        BY <4>1, <4>5, <4>6
    <3>2. CASE ~(upload.got + 1 < Chunks[upload.of])
      <4> DEFINE d == AllReceived(c.id)
      <4>1. toClient' = toClient \o <<d>> /\ upload' = NoUpload
        BY <1>12, <2>2, <3>2 DEF DevDataAck, At, Reply
      <4>2. d.type = "complete" /\ d.id = c.id
        BY DEF AllReceived
      <4> HIDE DEF d
      <4>3. Replies(d, c, upload, upload') /\ Answer(d)
        BY <1>5, <2>1, <2>2, <4>1, <4>2 DEF Replies, Answers, Answer, At, Drops
      <4>4. Made
        BY <1>1, <1>5, <2>1, <4>1 DEF Makes
      <4> QED
        BY <4>1, <4>3, <4>4
    <3> QED
      BY <3>1, <3>2
  <2>3. CASE ~At(upload, c.id)
    <3>1. toClient' = toClient /\ UNCHANGED upload
      BY <1>12, <2>3 DEF DevDataAck, At
    <3>2. Made
      BY <1>7, <2>1, <2>3, <3>1
    <3> QED
      BY <1>6, <3>1, <3>2
  <2> QED
    BY <2>2, <2>3
<1>13. (\E d : Answering(d)) /\ Made
  BY <1>4, <1>8, <1>9, <1>10, <1>11, <1>12
<1>14. PICK d : Answering(d)
  BY <1>13
<1> DEFINE u2 == upload'
<1>15. Makes(c, upload, u2) /\ (Other(d) \/ Replies(d, c, upload, u2)) /\ Answer(d)
  BY <1>13, <1>14
<1> HIDE DEF u2
<1>16. Speaks(queue, Tail(toDevice), toClient \o <<d>>, u2, live)
  BY <1>1, <1>2, <1>15, DeviceTalks DEF c
<1>17. Speaks(queue, Tail(toDevice), toClient, u2, live)
  BY <1>1, <1>16, QuietTalks
<1>18. IsSequence(toClient \o <<d>>) /\ IsSequence(Tail(toDevice))
  BY <1>1, <1>2, OneMoreAt, TailHolds
<1> DEFINE e == LockIs(TRUE)
<1>19. Other(e)
  BY <1>6
<1> HIDE DEF e
<1>20. /\ Speaks(queue, Tail(toDevice), (toClient \o <<d>>) \o <<e>>, u2, live)
       /\ IsSequence((toClient \o <<d>>) \o <<e>>)
  BY <1>16, <1>18, <1>19, NewsTalks
<1>21. (toClient \o <<d>>) \o <<e>> = toClient \o <<d, e>>
  <2>1. IsSequence(<<d>>) /\ IsSequence(<<e>>)
    BY GivenSequences
  <2>2. (toClient \o <<d>>) \o <<e>> = toClient \o (<<d>> \o <<e>>)
    BY <1>1, <2>1, JoinThree
  <2> QED
    BY <2>2, TwoJoined
<1>22. Speaks(queue, toDevice', toClient', u2, live) /\ IsSequence(toClient') /\ IsSequence(toDevice')
  BY <1>1, <1>2, <1>14, <1>16, <1>17, <1>18, <1>20, <1>21 DEF e
<1>23. /\ Speaks(queue, toDevice', toClient', upload', link = "up") /\ IsSequence(toClient')
       /\ IsSequence(toDevice') /\ ~misplaced' /\ ~undescribed' /\ DOMAIN upload' = DOMAIN NoUpload
  BY <1>13, <1>22 DEF u2, live
<1> QED
  BY ONLY <1>2, <1>23, InTalk, DeviceTalk

\* Every step of the pool keeps up the dialog while the next ids are unused.
LEMMA PoolStepTalks ==
    ASSUME MaxTransferIndex >= 3, "Retry" \notin Errors, InOrder(queue, interval), FrameIdIsFree,
           NextIdsAreUnused, InTalk, [PoolNext]_poolVars
    PROVE  InTalk'
<1>1. Spoken(toDevice, toClient, upload, link = "up")
  BY InSpoken
<1>2. Handlers(queue)
  BY DEF InOrder, Good, Begun
<1>3. CASE UserEnqueues \/ HandlerResumes \/ SendingFails
  BY <1>1, <1>3, ClientTalk
<1>4. CASE IntervalTicks
  BY <1>1, <1>4, TicksTalk
<1>5. CASE ClientReceives
  BY <1>1, <1>5, ReceivesTalk
<1>6. CASE LinkOpens \/ LinkCloses \/ LinkLost
  BY <1>1, <1>2, <1>6, LinksTalk
<1>7. CASE DeviceReceives
  BY <1>2, <1>7, TakesTalk
<1>8. CASE DeviceContinues \/ DeviceFails \/ OtherLocks \/ OtherUnlocks \/ DeviceRevokes
  BY <1>2, <1>8, TellsTalk
<1>9. CASE UNCHANGED poolVars
  BY <1>9 DEF poolVars, queueVars, channels, deviceVars, InTalk
<1> QED
  BY <1>3, <1>4, <1>5, <1>6, <1>7, <1>8, <1>9 DEF PoolNext

\* A new pool: nothing was said yet.
LEMMA NewPoolTalks ==
    ASSUME PoolInit
    PROVE  InTalk
<1>1. queue = NewQueue /\ interval = FALSE /\ link = "down" /\ toDevice = <<>> /\ toClient = <<>>
      /\ upload = NoUpload /\ holder = "none" /\ ~misplaced /\ ~undescribed
  BY DEF PoolInit, QueueInit
<1>2. /\ queue.tasks = <<>> /\ queue.active.of = NoTransfer /\ queue.active.queuedCommands = <<>>
      /\ queue.waiting = <<>> /\ queue.running.wait = "idle" /\ queue.lockCommands = <<>>
      /\ \A t \in Transfers : queue.fields[t].moved \in Int
  BY <1>1 DEF NewQueue, NoActive, Idle, NewTransfer
<1>3. ~IsActive(queue) /\ Given(queue) = <<>>
  BY <1>2 DEF IsActive, Given, Own
<1>4. Lined(queue)
  BY <1>2, <1>3, ShortHolds DEF Lined
<1>5. Typed(queue)
  BY <1>2, ShortHolds, GivenOrders DEF Typed
<1>6. Way(queue, <<>>, FALSE) = <<>>
  BY DEF Way
<1>7. Chained(<<>>, upload)
  BY DEF Chained
<1>8. \A c : ~Heard(queue.waiting, <<>>, c)
  BY <1>2, ShortHolds DEF Heard
<1>9. Speaks(queue, <<>>, <<>>, upload, FALSE)
  BY <1>2, <1>3, <1>4, <1>5, <1>6, <1>7, <1>8, ShortHolds DEF Speaks, Talks
<1>10. (link = "up") = FALSE /\ upload.of = NoTransfer /\ DOMAIN upload = DOMAIN NoUpload
  BY <1>1 DEF NoUpload
<1>11. Speaks(queue, toDevice, toClient, upload, link = "up")
  BY <1>1, <1>9, <1>10
<1> QED
  BY <1>1, <1>10, <1>11, ShortHolds DEF InTalk

\* What the device stores of an upload is its data from the first chunk on, without a gap and
\* after its description, whatever is lost, revoked, refused or aborted in between
\* (dataTransferUploadBuffer.ts:124-132, 155-191, dataTransferQueue.ts:37-51, 120-240).  The
\* hypotheses say that the device asks for no retry, for which the code keeps its count of
\* what was sent, and that ids have not come round to a transfer one side still speaks of.
THEOREM DataIsAlwaysWhole ==
    ASSUME MaxTransferIndex >= 3, "Retry" \notin Errors
    PROVE  PoolSpec /\ []FrameIdIsFree /\ []NextIdsAreUnused => []DataIsWhole
<1>1. PoolInit => InTalk
  BY NewPoolTalks
<1>2. InOrder(queue, interval) /\ FrameIdIsFree /\ NextIdsAreUnused /\ InTalk /\ [PoolNext]_poolVars
      => InTalk'
  BY PoolStepTalks
<1>3. PoolSpec /\ []FrameIdIsFree => []InOrder(queue, interval)
  BY PoolInOrder
<1>4. InTalk => DataIsWhole
  BY DEF InTalk, DataIsWhole
<1> QED
  BY <1>1, <1>2, <1>3, <1>4, PTL DEF PoolSpec
=============================================================================
