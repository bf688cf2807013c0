------------------------------ MODULE AtemStore ------------------------------
(* The state a client keeps of the device, BasicAtem._mutateState of         *)
(* src/atem.ts, and what its listeners know of it.  The device (external)    *)
(* tells everything it has when a session starts, then every change.  A      *)
(* behaviour is about one part of the device, a handful of commands that     *)
(* write to the same objects.                                                *)
EXTENDS DeviceParts

CONSTANTS MaxChanges,   \* changes, calls, strays and lost sessions of a behaviour
          MaxInbox      \* packets' commands in transit

ASSUME StoreAssumption == MaxChanges \in Nat /\ MaxInbox \in Nat \ {0}

VARIABLES subject,    \* the part of the device the behaviour is about
          truth,      \* the leaves the device has, and their values
          announced,  \* what the device has told of in this session
          inbox,      \* commands in transit, in order
          state,      \* this._state
          status,     \* this._status
          view,       \* what a listener has copied from the events
          asked,      \* the leaves the last step, a call, asked to change
          changes

vars == <<subject, truth, announced, inbox, state, status, view, asked, changes>>

-----------------------------------------------------------------------------
(* The client.                                                               *)

Undefined == <<>>

\* AtemStateUtil.Create.
Create == Blank({<<"info", "apiVersion">>, <<"info", "model">>, <<"settings", "videoMode">>}
                  \cup Leaves(<<"macro", "macroPlayer">>, MacroPlayerState)
                  \cup Leaves(<<"macro", "macroRecorder">>, MacroRecorderState))

IsInitComplete(message) == message.n = 0
IsVersion(message) == message.n = 1
\* The end of the introduction is not applied, and would change nothing.
CommandOf(message) == IF IsInitComplete(message) THEN InitCompleteCommand
                      ELSE Commands(subject)[message.n]

\* A slip: the state of the last session is kept.
StateToChangeKept(batch) == state
\* The state a batch of commands is applied to: a new one when a session starts.
StateToChange(batch) == IF \E i \in DOMAIN batch : IsVersion(batch[i]) THEN Create ELSE state

\* A slip: only the paths of the last command are kept.
HandledForgettingPaths(done, message) ==
  The({[state |-> applied.state, ok |-> applied.ok, paths |-> CommandOf(message).says] :
         applied \in {Applied(done.state, CommandOf(message), message.v)}})

\* One command; one that is refused is logged and says nothing.
Handled(done, message) ==
  The({[state |-> applied.state, ok |-> applied.ok,
        paths |-> done.paths \cup IF applied.ok THEN CommandOf(message).says ELSE {}] :
         applied \in {Applied(done.state, CommandOf(message), message.v)}})

\* The commands of a batch, one after the other; without a state nothing is applied.
Changed(batch) ==
  LET first == [state |-> StateToChange(batch), ok |-> TRUE, paths |-> {}]
      done[i \in 0..Len(batch)] ==
        IF i = 0 \/ DOMAIN first.state = {} THEN first
        ELSE The({Handled(before, batch[i]) : before \in {done[i - 1]}})
  IN done[Len(batch)]

\* What a listener holds that copies what is under the paths it is given.
Copied(paths) ==
  LET given(p) == \E at \in paths : IsPrefix(at, p)
  IN [p \in {q \in DOMAIN view : ~given(q)} \cup {q \in DOMAIN state' : given(q)} |->
        IF given(p) THEN state'[p] ELSE view[p]]

\* _mutateState: 'connected' once the device has told everything, then 'stateChanged'.
MutateState(batch) ==
  \E changed \in {Changed(batch)} :
    LET starts == \E i \in DOMAIN batch : IsVersion(batch[i])
        ends == \E i \in DOMAIN batch : IsInitComplete(batch[i])
    IN /\ state' = changed.state
       /\ status' = IF ends THEN "connected" ELSE IF starts THEN "connecting" ELSE status
       /\ view' = IF ends THEN state'
                  ELSE IF status' = "connected" THEN Copied(changed.paths) ELSE view

-----------------------------------------------------------------------------
(* The device.                                                               *)
Profile == Parts[subject].profile
Ordered == Parts[subject].ordered
Topics == Parts[subject].topics
Everything == Topics \cup {0}

Exist(n) == Commands(subject)[n].carries \subseteq DOMAIN truth
Message(n, values) == [n |-> n, v |-> Restricted(values, Commands(subject)[n].carries)]
\* The messages about the topics of S; every topic is told of by itself.
Messages(S, values) ==
  LET sorted == SetToSortSeq(S, <) IN [i \in DOMAIN sorted |-> Message(sorted[i], values)]

Init == /\ subject \in DOMAIN Parts
        /\ truth = FirstTruth(subject)
        /\ announced = {}
        /\ inbox = <<>>
        /\ state = Create
        /\ status = "closed"
        /\ view = <<>>
        /\ asked = {}
        /\ changes = 0

Room == Len(inbox) < MaxInbox

\* A session starts with what the device is and has, and ends saying so.
Introduce(n) ==
  /\ Room
  /\ n \in Everything \ announced
  /\ n \in Ordered => 1..(n - 1) \subseteq announced
  /\ n \notin Ordered => Ordered \subseteq announced
  /\ n = 0 => Topics \subseteq announced
  /\ announced' = announced \cup {n}
  /\ inbox' = IF n = 0 THEN Append(inbox, [n |-> 0, v |-> <<>>])
              ELSE IF Exist(n) THEN Append(inbox, Message(n, truth)) ELSE inbox
  /\ asked' = {}
  /\ UNCHANGED <<subject, truth, state, status, view, changes>>

\* The device has new values for some leaves and tells of the topics they are in.
Become(values) ==
  \E about \in {{n \in announced \cap Topics :
                  Exist(n) /\ Commands(subject)[n].carries \cap DOMAIN values # {}}} :
    /\ Len(inbox) + Cardinality(about) <= MaxInbox
    /\ truth' = values @@ truth
    /\ inbox' = inbox \o Messages(about, truth')
    /\ changes' = changes + 1

NewValue == changes + 2

\* Somebody else changes everything a topic is about.
Turn(n) ==
  /\ changes < MaxChanges
  /\ n \in Topics \ Profile
  /\ Exist(n)
  /\ Become([p \in Commands(subject)[n].carries |-> NewValue])
  /\ asked' = {}
  /\ UNCHANGED <<subject, announced, state, status, view>>

\* A caller of the library asks for some of the properties of a method.
Ask(flags) ==
  /\ changes < MaxChanges
  /\ status = "connected"
  /\ asked' \in Askable(flags)
  /\ \E sent \in {Sent(flags, [p \in asked' |-> NewValue])} :
       DOMAIN sent \subseteq DOMAIN truth /\ Become(sent)
  /\ UNCHANGED <<subject, announced, state, status, view>>

\* Something is taken away, and the device says so.
TakeAway(n) ==
  /\ changes < MaxChanges
  /\ Room
  /\ Topics \subseteq announced
  /\ n \in Parts[subject].ends
  /\ LET gone == {p \in DOMAIN truth : \E at \in Dropped(Commands(subject)[n]) : IsPrefix(at, p)}
     IN /\ gone # {}
        /\ truth' = Restricted(truth, DOMAIN truth \ gone)
  /\ inbox' = Append(inbox, [n |-> n, v |-> <<>>])
  /\ changes' = changes + 1
  /\ asked' = {}
  /\ UNCHANGED <<subject, announced, state, status, view>>

\* The device speaks of something it does not have.
Stray(n) ==
  /\ changes < MaxChanges
  /\ Room
  /\ Profile \subseteq announced
  /\ n \in Parts[subject].strays
  /\ inbox' = Append(inbox, Message(n, [p \in Commands(subject)[n].carries |-> NewValue]))
  /\ changes' = changes + 1
  /\ asked' = {}
  /\ UNCHANGED <<subject, truth, announced, state, status, view>>

\* Commands arrive in the packets of the device, any number in each.
Deliver(k) ==
  /\ k \in 1..Len(inbox)
  /\ \E batch \in {SubSeq(inbox, 1, k)} : MutateState(batch)
  /\ inbox' = SubSeq(inbox, k + 1, Len(inbox))
  /\ asked' = {}
  /\ UNCHANGED <<subject, truth, announced, changes>>

\* The session is lost with what was in transit, and the state goes with it.
OnDisconnect == state' = Undefined /\ status' = "closed"

\* The answer to another HELLO opens a session in place of the one that is: the child
\* takes it and reports nothing.
SessionReplaced == UNCHANGED <<state, status>>

Lose ==
  /\ changes < MaxChanges
  /\ announced # {}
  /\ announced' = {}
  /\ inbox' = <<>>
  /\ OnDisconnect \/ SessionReplaced
  /\ changes' = changes + 1
  /\ asked' = {}
  /\ UNCHANGED <<subject, truth, view>>

Next == \/ \E n \in Everything : Introduce(n)
        \/ \E n \in Topics : Turn(n)
        \/ \E flags \in Asked(subject, state) : Ask(flags)
        \/ \E n \in Parts[subject].ends : TakeAway(n)
        \/ \E n \in Parts[subject].strays : Stray(n)
        \/ \E k \in 1..MaxInbox : Deliver(k)
        \/ Lose

Spec == Init /\ [][Next]_vars

-----------------------------------------------------------------------------
(* Properties.                                                               *)
InTouch == status = "connected" /\ inbox = <<>> /\ 0 \in announced

\* With nothing in transit a connected client has what the device has, leaf by
\* leaf: no command of the part destroys what another told, in whatever order
\* they came, nothing of an earlier session is left and what was deleted is gone.
Mirror ==
  InTouch => /\ \A leaf \in DOMAIN truth : leaf \in DOMAIN state /\ state[leaf] = truth[leaf]
             /\ DOMAIN state \cap TruthLeaves(subject) \subseteq DOMAIN truth

\* Changes nothing reports: of a source of the Fairlight mixer only the
\* properties are named, of a disk the duration of the recording, and of a
\* topology that is told again the capabilities but not the multiviewers.
Unreported == {AtSource(0, 0) \o <<"equalizer">>, AtSource(0, 0) \o <<"dynamics">>,
               AtRecording \o <<"disks">>, AtMultiViewerInfo}
\* A listener that copies what is under the paths of 'stateChanged' and takes
\* everything at 'connected' has the state of the client.
ListenersFollow ==
  status = "connected" =>
    \A leaf \in DOMAIN state \cup DOMAIN view :
      \/ \E at \in Unreported : IsPrefix(at, leaf)
      \/ leaf \in DOMAIN state \cap DOMAIN view /\ state[leaf] = view[leaf]

\* README.md:108: "Whenever a packet from the ATEM is received that changes the
\* state, this event will be fired. The path parameter is a path into the state
\* that represents the change".
EveryChangeIsReported == status = "connected" => view = state

\* What the device said of an index it does not have is in no state.
NoGhosts == \A at \in Parts[subject].absent : ~Has(state, at)

\* The index and the source of the solo share a flag: asking for one sends both, by
\* default the one that was not given.
Shared == Leaves(AtFairlight \o <<"solo">>, {"index", "source"})
\* A call changes no other property of the device than those it names.
OnlyAskedChanges ==
  [][asked' # {} => \A leaf \in DOMAIN truth \ Shared :
                      truth'[leaf] # truth[leaf] => leaf \in asked']_vars
=============================================================================
