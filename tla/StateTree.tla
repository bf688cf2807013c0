------------------------------ MODULE StateTree ------------------------------
(* The state object of the library, src/state, as the function from the      *)
(* paths of its leaves to their values; an object is present when a leaf     *)
(* lies under its path.  A received command is a record of the steps its     *)
(* applyToState takes and of the paths it returns; a writable command is a   *)
(* record of the properties each of its mask flags covers.                   *)
EXTENDS Integers, Sequences, FiniteSets, SequencesExt

Default == 0     \* the value of a leaf the library creates or leaves out
Bands == 1       \* how many bands the device says its equalizers have

Ix(n) == ToString(n)

Leaves(at, names) == {at \o <<n>> : n \in names}

Under(st, at) == {p \in DOMAIN st : IsPrefix(at, p)}
Has(st, at) == Under(st, at) # {}

\* Members with their defaults.
Blank(leaves) == [p \in leaves |-> Default]

(* The steps of applyToState.  "Need", "Check" and "Exists" throw            *)
(* InvalidIdError unless a count is above an index, a number is in its range *)
(* or an object is there; "Make" creates an object that is missing;    *)
(* "Fill" gives the missing members of an object their default, as a spread  *)
(* of the old object over defaults does; "Count" keeps the length of an      *)
(* array or makes it; "Reset" assigns defaults; "Drop" deletes; "Put"        *)
(* assigns an object of the message, "Mix" spreads the message over the      *)
(* object there is and "Slice" takes as much of it as there is room for.     *)
Need(at, n) == [op |-> "need", at |-> at, above |-> n, leaves |-> {}]
Check(holds) == [op |-> "check", at |-> <<>>, above |-> IF holds THEN 1 ELSE 0, leaves |-> {}]
Exists(at) == [op |-> "exists", at |-> at, above |-> 0, leaves |-> {}]
Make(at, names) == [op |-> "make", at |-> at, above |-> 0, leaves |-> Leaves(at, names)]
Fill(at, names) == [op |-> "fill", at |-> at, above |-> 0, leaves |-> Leaves(at, names)]
Reset(at, names) == [op |-> "reset", at |-> at, above |-> 0, leaves |-> Leaves(at, names)]
Drop(at) == [op |-> "drop", at |-> at, above |-> 0, leaves |-> {}]
Put(at, names) == [op |-> "put", at |-> at, above |-> 0, leaves |-> Leaves(at, names)]
Mix(at, names) == [op |-> "mix", at |-> at, above |-> 0, leaves |-> Leaves(at, names)]
Slice(at, names) == [op |-> "slice", at |-> at, above |-> 0, leaves |-> Leaves(at, names)]
Count(at) == [op |-> "count", at |-> at, above |-> 0, leaves |-> Leaves(at, {"length"})]

Restricted(f, S) == [p \in S |-> f[p]]
Without(st, at) == Restricted(st, DOMAIN st \ Under(st, at))

Allows(st, step) ==
  /\ step.op = "need" => step.at \in DOMAIN st /\ st[step.at] > step.above
  /\ step.op = "check" => step.above = 1
  /\ step.op = "exists" => Has(st, step.at)

\* What one step makes of the state, v being the values the message carries.
After(st, step, v) ==
  CASE step.op \in {"need", "check", "exists"} -> st
    [] step.op = "make" -> IF Has(st, step.at) THEN st ELSE Blank(step.leaves) @@ st
    [] step.op = "fill" -> st @@ Blank(step.leaves)
    [] step.op = "reset" -> Blank(step.leaves) @@ Without(st, step.at)
    [] step.op = "drop" -> Without(st, step.at)
    [] step.op = "put" -> Restricted(v, step.leaves) @@ Without(st, step.at)
    [] step.op = "mix" -> Restricted(v, step.leaves) @@ st
    [] step.op = "slice" -> Restricted(v, step.leaves \cap DOMAIN st) @@ st
    [] step.op = "count" -> st @@ [p \in step.leaves |-> Bands]

Taken(done, step, v) ==
  IF done.ok /\ Allows(done.state, step) THEN [done EXCEPT !.state = After(done.state, step, v)]
  ELSE [done EXCEPT !.ok = FALSE]

\* The member of a singleton; TLC evaluates the expression that gives it once.
The(S) == CHOOSE x \in S : TRUE

\* The whole of applyToState: a step that throws keeps what the earlier ones did.
Applied(st, command, v) ==
  LET done[i \in 0..Len(command.steps)] ==
        IF i = 0 THEN [state |-> st, ok |-> TRUE]
        ELSE The({Taken(before, command.steps[i], v) : before \in {done[i - 1]}})
  IN done[Len(command.steps)]

\* The members of some sets, enumerated.
All(sets) == {leaf : leaf \in UNION sets}

\* A command: what it does, the paths it returns and the leaves its message carries.
Received(steps, says) ==
  [steps |-> steps, says |-> says,
   carries |-> All({steps[i].leaves : i \in {j \in DOMAIN steps :
                                                steps[j].op \in {"put", "mix", "slice"}}})]

\* The objects a command deletes.
Dropped(command) ==
  {command.steps[i].at : i \in {j \in DOMAIN command.steps : command.steps[j].op = "drop"}}

(* Writable commands.  Every flag of the mask stands for a set of leaves: one *)
(* for a WritableCommand, all of them for a command without a mask.           *)
\* A slip: the mask is always full.
WritableCommandUnmasked(at, names) == {Leaves(at, names)}
WritableCommand(at, names) == {Leaves(at, {n}) : n \in names}
BasicWritableCommand(at, names) == {Leaves(at, names)}
Trigger == {}       \* a command that asks for an action and carries no property

\* updateProps: a property the mask does not know is left out.
Flagged(flags, props) == UNION {g \in flags : g \cap DOMAIN props # {}}

\* serialize: what is under a raised flag is sent, by default where it was not given.
Sent(flags, props) == [p \in Flagged(flags, props) |-> IF p \in DOMAIN props THEN props[p]
                                                       ELSE Default]
=============================================================================
