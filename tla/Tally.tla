------------------------------- MODULE Tally ---------------------------------
(* The inputs visible in the program or the preview of a mix effect,         *)
(* listVisibleInputs of src/lib/tally.ts: what a mix effect shows, and what  *)
(* the SuperSources and mix effects among that show, until nothing new is    *)
(* found.  Inputs have the ids of the device.                                *)
EXTENDS Integers, Sequences, FiniteSets, SequencesExt

CONSTANT PortType     \* internalPortType of the inputs the state has

VARIABLES world,          \* the part of the state that is read, and what is asked
          inputs,         \* the Set, in the order of its insertions
          lastProcessed,
          listed          \* whether the loop has ended

tallyVars == <<world, inputs, lastProcessed, listed>>

Given(condition, ids) == IF condition THEN ids ELSE {}

\* TransitionSelection: the flags of a transition, and those of the keyers.
Background == 1
KeyerMask(keyer) == 2 ^ (keyer.upstreamKeyerId + 1)
Graphic == {"GraphicCCWSpin", "GraphicCWSpin", "GraphicLogoWipe"}

\* A keyer is part of the next transition when it is selected.
KeyerActive(me, keyer, mode) ==
  LET isPartOfTransition == KeyerMask(keyer) \in me.selection
  IN IF mode = "program"
     THEN keyer.onAir \/ (me.inTransition /\ isPartOfTransition)
     ELSE keyer.onAir # isPartOfTransition
KeyerInputs(keyer) ==
  {keyer.fillSource} \cup Given(keyer.mixEffectKeyType = "Luma", {keyer.cutSource})

DskActive(dsk, mode) == IF mode = "program" THEN dsk.onAir \/ dsk.inTransition
                        ELSE dsk.tie /\ ~dsk.onAir

\* What a transition of each style brings in by itself.
StyleInputs(me) ==
  CASE me.style = "DIP" -> {me.dip.input}
    [] me.style = "DVE" -> Given(me.DVE.style \in Graphic,
                                 {me.DVE.fillSource} \cup Given(me.DVE.enableKey, {me.DVE.keySource}))
    [] me.style = "WIPE" -> Given(me.wipe.borderWidth > 0, {me.wipe.borderInput})
    [] me.style = "STING" -> {3000 + me.stinger.source * 10, 3001 + me.stinger.source * 10}
    [] me.style = "MIX" -> {}

\* A transition under way brings its other side in.
TransitionInputs(me, mode) ==
  Given(IF mode = "program" THEN me.inTransition ELSE me.previewing,
        Given(Background \in me.selection, {me.previewInput}) \cup StyleInputs(me))

\* A mix effect the state does not have is created with its defaults.
NewMixEffect == [programInput |-> 0, previewInput |-> 0, inTransition |-> FALSE,
                 previewing |-> FALSE, selection |-> {Background}, style |-> "MIX", keyers |-> {}]
MixEffectOf(n) == IF n \in DOMAIN world.mixEffects THEN world.mixEffects[n] ELSE NewMixEffect

\* _calcActiveMeInputs; downstream keyers are behind the first mix effect only.
ActiveMeInputs(n, mode) ==
  LET me == MixEffectOf(n)
  IN Given(mode = "program", {me.programInput})
       \cup Given(mode = "preview" /\ Background \in me.selection, {me.previewInput})
       \cup UNION {KeyerInputs(keyer) : keyer \in {k \in me.keyers : KeyerActive(me, k, mode)}}
       \cup Given(n = 0, UNION {{dsk.fillSource, dsk.cutSource} :
                                  dsk \in {d \in world.dsks : DskActive(d, mode)}})
       \cup TransitionInputs(me, mode)

SuperSourceInputs(n) ==
  LET ssrc == world.superSources[n]
  IN Given(n \in DOMAIN world.superSources,
           {box.source : box \in {b \in ssrc.boxes : b.enabled}} \cup {ssrc.artFillSource}
             \cup Given(ssrc.artOption = "Foreground", {ssrc.artCutSource}))

\* What an input shows of others.
Shown(id) ==
  IF id \notin DOMAIN PortType THEN {}
  ELSE CASE PortType[id] = "SuperSource" -> SuperSourceInputs(id - 6000)
         [] PortType[id] = "MEOutput" ->
              ActiveMeInputs((id - (id % 10) - 10000) \div 10 - 1,
                             IF (id - 10000) % 10 = 0 THEN "program" ELSE "preview")
         [] OTHER -> {}

\* A slip: what the last pass found counts as processed.
ProcessedBeyond(before, after) == after
\* The last input of a pass is looked at again in the next one.
Processed(before, after) == before - 1

\* One pass over the inputs that were not processed.
ListPass ==
  /\ ~listed
  /\ \E new \in {UNION {Shown(inputs[i]) : i \in (lastProcessed + 1)..Len(inputs)} \ ToSet(inputs)} :
       /\ inputs' = inputs \o SetToSeq(new)
       /\ lastProcessed' = Processed(Len(inputs), Len(inputs'))
       /\ listed' = (new = {})
  /\ UNCHANGED world

TallyInit(worlds) ==
  /\ world \in worlds
  /\ inputs = SetToSeq(ActiveMeInputs(world.me, world.mode))
  /\ lastProcessed = 0
  /\ listed = (inputs = <<>>)

-----------------------------------------------------------------------------
(* Properties.                                                               *)
AllInputs == DOMAIN PortType

\* What is reachable from the mix effect in so many looks at what an input shows.
Reachable ==
  LET within[n \in 0..Cardinality(AllInputs)] ==
        IF n = 0 THEN ActiveMeInputs(world.me, world.mode)
        ELSE LET seen == within[n - 1] IN seen \cup UNION {Shown(id) : id \in seen}
  IN within[Cardinality(AllInputs)]

\* Everything that is visible through however many SuperSources and mix effects is
\* listed, also when they show each other, and nothing else.
TallyIsComplete == listed => ToSet(inputs) = Reachable /\ Len(inputs) = Cardinality(Reachable)
=============================================================================
