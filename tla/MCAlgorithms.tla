----------------------------- MODULE MCAlgorithms -----------------------------
(* Every small case of the algorithms, one of them in each behaviour.        *)
EXTENDS CommandPackets, UploadChunks, Tally

CONSTANTS MaxCommands,   \* commands of a batch
          MaxPixels      \* blocks of an upload

MCClasses == [version |-> {0}, plain |-> {0}, revised |-> {0, 28, 30}, late |-> {28}, unknown |-> {}]
MCPort == 1 :> "External" @@ 2 :> "External" @@ 3010 :> "MediaPlayer" @@ 6000 :> "SuperSource"
            @@ 10010 :> "MEOutput" @@ 10011 :> "MEOutput" @@ 10020 :> "MEOutput"

Command(name, length, group) == [name |-> name, length |-> length, group |-> group]
\* One is larger than a packet, and groups print in another order than they count.
Commands == {Command("plain", 0, 0), Command("plain", 8, 2), Command("revised", 4, 0),
             Command("late", 0, -1), Command("unknown", 4, 10), Command("plain", 24, 0),
             Command("plain", 30, -2)}
Batches == UNION {[1..n -> Commands] : n \in 1..MaxCommands}
Sources == UNION {[1..n -> Blocks] : n \in 1..MaxPixels}

Keyer(onAir, type) == [upstreamKeyerId |-> 0, onAir |-> onAir, fillSource |-> 6000,
                       cutSource |-> 2, mixEffectKeyType |-> type]
First(program, preview, selection, moving, style, keyer) ==
  [programInput |-> program, previewInput |-> preview, selection |-> selection,
   inTransition |-> moving, previewing |-> moving, style |-> style, keyers |-> {keyer},
   dip |-> [input |-> 10020], wipe |-> [borderWidth |-> 1, borderInput |-> 6000],
   DVE |-> [style |-> "GraphicLogoWipe", fillSource |-> 2, enableKey |-> TRUE, keySource |-> 10011],
   stinger |-> [source |-> 1]]
Second(program, preview) == [NewMixEffect EXCEPT !.programInput = program, !.previewInput = preview]
World(mode, first, second, dsk, box) ==
  [me |-> 0, mode |-> mode, mixEffects |-> 0 :> first @@ 1 :> second, dsks |-> {dsk},
   superSources |-> 0 :> [boxes |-> {[enabled |-> TRUE, source |-> box]}, artFillSource |-> 1,
                          artOption |-> "Foreground", artCutSource |-> 10020]]
Worlds ==
  LET sources == {1, 6000, 10011, 10020}
      firsts == {First(program, preview, selection, moving, style, Keyer(onAir, "Luma")) :
                   program \in sources, preview \in sources, moving \in BOOLEAN, onAir \in BOOLEAN,
                   selection \in {{Background}, {2}, {Background, 2}},
                   style \in {"MIX", "DIP", "DVE", "WIPE", "STING"}}
      dsks == {[onAir |-> onAir, inTransition |-> FALSE, tie |-> TRUE, fillSource |-> 10010,
                cutSource |-> 3010] : onAir \in BOOLEAN}
  IN {World(mode, first, Second(program, 2), dsk, box) :
        mode \in {"program", "preview"}, first \in firsts, program \in {1, 10010, 6000}, dsk \in dsks,
        box \in {2, 10020}}

algorithmVars == <<packetVars, chunkVars, tallyVars>>
NoWorld == World("preview", [NewMixEffect EXCEPT !.selection = {}], NewMixEffect,
                 [onAir |-> FALSE, inTransition |-> FALSE, tie |-> FALSE, fillSource |-> 1,
                  cutSource |-> 1], 1)

NoPackets == PacketsInit({<<>>}) /\ sender = "client" /\ spoken = 22 /\ version = 22

AlgorithmsInit ==
  \/ PacketsInit(Batches) /\ ChunksInit({<<>>}) /\ TallyInit({NoWorld})
  \/ NoPackets /\ ChunksInit(Sources) /\ TallyInit({NoWorld})
  \/ NoPackets /\ ChunksInit({<<>>}) /\ TallyInit(Worlds)
AlgorithmsNext ==
  \/ PacketsNext /\ UNCHANGED <<chunkVars, tallyVars>>
  \/ ChunksNext /\ UNCHANGED <<packetVars, tallyVars>>
  \/ ListPass /\ UNCHANGED <<packetVars, chunkVars>>
AlgorithmsSpec == AlgorithmsInit /\ [][AlgorithmsNext]_algorithmVars
=============================================================================
