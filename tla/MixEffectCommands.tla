-------------------------- MODULE MixEffectCommands --------------------------
(* The commands about mix effects, their transitions and their keyers:       *)
(* src/commands/MixEffects and the state they are about, src/state/video.    *)
EXTENDS StateTree

Capabilities == <<"info", "capabilities">>
\* A slip: the last index is one too high.
HasMixEffectOrOneMore(me) == Check(me <= 1)
HasMixEffect(me) == Need(Capabilities \o <<"mixEffects">>, me)
HasDVE == Need(Capabilities \o <<"DVEs">>, 0)
HasKeyer(me, key) == Need(<<"info", "mixEffects", Ix(me), "keyCount">>, key)

AtMixEffect(me) == <<"video", "mixEffects", Ix(me)>>
AtPosition(me) == AtMixEffect(me) \o <<"transitionPosition">>
AtTransition(me) == AtMixEffect(me) \o <<"transitionProperties">>
AtSettings(me, style) == AtMixEffect(me) \o <<"transitionSettings", style>>
AtFade(me) == AtMixEffect(me) \o <<"fadeToBlack">>
AtKeyer(me, key) == AtMixEffect(me) \o <<"upstreamKeyers", Ix(key)>>
AtKeyerPart(me, key, part) == AtKeyer(me, key) \o <<part>>
AtKeyframe(me, key, frame) == AtKeyer(me, key) \o <<"flyKeyframes", Ix(frame - 1)>>

MixEffect == {"index", "programInput", "previewInput", "transitionPreview"}
TransitionPosition == {"inTransition", "remainingFrames", "handlePosition"}
TransitionProperties == {"style", "selection", "nextStyle", "nextSelection"}
FadeToBlackProperties == {"isFullyBlack", "inTransition", "remainingFrames", "rate"}
DipTransitionSettings == {"rate", "input"}
MixTransitionSettings == {"rate"}
DVETransitionSettings == {"rate", "logoRate", "style", "fillSource", "keySource", "enableKey",
                          "preMultiplied", "clip", "gain", "invertKey", "reverse", "flipFlop"}
StingerTransitionSettings == {"source", "preMultipliedKey", "clip", "gain", "invert", "preroll",
                              "clipDuration", "triggerPoint", "mixRate"}
WipeTransitionSettings == {"rate", "pattern", "borderWidth", "borderInput", "symmetry",
                           "borderSoftness", "xPosition", "yPosition", "reverseDirection",
                           "flipFlop"}
UpstreamKeyerTypeSettings == {"mixEffectKeyType", "flyEnabled"}
UpstreamKeyerBase ==
  {"upstreamKeyerId", "canFlyKey", "fillSource", "cutSource"} \cup UpstreamKeyerTypeSettings
UpstreamKeyerMaskSettings == {"maskEnabled", "maskTop", "maskBottom", "maskLeft", "maskRight"}
UpstreamKeyerDVEBase ==
  UpstreamKeyerMaskSettings \cup
  {"sizeX", "sizeY", "positionX", "positionY", "rotation", "borderOuterWidth", "borderInnerWidth",
   "borderOuterSoftness", "borderInnerSoftness", "borderBevelSoftness", "borderBevelPosition",
   "borderOpacity", "borderHue", "borderSaturation", "borderLuma", "lightSourceDirection",
   "lightSourceAltitude"}
UpstreamKeyerDVESettings ==
  {"borderEnabled", "shadowEnabled", "borderBevel", "rate"} \cup UpstreamKeyerDVEBase
UpstreamKeyerFlyKeyframe == (UpstreamKeyerDVEBase \ {"maskEnabled"}) \cup {"keyFrameId"}
UpstreamKeyerChromaSettings == {"hue", "gain", "ySuppress", "lift", "narrow"}
UpstreamKeyerAdvancedChromaProperties == {"foregroundLevel", "backgroundLevel", "keyEdge",
                                          "spillSuppression", "flareSuppression", "brightness",
                                          "contrast", "saturation", "red", "green", "blue"}
UpstreamKeyerAdvancedChromaSample == {"enableCursor", "preview", "cursorX", "cursorY",
                                      "cursorSize", "sampledY", "sampledCb", "sampledCr"}
UpstreamKeyerLumaSettings == {"preMultiplied", "clip", "gain", "invert"}
UpstreamKeyerPatternSettings == {"style", "size", "symmetry", "softness", "positionX", "positionY",
                                 "invert"}
UpstreamKeyerFlySettings == {"isASet", "isBSet", "isAtKeyFrame", "runToInfiniteIndex"}

(* The objects a command creates when it is the first to speak of them.      *)
MadeMixEffect(me) ==
  <<Make(AtMixEffect(me), MixEffect), Make(AtPosition(me), TransitionPosition),
    Make(AtTransition(me), TransitionProperties)>>
MadeKeyer(me, key) ==
  <<Make(AtKeyer(me, key), UpstreamKeyerBase \cup {"onAir"}),
    Make(AtKeyerPart(me, key, "maskSettings"), UpstreamKeyerMaskSettings)>>

OfMixEffect(me, steps, at) ==
  Received(<<HasMixEffect(me)>> \o MadeMixEffect(me) \o steps, {at})
OfKeyer(me, key, steps, at) ==
  Received(<<HasKeyer(me, key)>> \o MadeMixEffect(me) \o MadeKeyer(me, key) \o steps, {at})

MixEffectField(me, name) ==
  OfMixEffect(me, <<Mix(AtMixEffect(me), {name})>>, AtMixEffect(me) \o <<name>>)
KeyerPart(me, key, part, names) ==
  OfKeyer(me, key, <<Put(AtKeyerPart(me, key, part), names)>>, AtKeyerPart(me, key, part))

-----------------------------------------------------------------------------
(* Program, preview and the transition between them.                         *)
CutCommand(me) == Trigger
AutoTransitionCommand(me) == Trigger
ProgramInputCommand(me) == BasicWritableCommand(AtMixEffect(me), {"programInput"})
ProgramInputUpdateCommand(me) == MixEffectField(me, "programInput")
PreviewInputCommand(me) == BasicWritableCommand(AtMixEffect(me), {"previewInput"})
PreviewInputUpdateCommand(me) == MixEffectField(me, "previewInput")

PreviewTransitionCommand(me) == BasicWritableCommand(AtMixEffect(me), {"transitionPreview"})
PreviewTransitionUpdateCommand(me) == MixEffectField(me, "transitionPreview")

TransitionPositionCommand(me) == BasicWritableCommand(AtPosition(me), {"handlePosition"})
TransitionPositionUpdateCommand(me) ==
  OfMixEffect(me, <<Put(AtPosition(me), TransitionPosition)>>, AtPosition(me))

TransitionPropertiesCommand(me) ==
  WritableCommand(AtTransition(me), {"nextStyle", "nextSelection"})
TransitionPropertiesUpdateCommand(me) ==
  OfMixEffect(me, <<Put(AtTransition(me), TransitionProperties)>>, AtTransition(me))

TransitionMixCommand(me) == BasicWritableCommand(AtSettings(me, "mix"), MixTransitionSettings)
TransitionMixUpdateCommand(me) ==
  OfMixEffect(me, <<Put(AtSettings(me, "mix"), MixTransitionSettings)>>, AtSettings(me, "mix"))

TransitionDipCommand(me) == WritableCommand(AtSettings(me, "dip"), DipTransitionSettings)
TransitionDipUpdateCommand(me) ==
  OfMixEffect(me, <<Put(AtSettings(me, "dip"), DipTransitionSettings)>>, AtSettings(me, "dip"))

TransitionWipeCommand(me) == WritableCommand(AtSettings(me, "wipe"), WipeTransitionSettings)
TransitionWipeUpdateCommand(me) ==
  OfMixEffect(me, <<Put(AtSettings(me, "wipe"), WipeTransitionSettings)>>, AtSettings(me, "wipe"))

TransitionStingerCommand(me) ==
  WritableCommand(AtSettings(me, "stinger"), StingerTransitionSettings)
TransitionStingerUpdateCommand(me) ==
  OfMixEffect(me, <<Put(AtSettings(me, "stinger"), StingerTransitionSettings)>>,
              AtSettings(me, "stinger"))

\* The need for a DVE is checked before anything is created.
TransitionDVECommand(me) == WritableCommand(AtSettings(me, "DVE"), DVETransitionSettings)
TransitionDVEUpdateCommand(me) ==
  Received(<<HasMixEffect(me), HasDVE>> \o MadeMixEffect(me)
             \o <<Put(AtSettings(me, "DVE"), DVETransitionSettings)>>, {AtSettings(me, "DVE")})

-----------------------------------------------------------------------------
(* Fade to black: its rate and its state come in two commands, and each      *)
(* keeps what the other brought.                                             *)
FadeToBlackAutoCommand(me) == Trigger
FadeToBlackRateCommand(me) == BasicWritableCommand(AtFade(me), {"rate"})
FadeToBlackRateUpdateCommand(me) ==
  OfMixEffect(me, <<Fill(AtFade(me), FadeToBlackProperties \ {"rate"}),
                    Mix(AtFade(me), {"rate"})>>, AtFade(me))
FadeToBlackStateCommand(me) ==
  OfMixEffect(me, <<Fill(AtFade(me), {"rate"}),
                    Mix(AtFade(me), FadeToBlackProperties \ {"rate"})>>, AtFade(me))

-----------------------------------------------------------------------------
(* Upstream keyers.                                                          *)
MixEffectKeyPropertiesGetCommand(me, key) ==
  OfKeyer(me, key, <<Mix(AtKeyer(me, key), UpstreamKeyerBase),
                     Put(AtKeyerPart(me, key, "maskSettings"), UpstreamKeyerMaskSettings)>>,
          AtKeyer(me, key))
MixEffectKeyTypeSetCommand(me, key) ==
  WritableCommand(AtKeyer(me, key), UpstreamKeyerTypeSettings)
MixEffectKeyCutSourceSetCommand(me, key) ==
  BasicWritableCommand(AtKeyer(me, key), {"cutSource"})
MixEffectKeyFillSourceSetCommand(me, key) ==
  BasicWritableCommand(AtKeyer(me, key), {"fillSource"})
MixEffectKeyMaskSetCommand(me, key) ==
  WritableCommand(AtKeyerPart(me, key, "maskSettings"), UpstreamKeyerMaskSettings)

MixEffectKeyOnAirCommand(me, key) == BasicWritableCommand(AtKeyer(me, key), {"onAir"})
MixEffectKeyOnAirUpdateCommand(me, key) ==
  OfKeyer(me, key, <<Mix(AtKeyer(me, key), {"onAir"})>>, AtKeyerPart(me, key, "onAir"))

MixEffectKeyLumaCommand(me, key) ==
  WritableCommand(AtKeyerPart(me, key, "lumaSettings"), UpstreamKeyerLumaSettings)
MixEffectKeyLumaUpdateCommand(me, key) ==
  KeyerPart(me, key, "lumaSettings", UpstreamKeyerLumaSettings)

MixEffectKeyChromaCommand(me, key) ==
  WritableCommand(AtKeyerPart(me, key, "chromaSettings"), UpstreamKeyerChromaSettings)
MixEffectKeyChromaUpdateCommand(me, key) ==
  KeyerPart(me, key, "chromaSettings", UpstreamKeyerChromaSettings)

MixEffectKeyPatternCommand(me, key) ==
  WritableCommand(AtKeyerPart(me, key, "patternSettings"), UpstreamKeyerPatternSettings)
MixEffectKeyUpdateCommand(me, key) ==
  KeyerPart(me, key, "patternSettings", UpstreamKeyerPatternSettings)

\* The two halves of the advanced chroma settings come apart.
AtAdvanced(me, key, half) == AtKeyer(me, key) \o <<"advancedChromaSettings", half>>
MixEffectKeyAdvancedChromaPropertiesCommand(me, key) ==
  WritableCommand(AtAdvanced(me, key, "properties"), UpstreamKeyerAdvancedChromaProperties)
MixEffectKeyAdvancedChromaPropertiesUpdateCommand(me, key) ==
  OfKeyer(me, key,
          <<Put(AtAdvanced(me, key, "properties"), UpstreamKeyerAdvancedChromaProperties)>>,
          AtAdvanced(me, key, "properties"))
MixEffectKeyAdvancedChromaSampleCommand(me, key) ==
  WritableCommand(AtAdvanced(me, key, "sample"), UpstreamKeyerAdvancedChromaSample)
MixEffectKeyAdvancedChromaSampleUpdateCommand(me, key) ==
  OfKeyer(me, key, <<Put(AtAdvanced(me, key, "sample"), UpstreamKeyerAdvancedChromaSample)>>,
          AtAdvanced(me, key, "sample"))
MixEffectKeyAdvancedChromaSampleResetCommand(me, key) == Trigger

MixEffectKeyDVECommand(me, key) ==
  WritableCommand(AtKeyerPart(me, key, "dveSettings"), UpstreamKeyerDVESettings)
MixEffectKeyDVEUpdateCommand(me, key) ==
  Received(<<HasKeyer(me, key), HasDVE>> \o MadeMixEffect(me) \o MadeKeyer(me, key)
             \o <<Put(AtKeyerPart(me, key, "dveSettings"), UpstreamKeyerDVESettings)>>,
           {AtKeyerPart(me, key, "dveSettings")})

\* The flying keyer: where it is, and the two keyframes it can fly to.
MixEffectKeyFlyPropertiesGetCommand(me, key) ==
  KeyerPart(me, key, "flyProperties", UpstreamKeyerFlySettings)
MixEffectKeyFlyKeyframeCommand(me, key, frame) ==
  WritableCommand(AtKeyframe(me, key, frame), UpstreamKeyerFlyKeyframe \ {"keyFrameId"})
MixEffectKeyFlyKeyframeUpdateCommand(me, key, frame) ==
  Received(<<HasKeyer(me, key), Check(frame \in 1..2)>> \o MadeMixEffect(me) \o MadeKeyer(me, key)
             \o <<Put(AtKeyframe(me, key, frame), UpstreamKeyerFlyKeyframe)>>,
           {AtKeyframe(me, key, frame)})
MixEffectKeyFlyKeyframeStoreCommand(me, key, frame) == Trigger
MixEffectKeyRunToCommand(me, key) == Trigger
=============================================================================
