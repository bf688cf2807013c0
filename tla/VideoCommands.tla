---------------------------- MODULE VideoCommands ----------------------------
(* The commands about downstream keyers, SuperSources, auxiliary outputs,    *)
(* color generators, inputs, the display clock and the cameras.              *)
EXTENDS StateTree

HasDownstreamKeyer(dsk) == Need(<<"info", "capabilities", "downstreamKeyers">>, dsk)
HasSuperSource(ssrc) == Need(<<"info", "capabilities", "superSources">>, ssrc)

AtDownstreamKeyer(dsk) == <<"video", "downstreamKeyers", Ix(dsk)>>
AtProperties(dsk) == AtDownstreamKeyer(dsk) \o <<"properties">>
AtSuperSource(ssrc) == <<"video", "superSources", Ix(ssrc)>>
AtArt(ssrc) == AtSuperSource(ssrc) \o <<"properties">>
AtBorder(ssrc) == AtSuperSource(ssrc) \o <<"border">>
AtBox(ssrc, box) == AtSuperSource(ssrc) \o <<"boxes", Ix(box)>>
AtColor(n) == <<"colorGenerators", Ix(n)>>
AtInput(n) == <<"inputs", Ix(n)>>
AtClock == <<"displayClock">>

DownstreamKeyerBase == {"inTransition", "remainingFrames", "isAuto", "onAir", "isTowardsOnAir"}
DownstreamKeyerGeneral == {"preMultiply", "clip", "gain", "invert"}
DownstreamKeyerMask == {"enabled", "top", "bottom", "left", "right"}
DownstreamKeyerProperties == {"tie", "rate"}
DownstreamKeyerSources == {"fillSource", "cutSource"}
SuperSourceBox == {"enabled", "source", "x", "y", "size", "cropped", "cropTop", "cropBottom",
                   "cropLeft", "cropRight"}
SuperSourceProperties == {"artFillSource", "artCutSource", "artOption", "artPreMultiplied",
                          "artClip", "artGain", "artInvertKey"}
SuperSourceBorder == {"borderEnabled", "borderBevel", "borderOuterWidth", "borderInnerWidth",
                      "borderOuterSoftness", "borderInnerSoftness", "borderBevelSoftness",
                      "borderBevelPosition", "borderHue", "borderSaturation", "borderLuma",
                      "borderLightSourceDirection", "borderLightSourceAltitude"}
ColorGeneratorState == {"hue", "saturation", "luma"}
InputChannel == {"inputId", "longName", "shortName", "areNamesDefault", "externalPorts",
                 "externalPortType", "internalPortType", "sourceAvailability", "meAvailability"}
DisplayClockTime == {"hours", "minutes", "seconds", "frames"}
DisplayClockProperties == {"enabled", "size", "opacity", "positionX", "positionY", "autoHide",
                           "startFrom", "clockMode", "clockState"}

-----------------------------------------------------------------------------
(* Downstream keyers: state, sources and properties come in three commands.  *)
MadeDownstreamKeyer(dsk) ==
  Make(AtDownstreamKeyer(dsk), DownstreamKeyerBase \ {"isTowardsOnAir"})
OfDownstreamKeyer(dsk, steps) ==
  Received(<<HasDownstreamKeyer(dsk), MadeDownstreamKeyer(dsk)>> \o steps,
           {AtDownstreamKeyer(dsk)})

DownstreamKeyStateCommand(dsk) ==
  OfDownstreamKeyer(dsk, <<Mix(AtDownstreamKeyer(dsk), DownstreamKeyerBase \ {"isTowardsOnAir"})>>)
DownstreamKeyStateV8Command(dsk) ==
  OfDownstreamKeyer(dsk, <<Mix(AtDownstreamKeyer(dsk), DownstreamKeyerBase)>>)
DownstreamKeySourcesCommand(dsk) ==
  OfDownstreamKeyer(dsk, <<Put(AtDownstreamKeyer(dsk) \o <<"sources">>, DownstreamKeyerSources)>>)
DownstreamKeyPropertiesCommand(dsk) ==
  OfDownstreamKeyer(dsk, <<Put(AtProperties(dsk), DownstreamKeyerProperties
                                                    \cup DownstreamKeyerGeneral),
                           Put(AtProperties(dsk) \o <<"mask">>, DownstreamKeyerMask)>>)

DownstreamKeyAutoCommand(dsk) == Trigger
DownstreamKeyOnAirCommand(dsk) == BasicWritableCommand(AtDownstreamKeyer(dsk), {"onAir"})
DownstreamKeyCutSourceCommand(dsk) ==
  BasicWritableCommand(AtDownstreamKeyer(dsk) \o <<"sources">>, {"cutSource"})
DownstreamKeyFillSourceCommand(dsk) ==
  BasicWritableCommand(AtDownstreamKeyer(dsk) \o <<"sources">>, {"fillSource"})
DownstreamKeyRateCommand(dsk) == BasicWritableCommand(AtProperties(dsk), {"rate"})
DownstreamKeyTieCommand(dsk) == BasicWritableCommand(AtProperties(dsk), {"tie"})
DownstreamKeyGeneralCommand(dsk) == WritableCommand(AtProperties(dsk), DownstreamKeyerGeneral)
DownstreamKeyMaskCommand(dsk) ==
  WritableCommand(AtProperties(dsk) \o <<"mask">>, DownstreamKeyerMask)

-----------------------------------------------------------------------------
(* SuperSources: up to protocol 8.0 there is one, and its art and its border *)
(* share a command.                                                          *)
OfSuperSource(ssrc, steps, says) ==
  Received(<<HasSuperSource(ssrc), Make(AtSuperSource(ssrc), {"index"})>> \o steps, says)

SuperSourcePropertiesCommand ==
  WritableCommand(AtArt(0), SuperSourceProperties)
    \cup WritableCommand(AtBorder(0), SuperSourceBorder)
SuperSourcePropertiesUpdateCommand ==
  OfSuperSource(0, <<Put(AtArt(0), SuperSourceProperties), Put(AtBorder(0), SuperSourceBorder)>>,
                {AtArt(0), AtBorder(0)})
SuperSourcePropertiesV8Command(ssrc) == WritableCommand(AtArt(ssrc), SuperSourceProperties)
SuperSourcePropertiesUpdateV8Command(ssrc) ==
  OfSuperSource(ssrc, <<Put(AtArt(ssrc), SuperSourceProperties)>>, {AtArt(ssrc)})
SuperSourceBorderCommand(ssrc) == WritableCommand(AtBorder(ssrc), SuperSourceBorder)
SuperSourceBorderUpdateCommand(ssrc) ==
  OfSuperSource(ssrc, <<Put(AtBorder(ssrc), SuperSourceBorder)>>, {AtBorder(ssrc)})
SuperSourceBoxParametersCommand(ssrc, box) == WritableCommand(AtBox(ssrc, box), SuperSourceBox)
SuperSourceBoxParametersUpdateCommand(ssrc, box) ==
  OfSuperSource(ssrc, <<Put(AtBox(ssrc, box), SuperSourceBox)>>, {AtBox(ssrc, box)})

-----------------------------------------------------------------------------
(* Outputs, colors and inputs; their indexes are taken as they come.         *)
AuxSourceCommand(bus) == BasicWritableCommand(<<"video", "auxilliaries">>, {Ix(bus)})
AuxSourceUpdateCommand(bus) ==
  Received(<<Mix(<<"video", "auxilliaries">>, {Ix(bus)})>>, {<<"video", "auxilliaries", Ix(bus)>>})

ColorGeneratorCommand(n) == WritableCommand(AtColor(n), ColorGeneratorState)
ColorGeneratorUpdateCommand(n) == Received(<<Put(AtColor(n), ColorGeneratorState)>>, {AtColor(n)})

InputPropertiesCommand(n) ==
  WritableCommand(AtInput(n), {"longName", "shortName", "externalPortType"})
InputPropertiesUpdateCommand(n) == Received(<<Put(AtInput(n), InputChannel)>>, {AtInput(n)})

\* What the cameras report is not kept.
CameraControlCommand == Trigger
CameraControlUpdateCommand == Received(<<>>, {})

-----------------------------------------------------------------------------
(* The display clock: its time is taken only once its properties are there.  *)
DisplayClockPropertiesGetCommand ==
  Received(<<Fill(AtClock \o <<"currentTime">>, DisplayClockTime),
             Put(AtClock \o <<"properties">>, DisplayClockProperties)>>,
           {AtClock \o <<"properties">>})
DisplayClockCurrentTimeCommand ==
  Received(<<Exists(AtClock), Put(AtClock \o <<"currentTime">>, DisplayClockTime)>>,
           {AtClock \o <<"currentTime">>})
\* startFromFrames is another way to give startFrom.
DisplayClockPropertiesSetCommand ==
  WritableCommand(AtClock \o <<"properties">>, DisplayClockProperties \ {"clockState"})
DisplayClockStateSetCommand == BasicWritableCommand(AtClock \o <<"properties">>, {"clockState"})
DisplayClockRequestTimeCommand == Trigger
=============================================================================
