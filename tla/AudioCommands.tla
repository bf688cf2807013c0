---------------------------- MODULE AudioCommands ----------------------------
(* The commands about audio: the classic mixer, src/commands/Audio, and the  *)
(* Fairlight mixer, src/commands/Fairlight.                                  *)
EXTENDS StateTree

AtAudio == <<"audio">>
AtChannel(n) == <<"audio", "channels", Ix(n)>>
AtFairlight == <<"fairlight">>
AtMaster == <<"fairlight", "master">>
AtFairlightInput(n) == <<"fairlight", "inputs", Ix(n)>>
AtSource(n, source) == AtFairlightInput(n) \o <<"sources", Ix(source)>>
AtRouting(kind) == <<"fairlight", "audioRouting", kind>>

ClassicAudioChannel == {"sourceType", "portType", "mixOption", "gain", "balance",
                        "supportsRcaToXlrEnabled", "rcaToXlrEnabled"}
ClassicAudioMasterChannel == {"gain", "balance", "followFadeToBlack"}
ClassicAudioMonitorChannel == {"enabled", "gain", "mute", "solo", "soloSource", "dim", "dimLevel"}
ClassicAudioHeadphoneOutputChannel == {"gain", "programOutGain", "sidetoneGain", "talkbackGain"}
FairlightAudioLimiterState == {"limiterEnabled", "threshold", "attack", "hold", "release"}
FairlightAudioCompressorState == {"compressorEnabled", "threshold", "ratio", "attack", "hold",
                                  "release"}
FairlightAudioExpanderState == {"expanderEnabled", "gateEnabled", "threshold", "range", "ratio",
                                "attack", "hold", "release"}
FairlightAudioEqualizerBandState == {"bandEnabled", "supportedShapes", "shape",
                                     "supportedFrequencyRanges", "frequencyRange", "frequency",
                                     "gain", "qFactor"}
FairlightAudioMasterChannelPropertiesState == {"faderGain", "followFadeToBlack"}
FairlightAudioMonitorChannel == {"gain", "inputMasterGain", "inputMasterMuted",
                                 "inputTalkbackGain", "inputTalkbackMuted", "inputSidetoneGain"}
FairlightAudioMonitorSolo == {"solo", "index", "source"}
FairlightAudioSourcePropertiesState == {"sourceType", "maxFramesDelay", "framesDelay",
                                        "hasStereoSimulation", "stereoSimulation", "gain",
                                        "balance", "faderGain", "supportedMixOptions", "mixOption"}
FairlightAudioInputProperties == {"inputType", "externalPortType", "supportedConfigurations",
                                  "activeConfiguration", "supportedInputLevels", "activeInputLevel"}
FairlightAudioRoutingSource == {"audioSourceId", "audioChannelPair", "externalPortType",
                                "internalPortType", "name"}
FairlightAudioRoutingOutput == {"audioOutputId", "audioChannelPair", "externalPortType",
                                "internalPortType", "sourceId", "name"}

-----------------------------------------------------------------------------
(* The classic mixer.  What the old protocol does not tell of a channel is   *)
(* taken to be off.                                                          *)
OfAudio(part, steps) == Received(<<Exists(AtAudio)>> \o steps, {AtAudio \o <<part>>})
RcaToXlr == {"rcaToXlrEnabled", "supportsRcaToXlrEnabled"}

AudioMixerInputCommand(n) ==
  WritableCommand(AtChannel(n), {"mixOption", "gain", "balance", "rcaToXlrEnabled"})
AudioMixerInputUpdateCommand(n) ==
  Received(<<Exists(AtAudio), Reset(AtChannel(n), RcaToXlr),
             Mix(AtChannel(n), ClassicAudioChannel \ RcaToXlr)>>, {AtChannel(n)})
AudioMixerInputUpdateV8Command(n) ==
  Received(<<Exists(AtAudio), Put(AtChannel(n), ClassicAudioChannel)>>, {AtChannel(n)})
AudioMixerMasterCommand == WritableCommand(AtAudio \o <<"master">>, ClassicAudioMasterChannel)
AudioMixerMasterUpdateCommand ==
  OfAudio("master", <<Mix(AtAudio \o <<"master">>, ClassicAudioMasterChannel)>>)
AudioMixerMonitorCommand == WritableCommand(AtAudio \o <<"monitor">>, ClassicAudioMonitorChannel)
AudioMixerMonitorUpdateCommand ==
  OfAudio("monitor", <<Mix(AtAudio \o <<"monitor">>, ClassicAudioMonitorChannel)>>)
AudioMixerHeadphonesCommand ==
  WritableCommand(AtAudio \o <<"headphones">>, ClassicAudioHeadphoneOutputChannel)
AudioMixerHeadphonesUpdateCommand ==
  OfAudio("headphones", <<Mix(AtAudio \o <<"headphones">>, ClassicAudioHeadphoneOutputChannel)>>)
AudioFollowVideo == "audioFollowVideoCrossfadeTransitionEnabled"
AudioMixerPropertiesCommand == BasicWritableCommand(AtAudio, {AudioFollowVideo})
AudioMixerPropertiesUpdateCommand ==
  OfAudio(AudioFollowVideo, <<Mix(AtAudio, {AudioFollowVideo})>>)
AudioMixerResetPeaksCommand == Trigger

-----------------------------------------------------------------------------
(* The Fairlight mixer: the master channel.  Its first command makes the     *)
(* bands of the equalizer, of which there are as many as it says.            *)
OfFairlight(steps, at) == Received(<<Exists(AtFairlight)>> \o steps, {at})
AtBands == AtMaster \o <<"equalizer", "bands">>
AtDynamics(part) == AtMaster \o <<"dynamics", part>>

FairlightMixerMasterCommand ==
  WritableCommand(AtMaster \o <<"equalizer">>, {"enabled", "gain"})
    \cup WritableCommand(AtMaster \o <<"dynamics">>, {"makeUpGain"})
    \cup WritableCommand(AtMaster \o <<"properties">>, FairlightAudioMasterChannelPropertiesState)
FairlightMixerMasterUpdateCommand ==
  OfFairlight(<<Put(AtMaster \o <<"properties">>, FairlightAudioMasterChannelPropertiesState),
                Mix(AtMaster \o <<"dynamics">>, {"makeUpGain"}),
                Mix(AtMaster \o <<"equalizer">>, {"enabled", "gain"}),
                Count(AtBands)>>, AtMaster)

\* The parts of the master channel are refused until the channel is there.
MasterPart(steps, at) == OfFairlight(<<Exists(AtMaster)>> \o steps, at)
FairlightMixerMasterCompressorCommand ==
  WritableCommand(AtDynamics("compressor"), FairlightAudioCompressorState)
FairlightMixerMasterCompressorUpdateCommand ==
  MasterPart(<<Put(AtDynamics("compressor"), FairlightAudioCompressorState)>>,
             AtDynamics("compressor"))
FairlightMixerMasterLimiterCommand ==
  WritableCommand(AtDynamics("limiter"), FairlightAudioLimiterState)
FairlightMixerMasterLimiterUpdateCommand ==
  MasterPart(<<Put(AtDynamics("limiter"), FairlightAudioLimiterState)>>, AtDynamics("limiter"))
FairlightMixerMasterEqualizerBandCommand(band) ==
  WritableCommand(AtBands \o <<Ix(band)>>, {"bandEnabled", "shape", "frequencyRange", "frequency",
                                            "gain", "qFactor"})
FairlightMixerMasterEqualizerBandUpdateCommand(band) ==
  MasterPart(<<Exists(AtMaster \o <<"equalizer">>), Need(AtBands \o <<"length">>, band),
               Put(AtBands \o <<Ix(band)>>, FairlightAudioEqualizerBandState)>>,
             AtBands \o <<Ix(band)>>)
FairlightMixerMasterDynamicsResetCommand == Trigger
FairlightMixerMasterEqualizerResetCommand == Trigger
FairlightMixerMasterPropertiesCommand == WritableCommand(AtFairlight, {AudioFollowVideo})
FairlightMixerMasterPropertiesUpdateCommand ==
  OfFairlight(<<Mix(AtFairlight, {AudioFollowVideo})>>, AtFairlight \o <<AudioFollowVideo>>)

\* The monitor; the index and the source of the solo share a flag.
FairlightMixerMonitorCommand ==
  WritableCommand(AtFairlight \o <<"monitor">>, FairlightAudioMonitorChannel)
FairlightMixerMonitorUpdateCommand ==
  OfFairlight(<<Put(AtFairlight \o <<"monitor">>, FairlightAudioMonitorChannel)>>,
              AtFairlight \o <<"monitor">>)
FairlightMixerMonitorSoloCommand ==
  WritableCommand(AtFairlight \o <<"solo">>, {"solo"})
    \cup BasicWritableCommand(AtFairlight \o <<"solo">>, {"index", "source"})
FairlightMixerMonitorSoloUpdateCommand ==
  OfFairlight(<<Put(AtFairlight \o <<"solo">>, FairlightAudioMonitorSolo)>>,
              AtFairlight \o <<"solo">>)

-----------------------------------------------------------------------------
(* The Fairlight mixer: inputs and their sources.  A source comes with one   *)
(* command, its dynamics and its bands with others, and it can be deleted.   *)
AtSourceBands(n, source) == AtSource(n, source) \o <<"equalizer", "bands">>
AtSourceDynamics(n, source, part) == AtSource(n, source) \o <<"dynamics", part>>

FairlightMixerInputCommand(n) ==
  WritableCommand(AtFairlightInput(n) \o <<"properties">>, {"rcaToXlrEnabled",
                                                            "activeConfiguration"})
FairlightMixerInputV8Command(n) ==
  WritableCommand(AtFairlightInput(n) \o <<"properties">>, {"activeConfiguration",
                                                            "activeInputLevel"})
FairlightMixerInputUpdateCommand(n) ==
  OfFairlight(<<Put(AtFairlightInput(n) \o <<"properties">>, FairlightAudioInputProperties)>>,
              AtFairlightInput(n) \o <<"properties">>)

FairlightMixerSourceCommand(n, source) ==
  WritableCommand(AtSource(n, source) \o <<"properties">>,
                  {"framesDelay", "gain", "stereoSimulation", "balance", "faderGain", "mixOption"})
    \cup WritableCommand(AtSource(n, source) \o <<"equalizer">>, {"enabled", "gain"})
    \cup WritableCommand(AtSource(n, source) \o <<"dynamics">>, {"makeUpGain"})
FairlightMixerSourceUpdateCommand(n, source) ==
  OfFairlight(<<Mix(AtSource(n, source) \o <<"equalizer">>, {"enabled", "gain"}),
                Count(AtSourceBands(n, source)),
                Mix(AtSource(n, source) \o <<"dynamics">>, {"makeUpGain"}),
                Mix(AtSource(n, source) \o <<"properties">>, FairlightAudioSourcePropertiesState)>>,
              AtSource(n, source) \o <<"properties">>)
FairlightMixerSourceDeleteCommand(n, source) ==
  OfFairlight(<<Drop(AtSource(n, source))>>, AtSource(n, source))

\* Dynamics and bands make a source that is not there, even one they then refuse.
SourcePart(n, source, steps, at) ==
  OfFairlight(<<Exists(AtFairlightInput(n)), Make(AtSource(n, source), {"empty"})>> \o steps, at)
SourceDynamics(n, source, part, names) ==
  SourcePart(n, source, <<Put(AtSourceDynamics(n, source, part), names)>>,
             AtSourceDynamics(n, source, part))

FairlightMixerSourceCompressorCommand(n, source) ==
  WritableCommand(AtSourceDynamics(n, source, "compressor"), FairlightAudioCompressorState)
FairlightMixerSourceCompressorUpdateCommand(n, source) ==
  SourceDynamics(n, source, "compressor", FairlightAudioCompressorState)
FairlightMixerSourceExpanderCommand(n, source) ==
  WritableCommand(AtSourceDynamics(n, source, "expander"), FairlightAudioExpanderState)
FairlightMixerSourceExpanderUpdateCommand(n, source) ==
  SourceDynamics(n, source, "expander", FairlightAudioExpanderState)
FairlightMixerSourceLimiterCommand(n, source) ==
  WritableCommand(AtSourceDynamics(n, source, "limiter"), FairlightAudioLimiterState)
FairlightMixerSourceLimiterUpdateCommand(n, source) ==
  SourceDynamics(n, source, "limiter", FairlightAudioLimiterState)
FairlightMixerSourceEqualizerBandCommand(n, source, band) ==
  WritableCommand(AtSourceBands(n, source) \o <<Ix(band)>>,
                  {"bandEnabled", "shape", "frequencyRange", "frequency", "gain", "qFactor"})
FairlightMixerSourceEqualizerBandUpdateCommand(n, source, band) ==
  SourcePart(n, source,
             <<Exists(AtSource(n, source) \o <<"equalizer">>),
               Need(AtSourceBands(n, source) \o <<"length">>, band),
               Put(AtSourceBands(n, source) \o <<Ix(band)>>, FairlightAudioEqualizerBandState)>>,
             AtSourceBands(n, source) \o <<Ix(band)>>)
FairlightMixerSourceDynamicsResetCommand(n, source) == Trigger
FairlightMixerSourceEqualizerResetCommand(n, source) == Trigger

-----------------------------------------------------------------------------
(* The routing of outputs and sources, and the levels, which are announced   *)
(* and not kept.                                                             *)
AudioRoutingOutputCommand(id) ==
  WritableCommand(AtRouting("outputs") \o <<Ix(id)>>, {"sourceId", "name"})
AudioRoutingOutputUpdateCommand(id) ==
  OfFairlight(<<Put(AtRouting("outputs") \o <<Ix(id)>>, FairlightAudioRoutingOutput)>>,
              AtRouting("outputs") \o <<Ix(id)>>)
AudioRoutingSourceCommand(id) == WritableCommand(AtRouting("sources") \o <<Ix(id)>>, {"name"})
AudioRoutingSourceUpdateCommand(id) ==
  OfFairlight(<<Put(AtRouting("sources") \o <<Ix(id)>>, FairlightAudioRoutingSource)>>,
              AtRouting("sources") \o <<Ix(id)>>)

FairlightMixerSendLevelsCommand == Trigger
FairlightMixerMasterLevelsUpdateCommand == Received(<<>>, {})
FairlightMixerSourceLevelsUpdateCommand == Received(<<>>, {})
FairlightMixerResetPeakLevelsCommand == Trigger
FairlightMixerSourceResetPeakLevelsCommand(n, source) == Trigger
=============================================================================
