----------------------------- MODULE DeviceParts -----------------------------
(* The parts a device is made of: the commands that tell of each, those a    *)
(* caller can change it with, and what the device must not make a client     *)
(* believe.  Index 0 exists and index 1 does not, as every count is 1.       *)
EXTENDS AtemMethods

\* The leaves a device has that tells of these.
LeavesOf(commands) == All({commands[n].carries : n \in DOMAIN commands})

\* The commands that tell of a part: the profile in order, what must come first in
\* order, and the rest in any order; then commands that end something and strays.
Part(version, profile, first, rest, asks) ==
  [version |-> version, asks |-> asks, absent |-> {},
   commands |-> <<VersionCommand>> \o profile \o first \o rest,
   leaves |-> LeavesOf(<<VersionCommand>> \o profile \o first \o rest),
   profile |-> 1..(1 + Len(profile)), ordered |-> 1..(1 + Len(profile \o first)),
   topics |-> 1..(1 + Len(profile \o first \o rest)), ends |-> {}, strays |-> {}]
With(p, ends, strays, absent) ==
  LET n == Len(p.commands)
  IN [p EXCEPT !.commands = p.commands \o ends \o strays, !.absent = absent,
               !.ends = (n + 1)..(n + Len(ends)),
               !.strays = (n + Len(ends) + 1)..(n + Len(ends \o strays))]

HasTopology == <<TopologyCommand(TRUE)>>
HasKeyers == <<TopologyCommand(TRUE), MixEffectBlockConfigCommand(0)>>
HasMultiViewers == <<TopologyCommand(TRUE), MultiviewerConfigCommand(TRUE)>>
HasMixer == <<AudioMixerConfigCommand>>
HasFairlight == <<FairlightAudioMixerConfigCommand>>

VideoParts ==
  [mixEffect |->
     With(Part(V8_1_1, HasTopology, <<>>,
               <<ProgramInputUpdateCommand(0), PreviewInputUpdateCommand(0),
                 TransitionPositionUpdateCommand(0), FadeToBlackStateCommand(0)>>,
               {changeProgramInput(0), changePreviewInput(0), cut(0), autoTransition(0),
                setTransitionPosition(0), fadeToBlack(0)}),
          <<>>, <<ProgramInputUpdateCommand(1)>>, {AtMixEffect(1)}),
   fadeToBlack |->
     With(Part(V8_1_1, HasTopology, <<>>,
               <<FadeToBlackRateUpdateCommand(0), FadeToBlackStateCommand(0),
                 PreviewTransitionUpdateCommand(0), TransitionPropertiesUpdateCommand(0)>>,
               {setFadeToBlackRate(0), previewTransition(0), setTransitionStyle(0)}),
          <<>>, <<FadeToBlackRateUpdateCommand(1)>>, {AtMixEffect(1)}),
   transitions |->
     With(Part(V8_1_1, HasTopology, <<>>,
               <<TransitionMixUpdateCommand(0), TransitionDipUpdateCommand(0),
                 TransitionDVEUpdateCommand(0)>>,
               {setMixTransitionSettings(0), setDipTransitionSettings(0),
                setDVETransitionSettings(0)}),
          <<>>, <<TransitionDVEUpdateCommand(1)>>, {AtMixEffect(1)}),
   wipes |->
     Part(V8_1_1, HasTopology, <<>>,
          <<TransitionWipeUpdateCommand(0), TransitionStingerUpdateCommand(0)>>,
          {setWipeTransitionSettings(0), setStingerTransitionSettings(0)}),
   keyer |->
     With(Part(V8_1_1, HasKeyers, <<>>,
               <<MixEffectKeyPropertiesGetCommand(0, 0), MixEffectKeyOnAirUpdateCommand(0, 0),
                 MixEffectKeyLumaUpdateCommand(0, 0), MixEffectKeyChromaUpdateCommand(0, 0)>>,
               {setUpstreamKeyerType(0, 0), setUpstreamKeyerCutSource(0, 0),
                setUpstreamKeyerFillSource(0, 0), setUpstreamKeyerMaskSettings(0, 0),
                setUpstreamKeyerOnAir(0, 0), setUpstreamKeyerLumaSettings(0, 0),
                setUpstreamKeyerChromaSettings(0, 0)}),
          <<>>, <<MixEffectKeyOnAirUpdateCommand(0, 1)>>, {AtKeyer(0, 1)}),
   keyerSettings |->
     Part(V8_1_1, HasKeyers, <<>>,
          <<MixEffectKeyUpdateCommand(0, 0), MixEffectKeyAdvancedChromaPropertiesUpdateCommand(0, 0),
            MixEffectKeyAdvancedChromaSampleUpdateCommand(0, 0)>>,
          {setUpstreamKeyerPatternSettings(0, 0), setUpstreamKeyerAdvancedChromaProperties(0, 0),
           setUpstreamKeyerAdvancedChromaSample(0, 0),
           setUpstreamKeyerAdvancedChromaSampleReset(0, 0)}),
   flyingKeyer |->
     With(Part(V8_1_1, HasKeyers, <<>>,
               <<MixEffectKeyFlyPropertiesGetCommand(0, 0), MixEffectKeyDVEUpdateCommand(0, 0),
                 MixEffectKeyFlyKeyframeUpdateCommand(0, 0, 1)>>,
               {setUpstreamKeyerDVESettings(0, 0), setUpstreamKeyerFlyKeyKeyframe(0, 0, 1),
                storeUpstreamKeyerFlyKeyKeyframe(0, 0, 1), runUpstreamKeyerFlyKeyTo(0, 0),
                runUpstreamKeyerFlyKeyToInfinite(0, 0)}),
          <<>>, <<MixEffectKeyFlyKeyframeUpdateCommand(0, 0, 3)>>, {AtKeyframe(0, 0, 3)}),
   downstreamKeyer |->
     With(Part(V8_1_1, HasTopology, <<>>,
               <<DownstreamKeyStateV8Command(0), DownstreamKeySourcesCommand(0),
                 DownstreamKeyPropertiesCommand(0)>>,
               {autoDownstreamKey(0), setDownstreamKeyOnAir(0), setDownstreamKeyCutSource(0),
                setDownstreamKeyFillSource(0), setDownstreamKeyRate(0), setDownstreamKeyTie(0),
                setDownstreamKeyGeneralProperties(0), setDownstreamKeyMaskSettings(0)}),
          <<>>, <<DownstreamKeyStateV8Command(1)>>, {AtDownstreamKeyer(1)}),
   oldDownstreamKeyer |->
     Part(V8_0, HasTopology, <<>>, <<DownstreamKeyStateCommand(0), DownstreamKeySourcesCommand(0)>>,
          {setDownstreamKeyOnAir(0), setDownstreamKeyFillSource(0)}),
   superSource |->
     With(Part(V8_1_1, HasTopology \o <<SuperSourceConfigCommand(0)>>, <<>>,
               <<SuperSourcePropertiesUpdateV8Command(0), SuperSourceBorderUpdateCommand(0),
                 SuperSourceBoxParametersUpdateCommand(0, 0)>>,
               {setSuperSourceBoxSettings(0, 0)}),
          <<>>, <<SuperSourceBorderUpdateCommand(1)>>, {AtSuperSource(1)}),
   oldSuperSource |->
     Part(V7_2, HasTopology, <<>>,
          <<SuperSourcePropertiesUpdateCommand, SuperSourceBoxParametersUpdateCommand(0, 0),
            SuperSourceBoxParametersUpdateCommand(0, 1)>>, {}),
   outputs |->
     Part(V8_1_1, HasTopology, <<>>,
          <<AuxSourceUpdateCommand(0), AuxSourceUpdateCommand(1), ColorGeneratorUpdateCommand(0),
            ColorGeneratorUpdateCommand(1), CameraControlUpdateCommand>>,
          {setAuxSource(0), setColorGeneratorColour(0), CameraControlCommand}),
   inputs |->
     Part(V8_1_1, <<>>, <<>>,
          <<InputPropertiesUpdateCommand(1), InputPropertiesUpdateCommand(2)>>,
          {setInputSettings(1)}),
   displayClock |->
     Part(V8_1_1, <<>>, <<DisplayClockPropertiesGetCommand>>, <<DisplayClockCurrentTimeCommand>>,
          {setDisplayClockProperties, setDisplayClockState, requestDisplayClockTime})]

AudioParts ==
  [audio |->
     Part(V8_1_1, HasMixer, <<>>,
          <<AudioMixerInputUpdateV8Command(0), AudioMixerMasterUpdateCommand,
            AudioMixerMonitorUpdateCommand, AudioMixerPropertiesUpdateCommand>>,
          {setClassicAudioMixerInputProps(0), setClassicAudioMixerMasterProps,
           setClassicAudioMixerMonitorProps, setClassicAudioMixerProps, setClassicAudioResetPeaks}),
   oldAudio |->
     Part(V7_2, HasMixer, <<>>,
          <<AudioMixerInputUpdateCommand(0), AudioMixerInputUpdateCommand(1),
            AudioMixerHeadphonesUpdateCommand>>,
          {setClassicAudioMixerHeadphonesProps}),
   master |->
     With(Part(V8_1_1, HasFairlight, <<FairlightMixerMasterUpdateCommand>>,
               <<FairlightMixerMasterCompressorUpdateCommand, FairlightMixerMasterLimiterUpdateCommand,
                 FairlightMixerMasterEqualizerBandUpdateCommand(0),
                 FairlightMixerMasterPropertiesUpdateCommand,
                 FairlightMixerMasterLevelsUpdateCommand>>,
               {setFairlightAudioMixerMasterProps, setFairlightAudioMixerMasterCompressorProps,
                setFairlightAudioMixerMasterLimiterProps,
                setFairlightAudioMixerMasterEqualizerBandProps(0),
                FairlightMixerMasterPropertiesCommand, setFairlightAudioMixerMasterEqualizerReset,
                setFairlightAudioMixerMasterDynamicsReset, setFairlightAudioMixerResetPeaks,
                startFairlightMixerSendLevels, stopFairlightMixerSendLevels}),
          <<>>, <<FairlightMixerMasterEqualizerBandUpdateCommand(Bands)>>,
          {AtBands \o <<Ix(Bands)>>}),
   monitor |->
     Part(V8_1_1, HasFairlight, <<>>,
          <<FairlightMixerMonitorUpdateCommand, FairlightMixerMonitorSoloUpdateCommand,
            AudioRoutingOutputUpdateCommand(0), AudioRoutingSourceUpdateCommand(0)>>,
          {setFairlightAudioMixerMonitorProps, setFairlightAudioMixerMonitorSolo,
           setFairlightAudioRoutingSourceProperties(0), setFairlightAudioRoutingOutputProperties(0)}),
   source |->
     With(Part(V8_1_1, HasFairlight, <<FairlightMixerInputUpdateCommand(0)>>,
               <<FairlightMixerSourceUpdateCommand(0, 0), FairlightMixerSourceLevelsUpdateCommand,
                 FairlightMixerSourceCompressorUpdateCommand(0, 0),
                 FairlightMixerSourceLimiterUpdateCommand(0, 0),
                 FairlightMixerSourceExpanderUpdateCommand(0, 0)>>,
               {setFairlightAudioMixerSourceCompressorProps(0, 0),
                setFairlightAudioMixerSourceLimiterProps(0, 0),
                setFairlightAudioMixerSourceExpanderProps(0, 0),
                setFairlightAudioMixerSourceDynamicsReset(0, 0),
                setFairlightAudioMixerSourceEqualizerReset(0, 0),
                setFairlightAudioMixerSourceResetPeaks(0, 0)}),
          <<FairlightMixerSourceDeleteCommand(0, 0)>>, <<>>, {}),
   bands |->
     With(Part(V8_1_1, HasFairlight,
               <<FairlightMixerInputUpdateCommand(0), FairlightMixerSourceUpdateCommand(0, 0)>>,
               <<FairlightMixerSourceEqualizerBandUpdateCommand(0, 0, 0)>>,
               {setFairlightAudioMixerSourceProps(0, 0),
                setFairlightAudioMixerSourceEqualizerBandProps(0, 0, 0)}),
          <<FairlightMixerSourceDeleteCommand(0, 0)>>,
          <<FairlightMixerSourceEqualizerBandUpdateCommand(1, 0, 0)>>, {AtFairlightInput(1)})]

DeviceOwnParts ==
  [profile |->
     Part(V8_1_1, <<ProductIdentifierCommand(2)>>, <<>>,
          <<PowerStatusCommand, TopologyCommand(TRUE), MultiviewerConfigCommand(TRUE),
            MacroPoolConfigCommand>>, {}),
   oldProfile |->
     Part(V8_0, <<ProductIdentifierCommand(1)>>, <<>>,
          <<TopologyCommand(FALSE), MultiviewerConfigCommand(FALSE), MediaPoolConfigCommand,
            VideoMixerConfigCommand>>, {}),
   settings |->
     Part(V8_1_1, <<>>, <<>>,
          <<TimeConfigUpdateCommand, VideoModeUpdateCommand, MediaPoolSettingsGetCommand,
            MediaPoolFrameDescriptionCommand(0, 0)>>,
          {setTimeMode, setMediaPoolSettings, VideoModeCommand, saveStartupState, clearStartupState}),
   multiViewer |->
     With(Part(V8_1_1, HasMultiViewers, <<>>,
               <<MultiViewerPropertiesUpdateCommand(0), MultiViewerBorderColorUpdate(0),
                 MultiViewerVuOpacityUpdate(0), MultiViewerSourceUpdateCommand(0, 0)>>,
               {setMultiViewerProperties(0), setMultiViewerBorderColor(0), setMultiViewerVuOpacity(0),
                setMultiViewerWindowSource(0, 0)}),
          <<>>, <<MultiViewerSourceUpdateCommand(1, 0)>>, {AtMultiViewer(1)}),
   window |->
     With(Part(V8_0, <<MultiviewerConfigCommand(FALSE)>>, <<MultiViewerSourceUpdateCommand(0, 0)>>,
               <<MultiViewerWindowOverlayPropertiesUpdateCommand(0, 0),
                 MultiViewerWindowSafeAreaUpdate(0, 0),
                 MultiViewerWindowOverlaySafeAreaPatternUpdate(0, 0),
                 MultiViewerWindowVuMeterUpdateCommand(0, 0)>>,
               {setMultiViewerWindowOverlayProperties(0, 0),
                setMultiViewerWindowSafeAreaEnabled(0, 0),
                setMultiViewerWindowSafeAreaPattern(0, 0), setMultiViewerWindowVuEnabled(0, 0)}),
          <<>>, <<MultiViewerWindowVuMeterUpdateCommand(0, 1)>>, {AtWindow(0, 1)}),
   media |->
     With(Part(V8_1_1, HasTopology, <<>>,
               <<MediaPlayerSourceUpdateCommand(0), MediaPlayerStatusUpdateCommand(0),
                 MediaPoolClipDescriptionCommand(0), MediaPoolFrameDescriptionCommand(1, 0)>>,
               {setMediaPlayerSettings(0), setMediaPlayerSource(0), setMediaClip,
                clearMediaPoolClip(0), clearMediaPoolStill(0), captureMediaPoolStill}),
          <<>>, <<MediaPlayerStatusUpdateCommand(1), MediaPoolFrameDescriptionCommand(3, 0)>>,
          {AtPlayer(1), AtClip(2)}),
   macros |->
     Part(V8_1_1, <<MacroPoolConfigCommand>>, <<>>,
          <<MacroPropertiesUpdateCommand(0), MacroRunStatusUpdateCommand,
            MacroRecordingStatusCommand>>,
          {macroUpdateProperties(0), macroSetLoop, macroRun(0), macroStop, macroContinue,
           macroStartRecord(0), macroStopRecord, macroDelete(0), macroInsertUserWait,
           macroInsertTimedWait}),
   recording |->
     With(Part(V8_1_1, <<>>, <<RecordingSettingsUpdateCommand>>,
               <<RecordingStatusUpdateCommand, RecordingDurationUpdateCommand, RecordingISOUpdate,
                 RecordingDiskInfoUpdateCommand(1, FALSE)>>,
               {setRecordingSettings, setEnableISORecording, startRecording, stopRecording,
                requestRecordingDuration, switchRecordingDisk}),
          <<RecordingDiskInfoUpdateCommand(1, TRUE)>>, <<>>, {}),
   streaming |->
     Part(V8_1_1, <<>>, <<StreamingServiceUpdateCommand>>,
          <<StreamingStatusUpdateCommand, StreamingStatsUpdateCommand,
            StreamingDurationUpdateCommand, StreamingAudioBitratesUpdate>>,
          {setStreamingService, setStreamingAudioBitrates, startStreaming, stopStreaming,
           requestStreamingDuration}),
   notices |->
     Part(V8_1_1, <<>>,
          <<TimeCommand, TallyBySourceCommand, LockStateUpdateCommand, LockObtainedCommand,
            DataTransferUploadContinueCommand, DataTransferDataCommand,
            DataTransferCompleteCommand, DataTransferErrorCommand>>, <<>>,
          {setTime, requestTime})]

Parts == VideoParts @@ AudioParts @@ DeviceOwnParts

\* What callers can ask for, with the methods whose command depends on the protocol the state tells of.
Asked(p, st) ==
  Parts[p].asks
    \cup IF p \in {"superSource", "oldSuperSource"}
         THEN {setSuperSourceProperties(st, 0), setSuperSourceBorder(st, 0)}
         ELSE IF p = "bands" THEN {setFairlightAudioMixerInputProps(st, 0)} ELSE {}

\* What can be asked of a command: everything, or one property of a mask.
Askable(flags) ==
  IF Cardinality(flags) < 2 THEN flags
  ELSE {UNION flags} \cup {{leaf} : leaf \in UNION flags}

-----------------------------------------------------------------------------
Commands(p) == Parts[p].commands
\* What the device is and has in the beginning: one of everything.
TruthLeaves(p) == Parts[p].leaves
FirstTruth(p) == [leaf \in TruthLeaves(p) |->
                    IF leaf = <<"info", "apiVersion">> THEN Parts[p].version ELSE 1]
=============================================================================
