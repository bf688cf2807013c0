---------------------------- MODULE AtemMethods ------------------------------
(* The methods of Atem, src/atem.ts: each is the writable command it builds, *)
(* for the state st where the command depends on it.  The methods that start *)
(* transfers are in MediaPool.                                               *)
EXTENDS MixEffectCommands, VideoCommands, AudioCommands, DeviceCommands

V7_2 == 22
V8_0 == 28
V8_1_1 == 30

\* this.state && this.state.info.apiVersion >= version
Speaks(st, version) == LET at == <<"info", "apiVersion">>
                       IN at \in DOMAIN st /\ st[at] >= version

(* Mix effects.                                                              *)
changeProgramInput(me) == ProgramInputCommand(me)
changePreviewInput(me) == PreviewInputCommand(me)
cut(me) == CutCommand(me)
autoTransition(me) == AutoTransitionCommand(me)
fadeToBlack(me) == FadeToBlackAutoCommand(me)
setFadeToBlackRate(me) == FadeToBlackRateCommand(me)

(* Downstream keyers, transitions and outputs.                               *)
autoDownstreamKey(dsk) == DownstreamKeyAutoCommand(dsk)
setDipTransitionSettings(me) == TransitionDipCommand(me)
setDVETransitionSettings(me) == TransitionDVECommand(me)
setMixTransitionSettings(me) == TransitionMixCommand(me)
setTransitionPosition(me) == TransitionPositionCommand(me)
previewTransition(me) == PreviewTransitionCommand(me)
setTransitionStyle(me) == TransitionPropertiesCommand(me)
setStingerTransitionSettings(me) == TransitionStingerCommand(me)
setWipeTransitionSettings(me) == TransitionWipeCommand(me)
setAuxSource(bus) == AuxSourceCommand(bus)
setDownstreamKeyTie(dsk) == DownstreamKeyTieCommand(dsk)
setDownstreamKeyOnAir(dsk) == DownstreamKeyOnAirCommand(dsk)
setDownstreamKeyCutSource(dsk) == DownstreamKeyCutSourceCommand(dsk)
setDownstreamKeyFillSource(dsk) == DownstreamKeyFillSourceCommand(dsk)
setDownstreamKeyGeneralProperties(dsk) == DownstreamKeyGeneralCommand(dsk)
setDownstreamKeyMaskSettings(dsk) == DownstreamKeyMaskCommand(dsk)
setDownstreamKeyRate(dsk) == DownstreamKeyRateCommand(dsk)

(* Time and macros.                                                          *)
setTime == Trigger
setTimeMode == TimeConfigCommand
requestTime == TimeRequestCommand
macroContinue == MacroActionCommand(0)
macroDelete(n) == MacroActionCommand(n)
macroInsertUserWait == MacroActionCommand(0)
macroInsertTimedWait == MacroAddTimedPauseCommand
macroRun(n) == MacroActionCommand(n)
macroStop == MacroActionCommand(0)
macroStartRecord(n) == MacroRecordCommand(n)
macroStopRecord == MacroActionCommand(0)
macroUpdateProperties(n) == MacroPropertiesCommand(n)
macroSetLoop == MacroRunStatusCommand

(* Multiviewers.                                                             *)
setMultiViewerWindowSource(mv, window) == MultiViewerSourceCommand(mv, window)
setMultiViewerWindowSafeAreaEnabled(mv, window) == MultiViewerWindowSafeAreaCommand(mv, window)
setMultiViewerWindowVuEnabled(mv, window) == MultiViewerWindowVuMeterCommand(mv, window)
setMultiViewerVuOpacity(mv) == MultiViewerVuOpacityCommand(mv)
setMultiViewerProperties(mv) == MultiViewerPropertiesCommand(mv)
setMultiViewerBorderColor(mv) == MultiViewerBorderColorCommand(mv)
setMultiViewerWindowOverlayProperties(mv, window) ==
  MultiViewerWindowOverlayPropertiesCommand(mv, window)
setMultiViewerWindowSafeAreaPattern(mv, window) ==
  MultiViewerWindowOverlaySafeAreaPatternCommand(mv, window)

(* Colors, media and SuperSources.                                           *)
setColorGeneratorColour(n) == ColorGeneratorCommand(n)
setMediaPlayerSettings(player) == MediaPlayerStatusCommand(player)
setMediaPlayerSource(player) == MediaPlayerSourceCommand(player)
setMediaClip == MediaPoolSetClipCommand
clearMediaPoolClip(clip) == MediaPoolClearClipCommand(clip)
clearMediaPoolStill(still) == MediaPoolClearStillCommand(still)
captureMediaPoolStill == MediaPoolCaptureStillCommand
setSuperSourceBoxSettings(ssrc, box) == SuperSourceBoxParametersCommand(ssrc, box)
setSuperSourceProperties(st, ssrc) ==
  IF Speaks(st, V8_0) THEN SuperSourcePropertiesV8Command(ssrc) ELSE SuperSourcePropertiesCommand
setSuperSourceBorder(st, ssrc) ==
  IF Speaks(st, V8_0) THEN SuperSourceBorderCommand(ssrc) ELSE SuperSourcePropertiesCommand
setInputSettings(n) == InputPropertiesCommand(n)

(* Upstream keyers.                                                          *)
setUpstreamKeyerChromaSettings(me, key) == MixEffectKeyChromaCommand(me, key)
setUpstreamKeyerAdvancedChromaProperties(me, key) ==
  MixEffectKeyAdvancedChromaPropertiesCommand(me, key)
setUpstreamKeyerAdvancedChromaSample(me, key) == MixEffectKeyAdvancedChromaSampleCommand(me, key)
setUpstreamKeyerAdvancedChromaSampleReset(me, key) ==
  MixEffectKeyAdvancedChromaSampleResetCommand(me, key)
setUpstreamKeyerCutSource(me, key) == MixEffectKeyCutSourceSetCommand(me, key)
setUpstreamKeyerFillSource(me, key) == MixEffectKeyFillSourceSetCommand(me, key)
setUpstreamKeyerDVESettings(me, key) == MixEffectKeyDVECommand(me, key)
setUpstreamKeyerLumaSettings(me, key) == MixEffectKeyLumaCommand(me, key)
setUpstreamKeyerMaskSettings(me, key) == MixEffectKeyMaskSetCommand(me, key)
setUpstreamKeyerPatternSettings(me, key) == MixEffectKeyPatternCommand(me, key)
setUpstreamKeyerOnAir(me, key) == MixEffectKeyOnAirCommand(me, key)
runUpstreamKeyerFlyKeyTo(me, key) == MixEffectKeyRunToCommand(me, key)
runUpstreamKeyerFlyKeyToInfinite(me, key) == MixEffectKeyRunToCommand(me, key)
storeUpstreamKeyerFlyKeyKeyframe(me, key, frame) ==
  MixEffectKeyFlyKeyframeStoreCommand(me, key, frame)
setUpstreamKeyerFlyKeyKeyframe(me, key, frame) == MixEffectKeyFlyKeyframeCommand(me, key, frame)
setUpstreamKeyerType(me, key) == MixEffectKeyTypeSetCommand(me, key)

(* Audio.                                                                    *)
setClassicAudioMixerInputProps(n) == AudioMixerInputCommand(n)
setClassicAudioMixerMasterProps == AudioMixerMasterCommand
setClassicAudioMixerMonitorProps == AudioMixerMonitorCommand
setClassicAudioMixerHeadphonesProps == AudioMixerHeadphonesCommand
setClassicAudioResetPeaks == AudioMixerResetPeaksCommand
setClassicAudioMixerProps == AudioMixerPropertiesCommand
setFairlightAudioMixerMasterProps == FairlightMixerMasterCommand
setFairlightAudioMixerMasterCompressorProps == FairlightMixerMasterCompressorCommand
setFairlightAudioMixerMasterLimiterProps == FairlightMixerMasterLimiterCommand
setFairlightAudioMixerMasterEqualizerBandProps(band) ==
  FairlightMixerMasterEqualizerBandCommand(band)
setFairlightAudioMixerMasterEqualizerReset == FairlightMixerMasterEqualizerResetCommand
setFairlightAudioMixerMasterDynamicsReset == FairlightMixerMasterDynamicsResetCommand
setFairlightAudioMixerResetPeaks == FairlightMixerResetPeakLevelsCommand
startFairlightMixerSendLevels == FairlightMixerSendLevelsCommand
stopFairlightMixerSendLevels == FairlightMixerSendLevelsCommand
setFairlightAudioMixerMonitorProps == FairlightMixerMonitorCommand
setFairlightAudioMixerMonitorSolo == FairlightMixerMonitorSoloCommand
\* The command the version asks for here came with a later one, 8.1.1.
setFairlightAudioMixerInputProps(st, n) ==
  IF Speaks(st, V8_0) THEN FairlightMixerInputV8Command(n) ELSE FairlightMixerInputCommand(n)
setFairlightAudioMixerSourceProps(n, source) == FairlightMixerSourceCommand(n, source)
setFairlightAudioMixerSourceCompressorProps(n, source) ==
  FairlightMixerSourceCompressorCommand(n, source)
setFairlightAudioMixerSourceLimiterProps(n, source) == FairlightMixerSourceLimiterCommand(n, source)
setFairlightAudioMixerSourceExpanderProps(n, source) ==
  FairlightMixerSourceExpanderCommand(n, source)
setFairlightAudioMixerSourceEqualizerBandProps(n, source, band) ==
  FairlightMixerSourceEqualizerBandCommand(n, source, band)
setFairlightAudioMixerSourceDynamicsReset(n, source) ==
  FairlightMixerSourceDynamicsResetCommand(n, source)
setFairlightAudioMixerSourceEqualizerReset(n, source) ==
  FairlightMixerSourceEqualizerResetCommand(n, source)
setFairlightAudioMixerSourceResetPeaks(n, source) ==
  FairlightMixerSourceResetPeakLevelsCommand(n, source)

(* Streaming, recording and the rest.                                        *)
startStreaming == StreamingStatusCommand
stopStreaming == StreamingStatusCommand
requestStreamingDuration == StreamingRequestDurationCommand
setStreamingService == StreamingServiceCommand
setStreamingAudioBitrates == StreamingAudioBitratesCommand
startRecording == RecordingStatusCommand
stopRecording == RecordingStatusCommand
requestRecordingDuration == RecordingRequestDurationCommand
switchRecordingDisk == RecordingRequestSwitchDiskCommand
setRecordingSettings == RecordingSettingsCommand
setEnableISORecording == RecordingISOCommand
saveStartupState == StartupStateSaveCommand
clearStartupState == StartupStateClearCommand
setMediaPoolSettings == MediaPoolSettingsSetCommand
requestDisplayClockTime == DisplayClockRequestTimeCommand
setDisplayClockState == DisplayClockStateSetCommand
setDisplayClockProperties == DisplayClockPropertiesSetCommand
setFairlightAudioRoutingSourceProperties(id) == AudioRoutingSourceCommand(id)
setFairlightAudioRoutingOutputProperties(id) == AudioRoutingOutputCommand(id)
=============================================================================
