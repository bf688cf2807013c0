---------------------------- MODULE DeviceCommands ---------------------------
(* The commands about the device itself: its profile, its settings, media,   *)
(* macros, recording and streaming, and the commands of data transfers,      *)
(* which change nothing of the state.                                        *)
EXTENDS StateTree

AtInfo == <<"info">>
AtCapabilities == <<"info", "capabilities">>
AtMultiViewerInfo == <<"info", "multiviewer">>
AtPower == <<"info", "power">>
AtMultiViewer(mv) == <<"settings", "multiViewers", Ix(mv)>>
AtWindow(mv, window) == AtMultiViewer(mv) \o <<"windows", Ix(window)>>
AtPlayer(player) == <<"media", "players", Ix(player)>>
AtClip(clip) == <<"media", "clipPool", Ix(clip)>>
AtRecording == <<"recording">>
AtStreaming == <<"streaming">>

AtemCapabilites ==
  {"mixEffects", "sources", "auxilliaries", "mixMinusOutputs", "mediaPlayers", "serialPorts",
   "maxHyperdecks", "DVEs", "stingers", "superSources", "talkbackChannels", "downstreamKeyers",
   "cameraControl", "advancedChromaKeyers", "onlyConfigurableOutputs", "multiviewers"}
MultiviewerInfo == {"count", "windowCount"}
AudioMixerInfo == {"inputs", "monitors", "headphones"}
FairlightAudioMixerInfo == {"inputs", "monitors"}
MediaPoolInfo == {"stillCount", "clipCount"}
MultiViewerSourceState == {"source", "windowIndex", "supportsVuMeter", "supportsSafeArea"}
MultiViewerPropertiesState == {"layout", "programPreviewSwapped"}
MultiViewerBorderColorState == {"red", "green", "blue", "alpha"}
MultiViewerWindowOverlayPropertiesState == {"labelVisible", "borderVisible"}
MediaPlayer == {"playing", "loop", "atBeginning", "clipFrame"}
MediaPlayerSource == {"sourceType", "clipIndex", "stillIndex"}
StillFrame == {"isUsed", "hash", "fileName"}
ClipBank == {"isUsed", "name", "frameCount"}
MacroPlayerState == {"isRunning", "isWaiting", "loop", "macroIndex"}
MacroRecorderState == {"isRecording", "macroIndex"}
MacroPropertiesState == {"isUsed", "hasUnsupportedOps", "name", "description"}
Timecode == {"hours", "minutes", "seconds", "frames", "isDropFrame"}
RecordingDiskProperties == {"diskId", "volumeName", "recordingTimeAvailable", "status",
                            "isDelete"}
RecordingStateStatus == {"state", "error", "recordingTimeAvailable"}
RecordingStateProperties == {"filename", "workingSet1DiskId", "workingSet2DiskId",
                             "recordInAllCameras"}
StreamingStateStatus == {"state", "error"}
StreamingStateStats == {"cacheUsed", "encodingBitrate"}
StreamingServiceProperties == {"serviceName", "url", "key", "bitrates"}
StreamingAudioBitrates == {"lowBitrate", "highBitrate"}

-----------------------------------------------------------------------------
(* The profile, which comes first in a session.                              *)
PutAt(at, names) == Received(<<Put(at, names)>>, {at})

VersionCommand == Received(<<Mix(AtInfo, {"apiVersion"})>>, {AtInfo \o <<"apiVersion">>})
\* How many power supplies there are follows from the model.
ProductIdentifierCommand(supplies) ==
  Received(<<Mix(AtInfo, {"productIdentifier", "model"}),
             Reset(AtPower, {Ix(i) : i \in 0..(supplies - 1)})>>, {AtInfo})
PowerStatusCommand == Received(<<Slice(AtPower, {Ix(0), Ix(1)})>>, {AtPower})
\* Since protocol 8.1 the topology tells how many multiviewers there are, and
\* their own configuration only how many windows; whichever comes last keeps the
\* other's part.
TopologyCommand(since81) ==
  Received(<<Mix(AtCapabilities, AtemCapabilites)>>
             \o IF since81 THEN <<Fill(AtMultiViewerInfo, {"windowCount"}),
                                  Mix(AtMultiViewerInfo, {"count"})>> ELSE <<>>,
           {AtCapabilities})
MultiviewerConfigCommand(since81) ==
  Received(IF since81 THEN <<Fill(AtMultiViewerInfo, {"count"}),
                             Mix(AtMultiViewerInfo, {"windowCount"})>>
           ELSE <<Put(AtMultiViewerInfo, MultiviewerInfo)>>, {AtMultiViewerInfo})
MixEffectBlockConfigCommand(me) ==
  Received(<<Put(<<"info", "mixEffects", Ix(me)>>, {"keyCount"})>>, {<<"info", "mixEffects">>})
SuperSourceConfigCommand(ssrc) ==
  Received(<<Put(<<"info", "superSources", Ix(ssrc)>>, {"boxCount"})>>, {<<"info", "superSources">>})
\* The mixers start afresh with their configuration.
AudioMixerConfigCommand ==
  Received(<<Put(<<"info", "audioMixer">>, AudioMixerInfo), Drop(<<"audio">>),
             Put(<<"audio">>, {"numberOfChannels", "hasMonitor"})>>,
           {<<"info", "audioMixer">>, <<"audio">>})
FairlightAudioMixerConfigCommand ==
  Received(<<Put(<<"info", "fairlightMixer">>, FairlightAudioMixerInfo),
             Reset(<<"fairlight">>, {"inputs"})>>,
           {<<"info", "fairlightMixer">>, <<"fairlight", "inputs">>})
MacroPoolConfigCommand == PutAt(<<"info", "macroPool">>, {"macroCount"})
MediaPoolConfigCommand == PutAt(<<"info", "mediaPool">>, MediaPoolInfo)
VideoMixerConfigCommand ==
  Received(<<Mix(AtInfo, {"supportedVideoModes"})>>, {AtInfo \o <<"supportedVideoModes">>})
InitCompleteCommand == Received(<<>>, {AtInfo})

-----------------------------------------------------------------------------
(* Time, startup state and the tally, which is announced and not kept.       *)
TimeCommand == Received(<<>>, {})
TimeRequestCommand == Trigger
TimeConfigCommand == BasicWritableCommand(<<"settings">>, {"timeMode"})
TimeConfigUpdateCommand ==
  Received(<<Mix(<<"settings">>, {"timeMode"})>>, {<<"settings", "timeMode">>})
StartupStateSaveCommand == Trigger
StartupStateClearCommand == Trigger
TallyBySourceCommand == Received(<<>>, {})

-----------------------------------------------------------------------------
(* Settings: the video mode, the media pool and the multiviewers, of which a *)
(* window is there once its source was told.                                 *)
VideoModeCommand == BasicWritableCommand(<<"settings">>, {"videoMode"})
VideoModeUpdateCommand ==
  Received(<<Mix(<<"settings">>, {"videoMode"})>>, {<<"settings", "videoMode">>})
MediaPoolSettingsSetCommand == BasicWritableCommand(<<"settings", "mediaPool">>, {"maxFrames"})
MediaPoolSettingsGetCommand == PutAt(<<"settings", "mediaPool">>, {"maxFrames", "unassignedFrames"})

OfMultiViewer(mv, steps, at) ==
  Received(<<Need(AtMultiViewerInfo \o <<"count">>, mv), Make(AtMultiViewer(mv), {"index"})>>
             \o steps, {at})
MultiViewerField(mv, name) ==
  OfMultiViewer(mv, <<Mix(AtMultiViewer(mv), {name})>>, AtMultiViewer(mv) \o <<name>>)
MultiViewerPart(mv, part, names) ==
  OfMultiViewer(mv, <<Put(AtMultiViewer(mv) \o <<part>>, names)>>, AtMultiViewer(mv) \o <<part>>)
WindowField(mv, window, name) ==
  OfMultiViewer(mv, <<Exists(AtWindow(mv, window)), Mix(AtWindow(mv, window), {name})>>,
                AtWindow(mv, window) \o <<name>>)

MultiViewerPropertiesCommand(mv) ==
  WritableCommand(AtMultiViewer(mv) \o <<"properties">>, MultiViewerPropertiesState)
MultiViewerPropertiesUpdateCommand(mv) ==
  MultiViewerPart(mv, "properties", MultiViewerPropertiesState)
\* The commands that go both ways are named once for each way.
MultiViewerBorderColorCommand(mv) ==
  BasicWritableCommand(AtMultiViewer(mv) \o <<"borderColor">>, MultiViewerBorderColorState)
MultiViewerBorderColorUpdate(mv) == MultiViewerPart(mv, "borderColor", MultiViewerBorderColorState)
MultiViewerVuOpacityCommand(mv) == BasicWritableCommand(AtMultiViewer(mv), {"vuOpacity"})
MultiViewerVuOpacityUpdate(mv) == MultiViewerField(mv, "vuOpacity")
MultiViewerSourceCommand(mv, window) == BasicWritableCommand(AtWindow(mv, window), {"source"})
\* The path is left out when nothing changed, which changes nothing.
MultiViewerSourceUpdateCommand(mv, window) ==
  OfMultiViewer(mv, <<Mix(AtWindow(mv, window), MultiViewerSourceState)>>, AtWindow(mv, window))
MultiViewerWindowOverlayPropertiesCommand(mv, window) ==
  WritableCommand(AtWindow(mv, window) \o <<"overlayProperties">>,
                  MultiViewerWindowOverlayPropertiesState)
MultiViewerWindowOverlayPropertiesUpdateCommand(mv, window) ==
  OfMultiViewer(mv, <<Exists(AtWindow(mv, window)),
                      Put(AtWindow(mv, window) \o <<"overlayProperties">>,
                          MultiViewerWindowOverlayPropertiesState)>>,
                AtWindow(mv, window) \o <<"overlayProperties">>)
MultiViewerWindowSafeAreaCommand(mv, window) ==
  BasicWritableCommand(AtWindow(mv, window), {"safeTitle"})
MultiViewerWindowSafeAreaUpdate(mv, window) == WindowField(mv, window, "safeTitle")
MultiViewerWindowOverlaySafeAreaPatternCommand(mv, window) ==
  BasicWritableCommand(AtWindow(mv, window), {"safeTitlePattern"})
MultiViewerWindowOverlaySafeAreaPatternUpdate(mv, window) ==
  WindowField(mv, window, "safeTitlePattern")
MultiViewerWindowVuMeterCommand(mv, window) ==
  BasicWritableCommand(AtWindow(mv, window), {"audioMeter"})
MultiViewerWindowVuMeterUpdateCommand(mv, window) == WindowField(mv, window, "audioMeter")

-----------------------------------------------------------------------------
(* Media: players, stills and clips; frames and clips have no check.         *)
OfPlayer(player, told) ==
  Received(<<Need(AtCapabilities \o <<"mediaPlayers">>, player),
             Fill(AtPlayer(player), MediaPlayer \cup MediaPlayerSource),
             Mix(AtPlayer(player), told)>>, {AtPlayer(player)})
MediaPlayerSourceCommand(player) == WritableCommand(AtPlayer(player), MediaPlayerSource)
MediaPlayerSourceUpdateCommand(player) == OfPlayer(player, MediaPlayerSource)
MediaPlayerStatusCommand(player) == WritableCommand(AtPlayer(player), MediaPlayer)
MediaPlayerStatusUpdateCommand(player) == OfPlayer(player, MediaPlayer)
MediaPoolClipDescriptionCommand(clip) ==
  Received(<<Mix(AtClip(clip), ClipBank)>>, {AtClip(clip)})
\* Pool 0 holds the stills, pools 1 and 2 the frames of the clips.
MediaPoolFrameDescriptionCommand(pool, frame) ==
  IF pool = 0 THEN PutAt(<<"media", "stillPool", Ix(frame)>>, StillFrame)
  ELSE IF pool < 3
       THEN Received(<<Make(AtClip(pool - 1), ClipBank),
                       Put(AtClip(pool - 1) \o <<"frames", Ix(frame)>>, StillFrame)>>,
                     {AtClip(pool - 1) \o <<"frames", Ix(frame)>>})
       ELSE Received(<<>>, {})
MediaPoolSetClipCommand == Trigger
MediaPoolClearClipCommand(clip) == Trigger
MediaPoolClearStillCommand(still) == Trigger
MediaPoolCaptureStillCommand == Trigger

-----------------------------------------------------------------------------
(* Macros.                                                                   *)
MacroPropertiesUpdateCommand(n) ==
  PutAt(<<"macro", "macroProperties", Ix(n)>>, MacroPropertiesState)
MacroPropertiesCommand(n) ==
  WritableCommand(<<"macro", "macroProperties", Ix(n)>>, {"name", "description"})
MacroRunStatusUpdateCommand == PutAt(<<"macro", "macroPlayer">>, MacroPlayerState)
MacroRunStatusCommand == WritableCommand(<<"macro", "macroPlayer">>, {"loop"})
MacroRecordingStatusCommand ==
  Received(<<Mix(<<"macro", "macroRecorder">>, MacroRecorderState)>>, {<<"macro", "macroRecorder">>})
MacroRecordCommand(n) == Trigger
MacroActionCommand(n) == Trigger
MacroAddTimedPauseCommand == Trigger

-----------------------------------------------------------------------------
(* Recording: the settings open the object the others need.                  *)
OfRecording(steps, part) == Received(<<Exists(AtRecording)>> \o steps, {AtRecording \o <<part>>})
RecordingPart(part, names) == OfRecording(<<Put(AtRecording \o <<part>>, names)>>, part)
RecordingSettingsCommand ==
  WritableCommand(AtRecording \o <<"properties">>, RecordingStateProperties)
RecordingSettingsUpdateCommand == PutAt(AtRecording \o <<"properties">>, RecordingStateProperties)
RecordingStatusCommand == Trigger
RecordingStatusUpdateCommand == RecordingPart("status", RecordingStateStatus)
RecordingRequestDurationCommand == Trigger
RecordingDurationUpdateCommand == RecordingPart("duration", Timecode)
RecordingISOCommand == BasicWritableCommand(AtRecording, {"recordAllInputs"})
RecordingISOUpdate == OfRecording(<<Mix(AtRecording, {"recordAllInputs"})>>, "recordAllInputs")
RecordingRequestSwitchDiskCommand == Trigger
\* What is said of a disk is the duration of the recording.
RecordingDiskInfoUpdateCommand(disk, isDelete) ==
  OfRecording(IF isDelete THEN <<Drop(AtRecording \o <<"disks", Ix(disk)>>)>>
              ELSE <<Put(AtRecording \o <<"disks", Ix(disk)>>, RecordingDiskProperties)>>,
              "duration")

-----------------------------------------------------------------------------
(* Streaming: likewise, with the service.                                    *)
StreamingPart(part, names) ==
  Received(<<Exists(AtStreaming), Put(AtStreaming \o <<part>>, names)>>, {AtStreaming \o <<part>>})
StreamingServiceCommand ==
  WritableCommand(AtStreaming \o <<"service">>, StreamingServiceProperties)
StreamingServiceUpdateCommand == PutAt(AtStreaming \o <<"service">>, StreamingServiceProperties)
StreamingStatusCommand == Trigger
StreamingStatusUpdateCommand == StreamingPart("status", StreamingStateStatus)
StreamingStatsUpdateCommand == StreamingPart("stats", StreamingStateStats)
StreamingRequestDurationCommand == Trigger
StreamingDurationUpdateCommand == StreamingPart("duration", Timecode)
StreamingAudioBitratesCommand ==
  BasicWritableCommand(AtStreaming \o <<"audioBitrates">>, StreamingAudioBitrates)
StreamingAudioBitratesUpdate == StreamingPart("audioBitrates", StreamingAudioBitrates)

-----------------------------------------------------------------------------
(* Data transfers and locks: DataTransfers and MediaPool model what they do. *)
LockStateUpdateCommand == Received(<<>>, {})
LockObtainedCommand == Received(<<>>, {})
DataTransferUploadContinueCommand == Received(<<>>, {})
DataTransferDataCommand == Received(<<>>, {})
DataTransferCompleteCommand == Received(<<>>, {})
DataTransferErrorCommand == Received(<<>>, {})
=============================================================================
