-------------------------------- MODULE QMIUIM --------------------------------
(***************************************************************************)
(* The QMI user identity module service (qcom/file.go, pin.go, status.go,  *)
(* slot.go, power.go, authenticate.go, atr.go, logical_channel.go,         *)
(* monitor.go, uim_config.go) and the card application toolkit (cat.go,    *)
(* cat_claim.go, cat_stk.go) in the notation of QMIWire. A definition has  *)
(* the name of the Go type or function it translates.                      *)
(***************************************************************************)
EXTENDS QMIWire, TLC

uimAIDMaxLength == 32
uimPathMaxLength == 10
uimPINMax == 8
uimControlKeyMax == 16
uimPersonalizationMax == 20
uimOtherSlotsMax == 5
uimRemoteUnlockDataExtMax == 4096
uimRefreshFilesMax == 100
maxRecordContentLength == 255
maxTransparentContentLength == 4096
maxAuthenticateFieldLength == 255
maxLogicalChannelSelectResponseLength == 1024
maxAPDUDataLength == 1024
catTerminalResponseMaxLength == 255
catTerminalProfileMaxLength == 80
catRawEnvelopeMaxLength == 258

(***************************************************************************)
(* What every message of the service is made of.                           *)
(***************************************************************************)
qmiLength8Bytes == Array(1, 1, 1, NoMax)
qmiLength16Bytes == Array(2, 2, 1, NoMax)
validateUIMAIDLength == Check
\* Mutant: the length of the AID is not tested.
putSessionValueUntested == <<Raw(1), Pre(1, 1, NoMax)>>

putSessionValue == <<Raw(1), Pre(1, 1, uimAIDMaxLength)>>
splitFilePath == Vet
putFileValue == <<splitFilePath, Raw(2), Pre(1, 1, uimPathMaxLength)>>
cardErrorAt(id) == May(id, Fixed(2) \o <<Judged>>)
cardError == cardErrorAt(\h10)
\* The card's answer comes in an indication, which no caller waits for.
answeredLater(id) == May(id, <<Refused>>)

\* payloadReader is a cursor whose first failed read is an error that Err and
\* Done return: every read tests the room it needs.
payloadReader_Bytes(k) == <<Room(k), Take(k)>>
payloadReader_Uint8 == <<Room(1), Count(0, 1), Take(1)>>
payloadReader_Uint16 == <<Room(2), Count(0, 2), Take(2)>>
payloadReader_Bytes8 == payloadReader_Uint8 \o <<RoomN(0, 1), TakeN(0, 1)>>
payloadReader_Done == <<End>>

(***************************************************************************)
(* Files.                                                                  *)
(***************************************************************************)
UIMFileSecurity_UnmarshalBinary == Fixed(3)
UIMFileSecurity_MarshalBinary == <<Raw(3)>>
\* The five security records are slices of three bytes each.
RawFileAttributes_UnmarshalBinary ==
  <<Room(26), Peek(24), Count(24, 2), ExactlyN(26, 1), PeekN(26, 1)>>
RawFileAttributes_MarshalBinary ==
  <<Raw(9)>> \o UIMFileSecurity_MarshalBinary \o <<Raw(12), Pre(2, 1, 65535)>>
FileAttributes == <<Must(\h11, RawFileAttributes_UnmarshalBinary)>>
sessionAndFile == <<Put(\h01, putSessionValue), Put(\h02, putFileValue)>>

fileAttributesResponse(rules) ==
  Ask(sessionAndFile, <<cardError, answeredLater(\h12)>> \o rules)
transparentResponse(rules) ==
  Ask(sessionAndFile \o <<Put(\h03, <<Raw(4)>>), Opt(\h11, U8)>>,
      <<answeredLater(\h12), cardError>> \o rules)
recordResponse(rules) ==
  Ask(sessionAndFile \o <<Put(\h03, <<Raw(4)>>), Opt(\h10, U16)>>,
      <<answeredLater(\h13), cardError>> \o rules)
FileAttributesCall == [FileAttributes |-> fileAttributesResponse(FileAttributes)]
\* Without a length, the length of the file is asked for first.
ReadTransparentResult ==
  [ReadTransparentResult |->
     Maybe(fileAttributesResponse(FileAttributes) \o Judge)
       \o transparentResponse(<<Must(\h11, qmiLength16Bytes), May(\h13, Fixed(1))>>)]
\* The records after the first come in one value, a whole number of them.
ReadRecords ==
  [ReadRecords |->
     Judge \o Maybe(fileAttributesResponse(FileAttributes) \o Judge)
       \o recordResponse(<<Must(\h11, qmiLength16Bytes), Verdict, Only(\h12, qmiLength16Bytes),
                           Verdict>>)]
WriteRecord ==
  [WriteRecord |->
     Ask(<<Check>> \o sessionAndFile
           \o <<Put(\h03, <<Raw(2), Within(2, 1, maxRecordContentLength)>>)>>,
         <<answeredLater(\h11), cardError>>)]
WriteTransparent ==
  [WriteTransparent |->
     Ask(<<Check>> \o sessionAndFile
           \o <<Put(\h03, <<Raw(2), Within(2, 1, maxTransparentContentLength)>>)>>,
         <<answeredLater(\h11), cardError>>)]
\* An encoder that no method of the client uses.
FileTypes == [RawFileAttributes |-> Tell(<<Put(\h11, RawFileAttributes_MarshalBinary)>>)]

(***************************************************************************)
(* PINs. The retries left are decoded even from a failure, whose own error *)
(* is then returned.                                                       *)
(***************************************************************************)
validatePINReference == Check
validatePINValue == Check
PINOperationResult == <<May(\h10, Fixed(2)), May(\h11, Array(1, 1, 1, NoMax))>>
pinOperation(puts) ==
  ResultPreferred(puts, PINOperationResult \o <<answeredLater(\h12), cardErrorAt(\h13)>>)
pinValue(parts, key) ==
  <<validatePINReference, validatePINValue, Put(\h01, putSessionValue), Put(\h02, parts),
    Opt(key, U8)>>
SetPINProtection ==
  [SetPINProtection |-> pinOperation(pinValue(<<Raw(2), Within(1, 1, uimPINMax)>>, \h10))]
VerifyPIN == [VerifyPIN |-> pinOperation(pinValue(<<Raw(1), Within(1, 1, uimPINMax)>>, \h11))]
UnblockPIN ==
  [UnblockPIN |->
     pinOperation(pinValue(<<Raw(1), Within(1, 1, uimPINMax), Within(1, 1, uimPINMax)>>, \h10))]
ChangePIN ==
  [ChangePIN |->
     pinOperation(pinValue(<<Raw(1), Within(1, 1, uimPINMax), Within(1, 1, uimPINMax)>>, \h10))]

(***************************************************************************)
(* Status, slots and power.                                                *)
(***************************************************************************)
\* There are as many entries as slots, or the value is refused.
decodeSlotInformation ==
  payloadReader_Uint8 \o <<Judged>>
    \o <<Each(payloadReader_Bytes(5) \o payloadReader_Bytes8 \o payloadReader_Bytes(1))>>
    \o payloadReader_Done
SlotStatus ==
  <<Must(\h10, payloadReader_Uint8
                 \o <<Each(payloadReader_Bytes(9) \o payloadReader_Bytes8)>>
                 \o payloadReader_Done),
    May(\h11, decodeSlotInformation)>>
CardStatus ==
  LET application == payloadReader_Bytes(6) \o payloadReader_Bytes8 \o payloadReader_Bytes(7)
      card == payloadReader_Bytes(5) \o payloadReader_Uint8 \o <<Each(application)>>
  IN  <<Must(\h10, payloadReader_Bytes(8) \o payloadReader_Uint8 \o <<Each(card)>>
                     \o payloadReader_Done)>>
SwitchSlot == <<Put(\h01, U8), Put(\h02, U32)>>
\* Polls that fail, or that find the slot not ready yet, are repeated.
pollSlotActivation(check) == Again(Cleanup(<<>>)) \o check
waitForSlotMapping == pollSlotActivation(Ask(<<>>, SlotStatus) \o Judge)
waitForCardReady == pollSlotActivation(Ask(<<>>, CardStatus))
\* A modem without slots (NotSupported) has the one slot active, and a switch
\* to the slot that is active already (NoEffect) has succeeded.
ActivateSlot ==
  [ActivateSlot |->
     Tolerating(<<>>, SlotStatus)
       \o Maybe(Judge \o Tolerating(SwitchSlot, <<>>) \o waitForSlotMapping \o waitForCardReady)]
SlotStatusCalls ==
  [SlotStatus |-> Ask(<<>>, SlotStatus), SwitchSlot |-> Tell(SwitchSlot)]
CardStatusCall == [CardStatus |-> Ask(<<>>, CardStatus)]
PowerCalls ==
  [Reset |-> Tell(<<>>),
   PowerOffSIM |-> Tell(<<Check, Put(\h01, U8)>>),
   PowerOnSIM |-> Tell(<<Check, Put(\h01, U8), Opt(\h10, U8)>>),
   ChangeProvisioningSession |->
     Tell(<<validateUIMAIDLength, Put(\h01, <<Raw(2)>>),
            Opt(\h10, <<Raw(1), Within(1, 1, uimAIDMaxLength)>>)>>)]

(***************************************************************************)
(* Authentication, logical channels and configuration.                     *)
(***************************************************************************)
AuthenticateRequest_MarshalBinary ==
  <<Raw(3), Pre(1, 1, maxAuthenticateFieldLength), Pre(1, 1, maxAuthenticateFieldLength)>>
AuthenticateRequest_UnmarshalBinary ==
  <<Room(3), Count(1, 2), ExactlyN(3, 1), Take(3),
    Room(1), Count(0, 1), Take(1), RoomN(1, 1), TakeN(0, 1),
    Count(0, 1), Take(1), ExactlyN(0, 1)>>
authenticateResponse(rules) ==
  Ask(<<Put(\h01, putSessionValue), Put(\h02, AuthenticateRequest_MarshalBinary)>>,
      <<cardError>> \o rules)
Authenticate == [Authenticate |-> authenticateResponse(<<Must(\h11, qmiLength16Bytes)>>)]
ATR == [ATR |-> Ask(<<Put(\h01, U8)>>, <<Must(\h10, qmiLength8Bytes)>>)]

OpenLogicalChannelRequest_MarshalBinary == <<Pre(1, 1, uimAIDMaxLength)>>
OpenLogicalChannelRequest_UnmarshalBinary == qmiLength8Bytes \o <<Top(uimAIDMaxLength)>>
OpenLogicalChannelResponse_UnmarshalBinary == Fixed(1)
OpenLogicalChannelWithConfig ==
  [OpenLogicalChannelWithConfig |->
     Ask(<<Opt(\h10, OpenLogicalChannelRequest_MarshalBinary), Put(\h01, U8),
           Opt(\h11, <<Vet, Raw(1)>>)>>,
         <<cardErrorAt(\h11), Must(\h10, OpenLogicalChannelResponse_UnmarshalBinary),
           First(\h12, qmiLength8Bytes),
           May(\h13, qmiLength16Bytes \o <<Top(maxLogicalChannelSelectResponseLength)>>)>>)]
CloseLogicalChannelRequest_MarshalBinary == <<Raw(1)>>
CloseLogicalChannelRequest_UnmarshalBinary == Fixed(1)
CloseLogicalChannelResponse_UnmarshalBinary == Fixed(0)
CloseLogicalChannel ==
  [CloseLogicalChannel |->
     Ask(<<Put(\h01, U8), Put(\h11, CloseLogicalChannelRequest_MarshalBinary)>>, <<cardError>>)]
SendAPDURequest_MarshalBinary == <<Pre(2, 1, maxAPDUDataLength)>>
SendAPDURequest_UnmarshalBinary == qmiLength16Bytes \o <<Top(maxAPDUDataLength)>>
SendAPDUResponse_UnmarshalBinary == qmiLength16Bytes \o <<Top(maxAPDUDataLength)>>
\* Without a response there is a reason for it, but the call fails anyway.
SendAPDUWithOptions ==
  [SendAPDUWithOptions |->
     Ask(<<Put(\h10, U8), Put(\h02, SendAPDURequest_MarshalBinary), Put(\h01, U8),
           Opt(\h11, <<Vet, Raw(1)>>)>>,
         <<Must(\h10, SendAPDUResponse_UnmarshalBinary)>>)]
\* Decoders of requests, which no method of the client uses.
ChannelTypes ==
  [AuthenticateRequest |->
     Watch(<<Must(\h02, AuthenticateRequest_UnmarshalBinary)>>, "stop"),
   OpenLogicalChannelRequest |->
     Watch(<<Must(\h10, OpenLogicalChannelRequest_UnmarshalBinary)>>, "stop"),
   CloseLogicalChannelRequest |->
     Watch(<<Must(\h11, CloseLogicalChannelRequest_UnmarshalBinary)>>, "stop"),
   CloseLogicalChannelResponse |->
     Watch(<<Must(\h10, CloseLogicalChannelResponse_UnmarshalBinary)>>, "stop"),
   SendAPDURequest |-> Watch(<<Must(\h02, SendAPDURequest_UnmarshalBinary)>>, "stop"),
   UIMFileSecurity |-> Watch(<<Must(\h11, UIMFileSecurity_UnmarshalBinary)>>, "stop")]

decodeUIMConfigurationBool == Fixed(1)
decodeUIMPersonalizationStatuses == Array(1, 1, 3, uimPersonalizationMax)
\* Each slot's statuses are sliced out by their own count and decoded.
decodeUIMOtherSlotsPersonalization ==
  <<Room(1), Count(0, 1), Top(uimOtherSlotsMax), Take(1),
    Each(<<Room(1), Count(0, 1), Top(uimPersonalizationMax), RoomN(1, 3), TakeN(1, 3)>>), End>>
UIMConfiguration ==
  <<May(\h10, decodeUIMConfigurationBool), May(\h11, decodeUIMPersonalizationStatuses),
    May(\h12, decodeUIMConfigurationBool), May(\h13, decodeUIMOtherSlotsPersonalization)>>
validateUIMControlKey == Check
UIMDepersonalizationResult == <<Only(\h10, Fixed(2))>>
UIMConfigurationCalls ==
  [UIMConfiguration |-> Ask(<<Opt(\h10, U32)>>, UIMConfiguration),
   Depersonalize |->
     ResultPreferred(<<Check, validateUIMControlKey,
                       Put(\h01, <<Raw(2), Within(1, 1, uimControlKeyMax)>>), Put(\h10, U8)>>,
                     UIMDepersonalizationResult),
   RemoteUnlock |->
     LET data == <<Within(2, 1, uimRemoteUnlockDataExtMax)>>
     IN  Tell(<<Check, Cases({<<Put(\h10, data)>>, <<Put(\h12, data)>>})>>)]

(***************************************************************************)
(* Watching the card.                                                      *)
(***************************************************************************)
registerEventsTLVs == <<Put(\h01, U32)>>
acquireUIMEvents == Maybe(Tell(registerEventsTLVs))
releaseUIMEvents == Maybe(Cleanup(registerEventsTLVs))
UIMStatusWatches ==
  [WatchCardStatus |-> acquireUIMEvents \o Watch(CardStatus, "stop") \o releaseUIMEvents,
   WatchSlotStatus |-> acquireUIMEvents \o Watch(SlotStatus, "stop") \o releaseUIMEvents]
refreshOKTLVs == <<Put(\h01, putSessionValue), Put(\h02, Bool)>>
refreshCompleteTLVs == <<Put(\h01, putSessionValue), Put(\h02, Bool)>>
encodeRefreshRegisterInfo ==
  <<Raw(2), splitFilePath, Vet, Pre(2, 3 + uimPathMaxLength, uimRefreshFilesMax)>>
refreshRegisterTLVs == <<Put(\h01, putSessionValue), Put(\h02, encodeRefreshRegisterInfo)>>
refreshRegisterAllTLVs == <<Put(\h01, putSessionValue), Put(\h02, Bool)>>
joinQMIFilePath == Judged
\* Bytes after the last file are left alone.
RefreshEvent ==
  <<Must(\h10, payloadReader_Bytes(3) \o payloadReader_Bytes8 \o payloadReader_Uint16
                 \o <<Each(payloadReader_Bytes(2) \o payloadReader_Bytes8
                             \o <<joinQMIFilePath>>)>>)>>
\* The stages that wait for an answer get one, and a failed one is the end.
forwardRefreshEvents ==
  LET events == Watch(RefreshEvent, "stop")
  IN  events \o Again(Either({Cleanup(refreshOKTLVs), Cleanup(refreshCompleteTLVs)}) \o events)
acquireRefreshWatcher == Judge
RefreshWatches ==
  [WatchRefreshFiles |->
     Judge \o acquireRefreshWatcher \o Tell(refreshRegisterTLVs) \o forwardRefreshEvents
       \o Cleanup(refreshRegisterTLVs),
   WatchRefreshAll |->
     Judge \o acquireRefreshWatcher \o Tell(refreshRegisterAllTLVs) \o forwardRefreshEvents
       \o Cleanup(refreshRegisterAllTLVs)]

(***************************************************************************)
(* The card application toolkit.                                           *)
(***************************************************************************)
CATCommand_MarshalBinary == <<Raw(4), Pre(2, 1, 65535)>>

CATCommand_UnmarshalBinary ==
  <<Room(6), Peek(4), Count(4, 2), RoomN(6, 1), ExactlyN(6, 1), PeekN(6, 1)>>
isRawCATCommandTLV ==
  <<\h10, \h11, \h12, \h13, \h14, \h17, \h18, \h47, \h48, \h49, \h4A, \h4B, \h4C, \h4D, \h4E,
    \h4F, \h51, \h52, \h53, \h54, \h66, \h6A>>
CATCommand ==
  Mays(isRawCATCommandTLV, CATCommand_UnmarshalBinary) \o <<May(\h68, Fixed(4)), Verdict>>
\* A mask that is too short counts as absent.
CATServiceState ==
  LET mask(id, k) == May(id, <<IfRoom(k, <<Peek(k)>>, <<>>)>>)
  IN  <<mask(\h01, 8), mask(\h10, 8), mask(\h11, 4)>>
eventReportErrorMask(id) == May(id, Fixed(4))
checkEventReportRegistration ==
  <<eventReportErrorMask(\h10), eventReportErrorMask(\h12), Verdict>>
eventReportTLVs == <<Put(\h10, U32), Put(\h12, U8), Opt(\h13, U32)>>
setEventReport == DecodeFirst(eventReportTLVs, checkEventReportRegistration)
trySetEventReport == DecodeFirst(eventReportTLVs, checkEventReportRegistration)
releaseCATClient == Maybe(Cleanup(<<Put(\h01, <<Raw(2)>>)>>))
\* The event reports of another client are taken over: a first attempt fails,
\* each candidate is asked for its masks, and the owner's client ID is released.
ForceClaimEvents ==
  LET attempt == Cleanup(eventReportTLVs)
      probe == Cleanup(<<>>)
      releaseOwner == Tolerating(<<Put(\h01, <<Raw(2)>>)>>, <<>>)
  IN  Judge
        \o Maybe(attempt \o Ask(<<>>, CATServiceState) \o Judge
                   \o Again(probe \o Maybe(releaseOwner \o attempt)) \o probe \o releaseOwner)
        \o trySetEventReport
commands(claim) == claim \o Watch(CATCommand, "stop") \o releaseCATClient
CATCommandCalls ==
  [Commands |-> commands(setEventReport), ForceClaimCommands |-> commands(ForceClaimEvents)]
CATConfiguration ==
  <<Must(\h10, <<Room(1), Peek(1)>>),
    May(\h11, <<Room(1), Count(0, 1), RoomN(1, 1), PeekN(1, 1)>>)>>
setConfiguration ==
  <<Check, Put(\h01, U8), Opt(\h10, <<Within(1, 1, catTerminalProfileMaxLength)>>)>>
CATConfigurationCalls ==
  [Configuration |-> Ask(<<>>, CATConfiguration), SetConfiguration |-> Tell(setConfiguration)]
EnvelopeResponse == <<Must(\h10, <<Room(3), Count(2, 1), RoomN(3, 1), PeekN(3, 1)>>)>>
sendCATEnvelope ==
  Ask(<<Check, Put(\h01, <<Raw(2), Within(2, 1, catRawEnvelopeMaxLength)>>), Put(\h10, U8)>>,
      EnvelopeResponse)
cachedCommandTLV == {\h10, \h11, \h12}
CATClientCalls ==
  [TerminalResponse |->
     Tell(<<Check, Put(\h01, <<Raw(4), Within(2, 1, catTerminalResponseMaxLength)>>),
            Put(\h10, U8)>>),
   EventConfirmation |-> Tell(<<Put(\h12, U8), Opt(\h10, Bool), Opt(\h11, Bool)>>),
   Envelope |-> sendCATEnvelope,
   TerminalProfile |-> Ask(<<Put(\h10, U8)>>, <<Must(\h10, Array(1, 1, 1, NoMax))>>),
   CachedProactiveCommand |->
     Either({Ask(<<Check, Put(\h01, U32), Put(\h10, U8)>>,
                 <<Must(id, CATCommand_UnmarshalBinary)>>) : id \in cachedCommandTLV})]
CATServiceStateCall == [ServiceState |-> Ask(<<>>, CATServiceState)]
ServiceVersionList ==
  <<Must(\h01, <<Room(1), Count(0, 1), Take(1), RoomN(0, 5), PeekN(0, 5)>>)>>
ServiceVersions == [ServiceVersions |-> Ask(<<>>, ServiceVersionList)]
\* An encoder that no method of the client uses.
CATTypes == [CATCommand |-> Tell(<<Put(\h10, CATCommand_MarshalBinary)>>)]

UIMCalls ==
  FileAttributesCall @@ ReadTransparentResult @@ ReadRecords @@ WriteRecord @@ WriteTransparent
    @@ FileTypes @@ SetPINProtection @@ VerifyPIN @@ UnblockPIN @@ ChangePIN @@ ActivateSlot
    @@ SlotStatusCalls @@ CardStatusCall @@ PowerCalls @@ Authenticate @@ ATR @@ OpenLogicalChannelWithConfig
    @@ CloseLogicalChannel @@ SendAPDUWithOptions @@ ChannelTypes @@ UIMConfigurationCalls
    @@ UIMStatusWatches @@ RefreshWatches
CATCalls ==
  CATCommandCalls @@ CATConfigurationCalls @@ CATClientCalls @@ CATServiceStateCall
    @@ ServiceVersions @@ CATTypes
=============================================================================
