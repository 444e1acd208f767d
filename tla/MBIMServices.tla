---------------------------- MODULE MBIMServices ----------------------------
(***************************************************************************)
(* The other services of the mbim package (sms.go, ussd.go, phonebook.go,  *)
(* stk.go, auth.go, dss.go, uicc.go, file.go, ms_sar.go,                   *)
(* ms_voice_extensions.go, firmware_id.go, host_shutdown.go, proxy.go), the*)
(* IMS connection (ims.go) and the messages of the transport (mbim.go,     *)
(* protocol.go), in the notation of MBIMWire. A definition has the name of *)
(* the Go type or function it translates; v is the negotiated MBIMEx       *)
(* version.                                                                *)
(***************************************************************************)
EXTENDS MBIMExtensions

emptyResponse_UnmarshalBinary == <<End>>

(***************************************************************************)
(* Short messages.                                                         *)
(***************************************************************************)
validateSMSFilter == Check
SMSConfigurationRequest == Nothing
SMSConfigurationSetRequest == Send(<<Structure(12, Words({0}), <<4>>)>>)
\* Nothing is read of a storage that is not initialized.
SMSConfigurationInfo_UnmarshalBinary ==
  <<Room(24), Peek(4), Judged,
    OneOf({<<>>, <<Peek(8), Judged, Ref(16), Valid(24), Judged, Str, Peek(16)>>})>>
SMSReadRequest == Send(<<Raw(4), Raw(4), Raw(4)>>)
SMSPDURecord_UnmarshalBinary ==
  <<Room(16), Ref(8), Valid(16), Judged, Peek(8), Judged, Bytes>>
smsCDMATimestampLength == 20
\* Absent, or 20 characters with or without a NUL behind them.
parseSMSCDMATimestamp ==
  <<OneOf({<<End>>, <<Exactly(smsCDMATimestampLength), Peek(smsCDMATimestampLength), Judged>>,
           <<Exactly(smsCDMATimestampLength + 1), Peek(smsCDMATimestampLength + 1), Judged>>})>>
SMSCDMARecord_UnmarshalBinary ==
  <<Room(44), Peek(32), Judged>> \o Refs(<<8, 16, 32>>)
    \o <<Judged, Valid(44), Judged, Str, Inner(parseSMSCDMATimestamp), Bytes, Peek(44)>>
SMSReadInfo_UnmarshalBinary ==
  <<Room(8), Peek(8), Count(4, 4)>> \o offsetSizeRefs(8)
    \o <<OneOf({<<Each(<<Inner(SMSPDURecord_UnmarshalBinary)>>)>>,
                <<Each(<<Inner(SMSCDMARecord_UnmarshalBinary)>>)>>, <<Refused>>})>>
\* The offsets are from the beginning of the message, after the format.
marshalSMSSendPDU == <<Structure(8, {}, <<0>>)>>
marshalSMSSendCDMA == <<Structure(28, Words({0, 4, 24}), <<8, 16>>)>>
SMSSendRequest(message) == Send(message) \o Send(<<Raw(4), Free(NoMax)>>)
SMSSendInfo_UnmarshalBinary == Fixed(4) \o <<Judged>>
SMSDeleteRequest == Send(<<Raw(4), Raw(4)>>)
SMSStoreStatusRequest == Nothing
SMSStoreStatusInfo_UnmarshalBinary == Fixed(8) \o <<Judged>>
SMSCalls ==
  [SMSConfiguration |-> Query(SMSConfigurationRequest, SMSConfigurationInfo_UnmarshalBinary),
   SetSMSConfiguration |->
     Query(<<Check>> \o SMSConfigurationSetRequest, SMSConfigurationInfo_UnmarshalBinary),
   ReadSMS |-> Query(<<Check, validateSMSFilter>> \o SMSReadRequest, SMSReadInfo_UnmarshalBinary),
   SendSMSPDU |->
     Query(<<Check>> \o SMSSendRequest(marshalSMSSendPDU), SMSSendInfo_UnmarshalBinary),
   SendSMSCDMA |->
     Query(<<Check>> \o SMSSendRequest(marshalSMSSendCDMA), SMSSendInfo_UnmarshalBinary),
   DeleteSMS |-> Query(<<validateSMSFilter>> \o SMSDeleteRequest, emptyResponse_UnmarshalBinary),
   SMSStoreStatus |-> Query(SMSStoreStatusRequest, SMSStoreStatusInfo_UnmarshalBinary)]

(***************************************************************************)
(* USSD and the phonebook.                                                 *)
(***************************************************************************)
USSDRequest == Send(<<Structure(16, Words({0, 4}), <<8>>)>>)
USSDInfo_UnmarshalBinary ==
  <<Room(20), Peek(8), Judged, Ref(12), Valid(20), Judged, Peek(12), Bytes>>
USSDCall == [USSD |-> Query(<<Check>> \o USSDRequest, USSDInfo_UnmarshalBinary)]

validatePhonebookIndex == Check
validatePhonebookWriteIndex == Check
PhonebookConfigurationRequest == Nothing
PhonebookConfigurationInfo_UnmarshalBinary == Fixed(20) \o <<Judged>>
PhonebookReadRequest == Send(<<Raw(4), Raw(4)>>)
PhonebookEntry_UnmarshalBinary ==
  <<Room(20)>> \o Refs(<<4, 12>>) \o <<Valid(20), Judged, Str, Str, Peek(4)>>
PhonebookReadInfo_UnmarshalBinary == Table(4, 0, PhonebookEntry_UnmarshalBinary)
PhonebookDeleteRequest == Send(<<Raw(4), Raw(4)>>)
PhonebookWriteRequest == Send(<<Structure(24, Words({0, 4}), <<8, 16>>)>>)
PhonebookCalls ==
  [PhonebookConfiguration |->
     Query(PhonebookConfigurationRequest, PhonebookConfigurationInfo_UnmarshalBinary),
   ReadPhonebook |->
     Query(<<validatePhonebookIndex>> \o PhonebookReadRequest, PhonebookReadInfo_UnmarshalBinary),
   DeletePhonebook |->
     Query(<<validatePhonebookIndex>> \o PhonebookDeleteRequest, emptyResponse_UnmarshalBinary),
   WritePhonebook |->
     Query(<<validatePhonebookWriteIndex>> \o PhonebookWriteRequest,
           emptyResponse_UnmarshalBinary)]

(***************************************************************************)
(* The SIM toolkit. The envelopes the card supports are asked for once and *)
(* remembered, until the card is reset.                                    *)
(***************************************************************************)
stkPACHostControlLength == 32
stkPACSupportLength == 256
stkEnvelopeSupportLength == 32
STKPACQueryRequest == Nothing
STKPACSetRequest == Send(<<Raw(stkPACHostControlLength)>>)
STKPACInfo_UnmarshalBinary == Fixed(stkPACSupportLength) \o <<Judged>>
STKPAC_UnmarshalBinary == <<Room(4), Peek(4), Judged, Take(4)>>
STKTerminalResponseRequest == Send(<<Pre(4, 1, NoMax)>>)
STKTerminalResponseInfo_UnmarshalBinary ==
  <<Room(12)>> \o byteArrayRef(0, 12) \o <<Peek(12), Judged>>
STKEnvelopeQueryRequest == Nothing
STKEnvelopeInfo_UnmarshalBinary == Fixed(stkEnvelopeSupportLength)
STKEnvelopeRequest == Send(<<Free(NoMax)>>)
STKEnvelopeResponse_UnmarshalBinary == <<End>>
querySTKEnvelopeSupport == Query(STKEnvelopeQueryRequest, STKEnvelopeInfo_UnmarshalBinary)
envelopeSupportInfo == Maybe(querySTKEnvelopeSupport)
\* Both watches: WatchSTKPAC passes the values of WatchSTKPACResults on.
WatchSTKPACResults == watchDecoded(STKPAC_UnmarshalBinary)
STKCalls ==
  [QuerySTKPAC |-> Query(STKPACQueryRequest, STKPACInfo_UnmarshalBinary),
   SetSTKPAC |-> Query(<<Check>> \o STKPACSetRequest, STKPACInfo_UnmarshalBinary),
   ReadSTKPAC |-> NextIndication(STKPAC_UnmarshalBinary),
   WatchSTKPAC |-> WatchSTKPACResults,
   STKTerminalResponse |->
     Query(<<Check>> \o STKTerminalResponseRequest, STKTerminalResponseInfo_UnmarshalBinary),
   QuerySTKEnvelopeSupport |-> querySTKEnvelopeSupport,
   STKEnvelope |->
     Judge \o envelopeSupportInfo \o Judge
       \o Query(STKEnvelopeRequest, STKEnvelopeResponse_UnmarshalBinary)]

(***************************************************************************)
(* Authentication, and services with one command.                          *)
(***************************************************************************)
AuthAKAPRequest == Send(<<Structure(40, {<<0, 16>>, <<16, 16>>}, <<32>>)>>)
AuthSIMRequest == Send(<<Structure(52, {<<0, 16>>, <<16, 16>>, <<32, 16>>, <<48, 4>>}, <<>>)>>)
AuthAKARequest == Send(<<Raw(16), Raw(16)>>)
AuthAKAResponse_UnmarshalBinary == <<Exactly(66), Peek(20), Judged, Peek(16), Peek(66)>>
AuthAKAPResponse_UnmarshalBinary == AuthAKAResponse_UnmarshalBinary
AuthSIMResponse_UnmarshalBinary == Fixed(40) \o <<Judged>>
\* A synchronisation failure carries the response.
AuthCalls ==
  [AuthenticateAKAP |->
     Carrying(<<Check>> \o AuthAKAPRequest, AuthAKAPResponse_UnmarshalBinary),
   AuthenticateSIM |-> Query(<<Check>> \o AuthSIMRequest, AuthSIMResponse_UnmarshalBinary)]
AuthenticateAKACall ==
  [AuthenticateAKA |-> Carrying(<<Check>> \o AuthAKARequest, AuthAKAResponse_UnmarshalBinary)]

DSSConnectRequest == Send(<<Raw(16), Raw(4), Raw(4)>>)
SetDSSLinkStateCall ==
  [SetDSSLinkState |-> Query(<<Check>> \o DSSConnectRequest, emptyResponse_UnmarshalBinary)]
FirmwareIDRequest == Nothing
FirmwareID_UnmarshalBinary == Fixed(16)
FirmwareIDCall == [FirmwareID |-> Query(FirmwareIDRequest, FirmwareID_UnmarshalBinary)]
HostShutdownRequest == Nothing
HostShutdownResponse_UnmarshalBinary == <<End>>
NotifyHostShutdownCall ==
  [NotifyHostShutdown |-> Query(HostShutdownRequest, HostShutdownResponse_UnmarshalBinary)]

(***************************************************************************)
(* SAR, network time, and the proxy's version.                             *)
(***************************************************************************)
validateSARControlMode == Judged
validateSARBackoffState == Judged
validateSARWiFiHardwareState == Judged
validateTransmissionNotificationStatus == Judged
validateTransmissionState == Judged
SARConfigState_appendBinary == <<Raw(4), Raw(4)>>
SARConfigState_UnmarshalBinary == Fixed(8)
SARConfig_MarshalBinary == <<Check>>
SARConfig_marshalBinary ==
  Send(SARConfigState_appendBinary) \o Send(<<Raw(4), Raw(4), Raw(4), Elements>>)
SARConfigInfo_UnmarshalBinary ==
  <<Room(16), Peek(12), validateSARControlMode, validateSARBackoffState,
    validateSARWiFiHardwareState, Count(12, 4)>> \o offsetSizeRefs(16)
    \o <<Each(<<Inner(SARConfigState_UnmarshalBinary)>>)>>
SARConfigRequest == Nothing
SARConfigSetRequest == SARConfig_MarshalBinary \o SARConfig_marshalBinary
TransmissionStatusInfo_UnmarshalBinary ==
  Fixed(12) \o <<validateTransmissionNotificationStatus, validateTransmissionState>>
TransmissionStatusRequest == Nothing
TransmissionStatusSetRequest == Send(<<Raw(4), Raw(4)>>)
WatchTransmissionStatusResults == watchDecoded(TransmissionStatusInfo_UnmarshalBinary)
SARCalls ==
  [SARConfig |-> Query(SARConfigRequest, SARConfigInfo_UnmarshalBinary),
   SetSARConfig |->
     Query(SARConfig_MarshalBinary \o SARConfigSetRequest, SARConfigInfo_UnmarshalBinary),
   TransmissionStatus |-> Query(TransmissionStatusRequest, TransmissionStatusInfo_UnmarshalBinary),
   SetTransmissionStatus |->
     Query(<<Check>> \o TransmissionStatusSetRequest, TransmissionStatusInfo_UnmarshalBinary),
   ReadTransmissionStatus |-> NextIndication(TransmissionStatusInfo_UnmarshalBinary),
   WatchTransmissionStatus |-> WatchTransmissionStatusResults]

NITZInfo_UnmarshalBinary == Fixed(36) \o <<Judged>>
NITZRequest == Nothing
WatchNITZResults == watchDecoded(NITZInfo_UnmarshalBinary)
NITZCalls ==
  [NITZ |-> Query(NITZRequest, NITZInfo_UnmarshalBinary),
   ReadNITZ |-> NextIndication(NITZInfo_UnmarshalBinary),
   WatchNITZ |-> WatchNITZResults]

\* The path of the device is at the constant offset 12.
ProxyConfigRequest == Send(<<Raw(4), Raw(4), Raw(4), Here(12), Free(NoMax)>>)
ProxyConfigResponse_UnmarshalBinary == <<End>>
configureProxy == Query(ProxyConfigRequest, ProxyConfigResponse_UnmarshalBinary)
WatchProxyVersionResults == watchDecoded(VersionInfo_UnmarshalBinary)
ProxyCalls ==
  [configureProxy |-> configureProxy,
   ReadProxyVersion |-> NextIndication(VersionInfo_UnmarshalBinary),
   WatchProxyVersion |-> WatchProxyVersionResults]

(***************************************************************************)
(* Low level access to the card. From 4.0 on a request names the slot.     *)
(***************************************************************************)
validateUICCSlotID == Check
ForSlot(v) == IF v >= 4 THEN <<Raw(4)>> ELSE <<>>
SlotVersions == {1, 4}
uiccStatusError == Judge
\* readSizeOffsetRef: the size comes first.
uiccByteArrayRef(p, dataStart) == byteArrayRef(p, dataStart)
uiccRefHeader == <<Raw(4), Raw(4)>>

ApplicationListRequest == Nothing
UICCApplication_UnmarshalBinary ==
  <<Room(32), Peek(4), Judged>> \o Refs(<<4, 12, 24>>)
    \o <<Valid(32), Judged, Bytes, Judged, Peek(24), Judged, Bytes, Bytes>>
ApplicationListResponse_UnmarshalBinary ==
  <<Room(16), Peek(16), Judged, Count(4, 4), Judged>> \o offsetSizeRefs(16)
    \o <<Judged, Each(<<Inner(UICCApplication_UnmarshalBinary)>>)>>
UICCATRQueryRequest(v) == IF v >= 4 THEN Send(ForSlot(v)) ELSE Nothing
UICCATRResponse_UnmarshalBinary == uiccByteArrayRef(0, 8) \o <<Judged>>
OpenChannelRequest(v) ==
  LET appIDOffset == IF v >= 4 THEN 20 ELSE 16 IN
  Send(uiccRefHeader \o <<Raw(4), Raw(4)>> \o ForSlot(v) \o <<Here(appIDOffset), Free(NoMax)>>)
OpenChannelResponse_UnmarshalBinary ==
  <<Room(16), Peek(8), Judged>> \o uiccByteArrayRef(8, 16) \o <<Judged>>
CloseChannelRequest(v) == Send(<<Raw(4), Raw(4)>> \o ForSlot(v))
CloseChannelResponse_UnmarshalBinary == Fixed(4) \o <<Judged>>
APDURequest(v) ==
  LET commandOffset == IF v >= 4 THEN 24 ELSE 20 IN
  Send(<<Raw(4), Raw(4), Raw(4), Raw(4), Raw(4)>> \o ForSlot(v)
         \o <<Here(commandOffset), Free(NoMax)>>)
APDUResponse_UnmarshalBinary == <<Room(12), Peek(4), Judged>> \o uiccByteArrayRef(4, 12)
terminalCapabilityData == Send(<<Raw(4), Declared(4, AnySize)>>)
terminalCapabilityDataEx4 == Send(<<Raw(4), Raw(4), Declared(8, AnySize)>>)
UICCTerminalCapabilitySetRequest(v) ==
  IF v >= 4 THEN terminalCapabilityDataEx4 ELSE terminalCapabilityData
UICCTerminalCapabilityQueryRequest(v) == IF v >= 4 THEN Send(ForSlot(v)) ELSE Nothing
UICCTerminalCapabilityResponse_UnmarshalBinary ==
  <<Room(4), Count(0, 4)>> \o offsetSizeRefs(4) \o <<Each(<<Bytes>>)>>
UICCResetSetRequest(v) == Send(<<Raw(4)>> \o ForSlot(v))
UICCResetQueryRequest(v) == IF v >= 4 THEN Send(ForSlot(v)) ELSE Nothing
UICCResetResponse_UnmarshalBinary == Fixed(4) \o <<Judged>>
\* A call with a request that may name the slot.
ByVersion(call(_)) == Either({call(v) : v \in SlotVersions})
UICCCalls ==
  [ListApplications |-> Query(ApplicationListRequest, ApplicationListResponse_UnmarshalBinary),
   QueryUICCATR |->
     ByVersion(LAMBDA v : Query(<<validateUICCSlotID>> \o UICCATRQueryRequest(v),
                                UICCATRResponse_UnmarshalBinary)),
   OpenChannel |->
     ByVersion(LAMBDA v : Query(<<validateUICCSlotID, Check>> \o OpenChannelRequest(v),
                                OpenChannelResponse_UnmarshalBinary)) \o uiccStatusError \o Judge,
   TransmitAPDU |->
     ByVersion(LAMBDA v : Query(<<validateUICCSlotID, Check>> \o APDURequest(v),
                                APDUResponse_UnmarshalBinary)),
   SetUICCReset |->
     ByVersion(LAMBDA v : Query(<<validateUICCSlotID, Check>> \o UICCResetSetRequest(v),
                                UICCResetResponse_UnmarshalBinary)),
   QueryUICCReset |->
     ByVersion(LAMBDA v : Query(<<validateUICCSlotID>> \o UICCResetQueryRequest(v),
                                UICCResetResponse_UnmarshalBinary)),
   SetUICCTerminalCapability |->
     ByVersion(LAMBDA v : Tell(<<validateUICCSlotID>> \o UICCTerminalCapabilitySetRequest(v))),
   QueryUICCTerminalCapability |->
     ByVersion(LAMBDA v : Query(<<validateUICCSlotID>> \o UICCTerminalCapabilityQueryRequest(v),
                                UICCTerminalCapabilityResponse_UnmarshalBinary)),
   CloseChannel |->
     ByVersion(LAMBDA v : Query(<<validateUICCSlotID, Check>> \o CloseChannelRequest(v),
                                CloseChannelResponse_UnmarshalBinary)) \o uiccStatusError]

(***************************************************************************)
(* Files of the card.                                                      *)
(***************************************************************************)
cardStatusError == Judge
normalizeUICCFile == Check
\* References that are declared, and the values they refer to.
refHeader == <<Structure(20, {<<0, 4>>, <<4, 8>>, <<12, 8>>}, <<>>)>>
appendRefs(baseOffset) == <<Values(2, baseOffset)>>
FileStatusRequest == Send(refHeader \o appendRefs(20))
FileStatusResponse_UnmarshalBinary == Fixed(48) \o <<Judged>>
ReadBinaryRequest == Send(<<Structure(44, Words({0, 20, 24}), <<4, 12, 28, 36>>)>>)
ReadBinaryResponse_UnmarshalBinary ==
  <<Room(20), Peek(4), Judged>> \o byteArrayRef(12, 20) \o <<Judged, Peek(12)>>
ReadRecordRequest == Send(<<Structure(40, Words({0, 20}), <<4, 12, 24, 32>>)>>)
ReadRecordResponse_UnmarshalBinary ==
  <<Room(20), Peek(4), Judged>> \o byteArrayRef(12, 20) \o <<Judged, Peek(12)>>
FileAttributes ==
  Query(<<normalizeUICCFile>> \o FileStatusRequest, FileStatusResponse_UnmarshalBinary)
    \o cardStatusError
\* Without a length the attributes give one; there may be nothing to read.
ReadTransparent ==
  Maybe(FileAttributes \o Judge)
    \o Maybe(Query(<<normalizeUICCFile, Check>> \o ReadBinaryRequest,
                   ReadBinaryResponse_UnmarshalBinary) \o cardStatusError)
ReadRecord ==
  Judge \o FileAttributes \o Judge
    \o Query(<<normalizeUICCFile>> \o ReadRecordRequest, ReadRecordResponse_UnmarshalBinary)
    \o cardStatusError
FileCalls ==
  [FileAttributes |-> FileAttributes, ReadTransparent |-> ReadTransparent,
   ReadRecord |-> ReadRecord]

(***************************************************************************)
(* The IMS connection: the packet service is attached first, and a         *)
(* connection that turns out useless is closed again.                      *)
(***************************************************************************)
\* The ticks of a second go on until the state is final or the time is up.
waitPacketServiceAttached ==
  Again(PacketServiceCalls.PacketService) \o Either({<<>>, Fail})
ensurePacketServiceAttached ==
  PacketServiceCalls.PacketService
    \o Either({<<>>, waitPacketServiceAttached, Fail,
               PacketServiceCalls.SetPacketService \o Judge})
activate(v) == Carrying(ConnectRequest(v), ConnectInfo_UnmarshalBinary(v))
\* A context that is not active counts as closed.
IMSPDNSession_Close(v) ==
  Either({Carrying(ConnectRequest(v), ConnectInfo_UnmarshalBinary(v)),
          Accepting(ConnectRequest(v), ConnectInfo_UnmarshalBinary(v))})
CloseQuietly(v) == Cleanup(ConnectRequest(v))
OpenIMSPDN(v) ==
  Judge \o DeviceCaps \o Judge \o ensurePacketServiceAttached \o activate(v)
    \o Either({CloseQuietly(v) \o Fail, IPConfiguration,
               Cleanup(IPConfigurationRequest) \o CloseQuietly(v) \o Fail})
IMSCalls ==
  [OpenIMSPDN |-> ByVersion(OpenIMSPDN), CloseIMSPDN |-> ByVersion(IMSPDNSession_Close)]

(***************************************************************************)
(* Opening and closing the device, and the frames of the protocol.         *)
(***************************************************************************)
OpenDeviceRequest_MarshalBinary == <<Check>> \o Send(U32)
OpenDeviceResponse_UnmarshalBinary == <<End>>
CloseRequest_MarshalBinary == Nothing
CloseResponse_UnmarshalBinary == <<End>>
commandDoneHeader_UnmarshalBinary == <<Room(48), Peek(44), Judged>>
unmarshalStatusDone == <<Exactly(16), Peek(16), Judged>>
unmarshalCommandDone ==
  <<Room(48), Peek(44), Judged, Count(44, 4), ExactlyN(48, 1), PeekN(48, 1), Judged>>
unmarshalFunctionError == <<Exactly(16), Peek(16), Judged>>
CommandResponse_UnmarshalBinary ==
  <<Room(12), Peek(12), Judged,
    OneOf({unmarshalStatusDone, unmarshalCommandDone, unmarshalFunctionError, <<Refused>>})>>
Indication_UnmarshalBinary ==
  <<Room(44), Peek(40), Judged, Count(40, 4), ExactlyN(44, 1), PeekN(44, 1)>>
TransportCalls ==
  [openDevice |-> Query(OpenDeviceRequest_MarshalBinary, OpenDeviceResponse_UnmarshalBinary),
   closeDevice |-> Query(CloseRequest_MarshalBinary, CloseResponse_UnmarshalBinary)]
\* What the receiver decodes: one frame each.
FrameTypes ==
  [commandDoneHeader |-> NextIndication(commandDoneHeader_UnmarshalBinary),
   CommandResponse |-> NextIndication(CommandResponse_UnmarshalBinary),
   Indication |-> NextIndication(Indication_UnmarshalBinary)]

ServiceCalls ==
  SMSCalls @@ USSDCall @@ PhonebookCalls @@ STKCalls @@ AuthCalls @@ AuthenticateAKACall
    @@ SetDSSLinkStateCall
    @@ FirmwareIDCall @@ NotifyHostShutdownCall @@ SARCalls @@ NITZCalls @@ ProxyCalls
    @@ UICCCalls @@ FileCalls @@ IMSCalls @@ TransportCalls @@ FrameTypes

MBIMCalls == TLVTypeCalls @@ BasicConnectCalls @@ MBIMExtensionCalls @@ ServiceCalls
=============================================================================
