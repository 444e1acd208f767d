----------------------------- MODULE QMIDataPath -----------------------------
(***************************************************************************)
(* The QMI services around the data path (qcom/dsd*.go, dpm.go, qos.go,    *)
(* wda*.go, sar.go) in the notation of QMIWire: data system determination, *)
(* data ports, quality of service, the data format and the RF state. A     *)
(* definition has the name of the Go type or function it translates.       *)
(***************************************************************************)
EXTENDS QMIWire, TLC

dsdAvailableSystemMax == 15
dsdAPNMaxLength == 100
dpmPortMax == 32
dpmPortNameMax == 32
dataEndpointWireLength == 8

(***************************************************************************)
(* Data system determination (dsd.go, dsd_apn.go).                         *)
(***************************************************************************)
dsdResultRequest(puts) == Tell(puts)
dsdReadRequest(puts, rules) == Ask(puts, rules)
validDSDSubscription == Check
dsdUint32TLV(id) == May(id, Fixed(4))
DSDGetSystemStatusRequest == <<>>
DSDBindSubscriptionRequest == <<validDSDSubscription, Put(\h01, U32)>>
DSDGetBindSubscriptionRequest == <<>>
DSDIndicationRegisterRequest == <<Opt(\h18, Bool)>>
DSDSwitchDDSRequest == <<validDSDSubscription, Put(\h01, U32), Opt(\h10, <<Vet, Raw(4)>>)>>
DSDGetCurrentDDSRequest == <<>>
DSDBindSubscriptionResponse == <<dsdUint32TLV(\h10)>>
DSDGetCurrentDDSResponse == <<dsdUint32TLV(\h10), dsdUint32TLV(\h11)>>
DSDCurrentDDSIndication == <<Must(\h01, Fixed(4)), dsdUint32TLV(\h10)>>
DSDSwitchDDSIndication == <<Must(\h01, Fixed(4))>>
DSDSystemStatusChangeRequest == Opts(<<\h10, \h11, \h12, \h13>>, Bool)
DSDSystem_MarshalBinary == <<Raw(16)>>
DSDSystem_UnmarshalBinary == Fixed(16)
dsdSystems_MarshalBinary == <<Pre(1, 16, dsdAvailableSystemMax)>>
dsdSystems_UnmarshalBinary ==
  <<Room(1), Count(0, 1), Top(dsdAvailableSystemMax), Take(1), ExactlyN(0, 16), PeekN(0, 16)>>
DSDSystemStatus ==
  <<May(\h10, dsdSystems_UnmarshalBinary), May(\h12, Fixed(32)), May(\h14, Fixed(8))>>
DSDGetSystemStatusResponse == DSDSystemStatus
setDSDIndicationRegistration ==
  Cases({<<Put(\h11, Bool), Put(\h13, Bool)>>, <<Put(\h18, Bool)>>})
acquireDSDIndication == Maybe(dsdResultRequest(<<setDSDIndicationRegistration>>))
releaseDSDIndication == Maybe(Cleanup(<<setDSDIndicationRegistration>>))
DSDRequestCalls ==
  [DSDSystemStatus |-> Ask(DSDGetSystemStatusRequest, DSDGetSystemStatusResponse),
   DSDSetSystemStatusReport |-> dsdResultRequest(DSDSystemStatusChangeRequest),
   DSDBindSubscription |-> dsdResultRequest(DSDBindSubscriptionRequest),
   DSDBoundSubscription |->
     dsdReadRequest(DSDGetBindSubscriptionRequest, DSDBindSubscriptionResponse) \o Judge,
   DSDSetIndicationReport |-> dsdResultRequest(DSDIndicationRegisterRequest),
   DSDRequestSwitchDDS |-> dsdResultRequest(DSDSwitchDDSRequest),
   DSDSwitchDDS |-> Tell(DSDSwitchDDSRequest) \o Await(DSDSwitchDDSIndication),
   DSDCurrentDDS |-> dsdReadRequest(DSDGetCurrentDDSRequest, DSDGetCurrentDDSResponse)]
DSDWatchCalls ==
  [DSDWatchSystemStatus |->
     acquireDSDIndication \o Watch(DSDSystemStatus, "stop") \o releaseDSDIndication,
   DSDWatchCurrentDDS |->
     acquireDSDIndication \o Watch(DSDCurrentDDSIndication, "stop") \o releaseDSDIndication]
validateDSDAPNType == Check
validateDSDAPNTypePreference == Vet
validateDSDAPNName == <<Vet, Within(1, 1, dsdAPNMaxLength)>>
DSDAPNTypeConfig_MarshalBinary ==
  validateDSDAPNName \o <<validateDSDAPNTypePreference, Raw(8)>>
DSDGetAPNInfoRequest == <<validateDSDAPNType, Put(\h01, U32)>>
DSDSetAPNTypeRequest ==
  <<Put(\h01, DSDAPNTypeConfig_MarshalBinary), Opt(\h10, <<validateDSDAPNTypePreference, Raw(8)>>)>>
DSDGetAPNInfoResponse == <<Only(\h10, <<Judged, AtMost(dsdAPNMaxLength)>>)>>
DSDAPNCalls ==
  [DSDAPNInfo |-> Ask(DSDGetAPNInfoRequest, DSDGetAPNInfoResponse),
   DSDSetAPNType |-> dsdResultRequest(DSDSetAPNTypeRequest)]

(***************************************************************************)
(* Data ports (dpm.go).                                                    *)
(***************************************************************************)
dpmPortName == dpmPortNameMax
\* An item of the list has at most itemSize bytes; a name may be refused.
encodeDPMList(itemSize) == <<Pre(1, itemSize, dpmPortMax), Vet>>
DPMOpenPortConfig ==
  <<Check, Opt(\h10, encodeDPMList(1 + dpmPortName + dataEndpointWireLength)),
    Opt(\h11, encodeDPMList(dataEndpointWireLength + 8)),
    Opt(\h12, encodeDPMList(dataEndpointWireLength + 1 + dpmPortName)),
    Opt(\h13, encodeDPMList(dataEndpointWireLength + 12))>>
DPMClosePortConfig ==
  <<Check, Opt(\h10, encodeDPMList(1 + dpmPortName)),
    Opt(\h11, encodeDPMList(dataEndpointWireLength))>>
DPMOpenPortRequest == DPMOpenPortConfig
DPMClosePortRequest == DPMClosePortConfig
DPMGetCapabilitiesRequest == <<>>
DPMGetCapabilitiesResponse == Mays(<<\h10, \h11, \h12>>, Fixed(1) \o <<Judged>>)
DPMCalls ==
  [DPMOpenPort |-> Tell(DPMOpenPortRequest),
   DPMClosePort |-> Tell(DPMClosePortRequest),
   DPMCapabilities |-> Ask(DPMGetCapabilitiesRequest, DPMGetCapabilitiesResponse)]

(***************************************************************************)
(* Quality of service (qos.go).                                            *)
(***************************************************************************)
qosEmptyRequest == <<>>
qosResultRequest(puts) == Tell(puts)
QoSResetRequest == qosEmptyRequest
QoSGetFlowStatusRequest == <<Put(\h01, U32)>>
QoSGetFlowStatusResponse == <<Must(\h01, Fixed(1))>>
QoSFlowStatusIndication == <<Must(\h01, Fixed(6)), May(\h10, Fixed(1))>>
QoSGetNetworkStatusRequest == qosEmptyRequest
QoSGetNetworkStatusResponse == <<Must(\h01, Fixed(1))>>
QoSBindDataPortRequest ==
  <<Check, Cases({<<Put(\h10, <<Raw(dataEndpointWireLength)>>), Opt(\h11, U8)>>,
                  <<Put(\h11, U8)>>, <<Put(\h12, U16)>>})>>
validateQoSSubscription == Check
QoSBindSubscriptionRequest == <<validateQoSSubscription, Put(\h01, U32)>>
QoSGetBindSubscriptionRequest == qosEmptyRequest
QoSGetBindSubscriptionResponse == <<Only(\h10, Fixed(4))>>
QoSCalls ==
  [QoSReset |-> qosResultRequest(QoSResetRequest),
   QoSFlowStatus |-> Ask(QoSGetFlowStatusRequest, QoSGetFlowStatusResponse),
   QoSNetworkSupported |-> Ask(QoSGetNetworkStatusRequest, QoSGetNetworkStatusResponse),
   QoSBindDataPort |-> qosResultRequest(QoSBindDataPortRequest),
   QoSBindSubscription |-> qosResultRequest(QoSBindSubscriptionRequest),
   QoSBoundSubscription |->
     Ask(QoSGetBindSubscriptionRequest, QoSGetBindSubscriptionResponse) \o Judge]
QoSWatchCalls ==
  [QoSWatchFlowStatus |-> Watch(QoSFlowStatusIndication, "stop"),
   QoSWatchNetworkStatus |-> Watch(QoSGetNetworkStatusResponse, "stop")]

(***************************************************************************)
(* The data format (wda.go, wda_control.go).                               *)
(***************************************************************************)
wdaRequest(puts, rules) == Ask(puts, rules)
wdaEndpoint(id) == Opt(id, <<Raw(dataEndpointWireLength)>>)
decodeWDABool == Fixed(1) \o <<Judged>>
wdaUint32 == Fixed(4)
parseWDAUint32(id) == May(id, wdaUint32)
WDASetQMAPSettingsRequest == <<Opt(\h10, Bool), wdaEndpoint(\h11), Opt(\h12, Bool)>>
WDAGetQMAPSettingsRequest == <<wdaEndpoint(\h10)>>
WDAQMAPSettingsResponse == Mays(<<\h10, \h11>>, decodeWDABool)
WDAGetEthernetConfigRequest == <<>>
WDAEthernetConfigResponse == <<Only(\h10, Fixed(4))>>
WDASetDataFormatRequest ==
  <<Opt(\h10, Bool)>> \o Opts(<<\h11, \h12, \h13, \h14, \h15, \h16>>, U32)
    \o <<wdaEndpoint(\h17), Opt(\h18, U32), Opt(\h19, U32), Opt(\h1A, Bool)>>
WDAGetDataFormatRequest == <<wdaEndpoint(\h10)>>
WDADataFormatResponse ==
  <<May(\h10, Fixed(1))>>
    \o [i \in 1 .. 10 |-> parseWDAUint32(\h10 + i)]
    \o <<May(\h1B, Fixed(1))>>
WDAFormatCalls ==
  [WDADataFormat |-> Ask(<<>>, WDADataFormatResponse),
   WDADataFormatForEndpoint |-> Ask(WDAGetDataFormatRequest, WDADataFormatResponse),
   SetWDADataFormat |-> Ask(WDASetDataFormatRequest, WDADataFormatResponse),
   SetWDALinkLayerProtocol |-> Ask(<<Put(\h11, U32)>>, WDADataFormatResponse),
   WDAQMAPSettingsForEndpoint |->
     wdaRequest(WDAGetQMAPSettingsRequest, WDAQMAPSettingsResponse),
   SetWDAQMAPSettings |-> wdaRequest(WDASetQMAPSettingsRequest, WDAQMAPSettingsResponse),
   WDAEthernetHardwareConfig |->
     Ask(WDAGetEthernetConfigRequest, WDAEthernetConfigResponse) \o Judge]
WDASetLoopbackStateRequest == <<Put(\h01, Bool)>>
WDAGetLoopbackStateRequest == <<>>
WDALoopbackState_unmarshalTLVs(stateRule, replicationKind) ==
  <<stateRule, May(replicationKind, Fixed(4))>>
WDAGetLoopbackStateResponse ==
  WDALoopbackState_unmarshalTLVs(May(\h10, decodeWDABool), \h11)
WDALoopbackConfigIndication ==
  WDALoopbackState_unmarshalTLVs(Must(\h01, decodeWDABool), \h10)
WDASetLoopbackConfigRequest == <<Put(\h01, Bool), Opt(\h10, U32)>>
validateWDAPowersaveConfigMask == Vet
WDASetPowersaveConfigRequest ==
  <<Put(\h01, <<Raw(dataEndpointWireLength)>>),
    Opt(\h10, <<validateWDAPowersaveConfigMask, Raw(4)>>)>>
WDASetPowersaveConfigResponse == <<Only(\h10, Fixed(4) \o <<Judged>>)>>
WDASetPowersaveModeRequest == <<Put(\h01, Bool)>>
WDASetCapabilityRequest ==
  <<Put(\h01, <<Raw(dataEndpointWireLength)>>), Opt(\h10, <<Vet, Raw(4)>>), Opt(\h15, Bool)>>
WDASetCapabilityResponse == <<May(\h10, Fixed(4)), May(\h15, decodeWDABool)>>
WDASetCalls ==
  [WDASetLoopbackState |-> wdaRequest(WDASetLoopbackStateRequest, <<>>),
   WDAGetLoopbackState |->
     wdaRequest(WDAGetLoopbackStateRequest, WDAGetLoopbackStateResponse),
   WDASetPowersaveConfiguration |->
     wdaRequest(WDASetPowersaveConfigRequest, WDASetPowersaveConfigResponse),
   WDASetPowersaveMode |-> wdaRequest(WDASetPowersaveModeRequest, <<>>)]
WDALoopbackCalls ==
  [WDASetLoopbackConfiguration |-> wdaRequest(WDASetLoopbackConfigRequest, <<>>),
   WDAWatchLoopbackConfiguration |-> Watch(WDALoopbackConfigIndication, "stop"),
   WDASetCapabilities |-> wdaRequest(WDASetCapabilityRequest, WDASetCapabilityResponse)]

(***************************************************************************)
(* The RF state (sar.go).                                                  *)
(***************************************************************************)
sarRequest(puts, rules) == Ask(puts, rules)
SARSetRFStateRequest == <<Check, Put(\h01, U32)>>
SARGetRFStateRequest == <<>>
SARGetRFStateResponse == <<Must(\h10, Fixed(4))>>
SARCalls ==
  [SARRFState |-> sarRequest(SARGetRFStateRequest, SARGetRFStateResponse),
   SetSARRFState |-> sarRequest(SARSetRFStateRequest, <<>>)]

\* Codecs that no method of the client uses.
DataPathTypes ==
  [dsdSystems |-> Tell(<<Put(\h10, dsdSystems_MarshalBinary)>>),
   DSDSystem |-> Tell(<<Put(\h10, DSDSystem_MarshalBinary)>>)]

DataPathCalls ==
  DSDRequestCalls @@ DSDWatchCalls @@ DSDAPNCalls @@ DPMCalls @@ QoSCalls @@ QoSWatchCalls
    @@ WDAFormatCalls @@ WDASetCalls @@ WDALoopbackCalls @@ SARCalls @@ DataPathTypes
=============================================================================
