----------------------------- MODULE QMIServices -----------------------------
(***************************************************************************)
(* The smaller QMI services in the notation of QMIWire: the phonebook      *)
(* (qcom/pbm.go), the position determination service (pds.go), OMA device  *)
(* management (oma.go), the sensor core (ssc.go), the control service      *)
(* (control.go), the list of supported messages (capabilities.go), and     *)
(* persistent device configuration (pdc.go, pdc_management.go). Most       *)
(* operations of the last answer twice, the indication carrying the token  *)
(* of the request; PDCOperation models the tokens and the indications that *)
(* come too late. A definition has the name of the Go type or function it  *)
(* translates.                                                             *)
(***************************************************************************)
EXTENDS QMIWire, TLC

pdsNMEAMaxLength == 200
pdsURLMaxLength == 255
MaxQRTRServiceTLVLength == 65535 - 6 - 7

(***************************************************************************)
(* Phonebook. pbmValueReader is a cursor whose first failed read is an     *)
(* error that finish returns: every read tests the room it needs.          *)
(***************************************************************************)
pbmValueReader_bytes(k) == <<Room(k), Take(k)>>
pbmValueReader_uint8 == <<Room(1), Count(0, 1), Take(1)>>
pbmValueReader_string8 == pbmValueReader_uint8 \o <<RoomN(0, 1), TakeN(0, 1)>>
pbmValueReader_finish == <<End>>
decodePBMArray(entry) ==
  pbmValueReader_uint8 \o <<Each(entry)>> \o pbmValueReader_finish

validatePBMSessionType == Check
PBMIndicationRegisterRequest == <<Put(\h01, U32)>>
PBMGetCapabilitiesRequest == <<validatePBMSessionType, Check, Put(\h01, <<Raw(3)>>)>>
PBMGetAllCapabilitiesRequest == <<>>
PBMGetEmergencyListRequest == <<>>

PBMIndicationRegisterResponse == <<Only(\h10, Fixed(4))>>
decodePBMPhonebookCapability == pbmValueReader_bytes(8)
decodePBMSingleBasicCapabilities ==
  <<Exactly(9)>> \o pbmValueReader_bytes(1) \o decodePBMPhonebookCapability
    \o pbmValueReader_finish
decodePBMBasicCapabilityArray ==
  decodePBMArray(pbmValueReader_bytes(1) \o pbmValueReader_uint8
                   \o <<Each(decodePBMPhonebookCapability)>>)
PBMAlphaStringCapability_UnmarshalBinary == Fixed(3)
PBMAlphaStringCapability_MarshalBinary == <<Raw(3)>>
PBMCapabilities ==
  <<May(\h10, decodePBMSingleBasicCapabilities), May(\h11, Fixed(2)), May(\h12, Fixed(3)),
    May(\h13, Fixed(2)), May(\h14, Fixed(1)), May(\h15, Fixed(1)),
    May(\h16, PBMAlphaStringCapability_UnmarshalBinary),
    May(\h17, PBMAlphaStringCapability_UnmarshalBinary)>>
decodePBMSessionAlphaStringArray == decodePBMArray(pbmValueReader_bytes(4))
PBMAllCapabilities ==
  LET array(id, k) == May(id, decodePBMArray(pbmValueReader_bytes(k)))
  IN  <<May(\h10, decodePBMBasicCapabilityArray), array(\h11, 3), array(\h12, 4),
        array(\h13, 3), array(\h14, 2), array(\h15, 2),
        May(\h16, decodePBMSessionAlphaStringArray),
        May(\h17, decodePBMSessionAlphaStringArray)>>
decodePBMStringArray == decodePBMArray(pbmValueReader_string8)
decodePBMSessionEmergencyNumbers ==
  decodePBMArray(pbmValueReader_bytes(1) \o pbmValueReader_uint8
                   \o <<Each(pbmValueReader_bytes(1) \o pbmValueReader_string8)>>)
PBMEmergencyList ==
  Mays(<<\h10, \h11>>, decodePBMStringArray)
    \o Mays(<<\h12, \h13>>, decodePBMSessionEmergencyNumbers)

pbmRequest(puts, rules) == Ask(puts, rules)
PBMClientCalls ==
  [PBMSetIndicationRegistration |->
     pbmRequest(<<Check>> \o PBMIndicationRegisterRequest, PBMIndicationRegisterResponse),
   PBMCapabilities |-> pbmRequest(PBMGetCapabilitiesRequest, PBMCapabilities),
   PBMAllCapabilities |-> pbmRequest(PBMGetAllCapabilitiesRequest, PBMAllCapabilities),
   PBMEmergencyList |-> pbmRequest(PBMGetEmergencyListRequest, PBMEmergencyList)]
\* An encoder that no method of the client uses.
PBMTypes ==
  [PBMAlphaStringCapability |-> Tell(<<Put(\h16, PBMAlphaStringCapability_MarshalBinary)>>)]

(***************************************************************************)
(* Position determination.                                                 *)
(***************************************************************************)
validatePDSTrackingOperatingMode == Check
validatePDSNetworkMode == Vet
PDSAGPSServer_MarshalBinary == <<Vet, Raw(8)>>
PDSAGPSServer_UnmarshalBinary == Fixed(8)
pdsEventReportTLVs == Opts([i \in 1 .. 20 |-> \h0F + i], Bool)

PDSResetRequest == <<>>
PDSSetEventReportRequest == pdsEventReportTLVs
PDSGetGPSServiceStateRequest == <<>>
PDSSetGPSServiceStateRequest == <<Put(\h01, Bool)>>
PDSGetDefaultTrackingSessionRequest == <<>>
PDSSetDefaultTrackingSessionRequest ==
  <<validatePDSTrackingOperatingMode, Put(\h01, <<Raw(10)>>)>>
PDSGetAGPSConfigRequest == <<Put(\h12, <<validatePDSNetworkMode, Raw(1)>>)>>
PDSSetAGPSConfigRequest ==
  <<Opt(\h10, PDSAGPSServer_MarshalBinary), Opt(\h11, <<Pre(1, 1, pdsURLMaxLength)>>),
    Opt(\h14, <<validatePDSNetworkMode, Raw(1)>>)>>
PDSGetAutoTrackingStateRequest == <<>>
PDSSetAutoTrackingStateRequest == <<Put(\h01, Bool)>>

PDSEvent ==
  <<May(\h10, <<AtMost(pdsNMEAMaxLength)>>), May(\h11, Array(3, 2, 1, pdsNMEAMaxLength)),
    May(\h12, Fixed(1))>>
PDSGetGPSServiceStateResponse == <<Must(\h01, Fixed(2))>>
PDSGetDefaultTrackingSessionResponse == <<Must(\h01, Fixed(10))>>
PDSGetAGPSConfigResponse ==
  <<May(\h10, PDSAGPSServer_UnmarshalBinary), May(\h11, Array(1, 1, 1, NoMax))>>
PDSGetAutoTrackingStateResponse == <<Must(\h01, Fixed(1))>>

pdsRequest(puts, rules) == Ask(puts, rules)
setPDSEvents == <<Put(\h10, Bool), Put(\h11, Bool)>>
acquirePDSEvents == Maybe(Tell(setPDSEvents))
releasePDSEvents == Maybe(Cleanup(setPDSEvents))
PDSSettingCalls ==
  [PDSSetEventReport |-> pdsRequest(PDSSetEventReportRequest, <<>>),
   PDSReset |-> pdsRequest(PDSResetRequest, <<>>),
   PDSGPSServiceState |->
     pdsRequest(PDSGetGPSServiceStateRequest, PDSGetGPSServiceStateResponse),
   PDSSetGPSServiceState |-> pdsRequest(PDSSetGPSServiceStateRequest, <<>>),
   PDSDefaultTrackingSession |->
     pdsRequest(PDSGetDefaultTrackingSessionRequest, PDSGetDefaultTrackingSessionResponse),
   PDSSetDefaultTrackingSession |-> pdsRequest(PDSSetDefaultTrackingSessionRequest, <<>>),
   PDSAGPSConfig |-> pdsRequest(PDSGetAGPSConfigRequest, PDSGetAGPSConfigResponse),
   PDSSetAGPSConfig |-> pdsRequest(PDSSetAGPSConfigRequest, <<>>),
   PDSAutoTrackingState |->
     pdsRequest(PDSGetAutoTrackingStateRequest, PDSGetAutoTrackingStateResponse),
   PDSSetAutoTrackingState |-> pdsRequest(PDSSetAutoTrackingStateRequest, <<>>)]
PDSWatchCalls ==
  [PDSWatchEvents |-> acquirePDSEvents \o Watch(PDSEvent, "stop") \o releasePDSEvents,
   PDSWatchGPSReady |-> Watch(<<>>, "stop")]

(***************************************************************************)
(* OMA device management.                                                  *)
(***************************************************************************)
validateOMASessionType == Check
OMANetworkInitiatedAlert_UnmarshalBinary == Fixed(3)
OMANetworkInitiatedAlert_MarshalBinary == <<Raw(3)>>
OMAResetRequest == <<>>
OMASetEventReportRequest == Opts(<<\h10, \h11>>, Bool)
OMAStartSessionRequest == <<validateOMASessionType, Put(\h10, U8)>>
OMACancelSessionRequest == <<>>
OMAGetSessionInfoRequest == <<>>
OMASendSelectionRequest == <<Put(\h10, <<Raw(3)>>)>>
OMAGetFeatureSettingsRequest == <<>>
OMASetFeatureSettingsRequest == Opts(<<\h10, \h11, \h12>>, Bool)
OMAEvent ==
  <<May(\h10, OMANetworkInitiatedAlert_UnmarshalBinary)>> \o Mays(<<\h11, \h12>>, Fixed(1))
OMASessionInfo ==
  <<Must(\h10, Fixed(2)), May(\h11, Fixed(1)), May(\h12, Fixed(5)),
    May(\h13, OMANetworkInitiatedAlert_UnmarshalBinary)>>
OMAFeatureSettings == Mays(<<\h10, \h11, \h12, \h13>>, Fixed(1))

omaRequest(puts, rules) == Ask(puts, rules)
setOMAEvents == <<Put(\h10, Bool), Put(\h11, Bool)>>
acquireOMAEvents == Maybe(Tell(setOMAEvents))
releaseOMAEvents == Maybe(Cleanup(setOMAEvents))
OMAClientCalls ==
  [OMAReset |-> omaRequest(OMAResetRequest, <<>>),
   OMASetEventReport |-> omaRequest(OMASetEventReportRequest, <<>>),
   OMAStartSession |-> omaRequest(OMAStartSessionRequest, <<>>),
   OMACancelSession |-> omaRequest(OMACancelSessionRequest, <<>>),
   OMASessionInfo |-> omaRequest(OMAGetSessionInfoRequest, OMASessionInfo),
   OMASendSelection |-> omaRequest(OMASendSelectionRequest, <<>>),
   OMAFeatureSettings |-> omaRequest(OMAGetFeatureSettingsRequest, OMAFeatureSettings),
   OMASetFeatureSettings |-> omaRequest(OMASetFeatureSettingsRequest, <<>>),
   OMAWatchEvents |-> acquireOMAEvents \o Watch(OMAEvent, "stop") \o releaseOMAEvents]
\* An encoder that no method of the client uses.
OMATypes ==
  [OMANetworkInitiatedAlert |-> Tell(<<Put(\h10, OMANetworkInitiatedAlert_MarshalBinary)>>)]

(***************************************************************************)
(* Sensor core, control service and supported messages.                    *)
(***************************************************************************)
SSCControlRequest ==
  <<Put(\h01, <<Pre(2, 1, MaxQRTRServiceTLVLength - 9)>>), Opt(\h10, <<Vet, Raw(1)>>)>>
SSCControlResponse == <<May(\h10, Fixed(8)), May(\h11, Fixed(4))>>
\* Both values are fetched before either is decoded.
SSCReport == <<Must(\h01, Fixed(8)), Must(\h02, Array(2, 2, 1, NoMax))>>
SSCControl == [SSCControl |-> Ask(SSCControlRequest, SSCControlResponse)]
\* A report that does not decode is passed on with its error.
WatchSSCReports == [WatchSSCReports |-> Watch(SSCReport, "skip")]

ctlRequest(puts, rules) == Ask(puts, rules)
CTLClientCalls ==
  [CTLSetInstanceID |-> ctlRequest(<<Put(\h01, U8)>>, <<Must(\h01, Fixed(2))>>),
   CTLSetDataFormat |->
     ctlRequest(<<Check, Put(\h01, U8), Opt(\h10, U16)>>, <<Must(\h10, Fixed(2))>>),
   CTLSync |-> ctlRequest(<<>>, <<>>),
   CTLWatchSync |-> Watch(<<>>, "stop")]
InternalOpenRequest == <<Put(\h01, <<Free(NoMax)>>)>>
AllocateClientIDRequest == <<Put(\h01, U8)>>
AllocateClientIDResponse == <<Must(\h01, <<Room(2), Peek(2)>>)>>
ReleaseClientIDRequest == <<Put(\h01, <<Raw(2)>>)>>
ReleaseClientIDResponse == <<Must(\h01, <<Room(2), Peek(2)>>)>>
\* The exchanges of QMITransport's proxy and of its client ID allocation.
ControlCalls ==
  [InternalOpen |-> Tell(InternalOpenRequest),
   AllocateClientID |-> Ask(AllocateClientIDRequest, AllocateClientIDResponse),
   ReleaseClientID |-> Ask(ReleaseClientIDRequest, ReleaseClientIDResponse)]

ServiceSupportedMessages ==
  [ServiceSupportedMessages |-> Ask(<<Check>>, <<Must(\h10, Array(2, 2, 1, NoMax))>>)]

ServicesCalls ==
  PBMClientCalls @@ PBMTypes @@ PDSSettingCalls @@ PDSWatchCalls @@ OMAClientCalls @@ OMATypes
    @@ SSCControl @@ WatchSSCReports @@ CTLClientCalls @@ ControlCalls
    @@ ServiceSupportedMessages

(***************************************************************************)
(* Persistent device configuration.                                        *)
(***************************************************************************)
pdcConfigIDMax == 124
pdcConfigDescriptionMax == 255
pdcConfigHeaderMax == 255
pdcConfigPathMax == 255
pdcConfigListMax == 25
pdcLoadFrameMax == 32768
pdcLoadChunkSize == 1024

(***************************************************************************)
(* Configurations and their identifiers.                                   *)
(***************************************************************************)
validatePDCConfigurationType == Vet
PDCConfig_MarshalBinary ==
  <<validatePDCConfigurationType, Raw(4), Pre(1, 1, pdcConfigIDMax)>>
PDCConfig_UnmarshalBinary ==
  <<Room(5), Peek(4), Judged, Count(4, 1), Top(pdcConfigIDMax), ExactlyN(5, 1), PeekN(5, 1)>>
decodePDCConfigID == Array(1, 1, 1, NoMax) \o <<Top(pdcConfigIDMax)>>
\* Each entry is sliced out by its own length and decoded as a PDCConfig.
decodePDCConfigList ==
  <<Room(1), Count(0, 1), Take(1), Top(pdcConfigListMax),
    Each(<<Room(5), Count(4, 1), RoomN(5, 1), Judged, Top(pdcConfigIDMax), TakeN(5, 1)>>),
    End>>
decodePDCUint32(id) == May(id, Fixed(4))
decodePDCUint64(id) == May(id, Fixed(8))
decodePDCBool(id) == May(id, Fixed(1) \o <<Judged>>)
pdcUTF16_MarshalBinary == <<Vet, Pre(0, 2, pdcConfigPathMax)>>
pdcUTF16_UnmarshalBinary ==
  <<Whole(2), Top(pdcConfigPathMax), PeekN(0, 2), Judged>>
validatePDCRequiredConfig == Check
validatePDCStorage == Vet

(***************************************************************************)
(* Indications: an error code, the token and the outcome.                  *)
(***************************************************************************)
decodePDCIndicationToken == May(\h10, Fixed(4))
PDCIndicationResult == <<Must(\h01, Fixed(2)), decodePDCIndicationToken>>
PDCIndicationResult_Err == Judge
PDCOperationIndication == PDCIndicationResult
PDCGetSelectedConfigIndication ==
  PDCIndicationResult \o <<May(\h11, decodePDCConfigID), May(\h12, decodePDCConfigID)>>
PDCListConfigsIndication ==
  PDCIndicationResult \o <<May(\h11, decodePDCConfigList), May(\h12, Fixed(1))>>
PDCGetConfigInfoIndication ==
  PDCIndicationResult
    \o <<decodePDCUint32(\h11), May(\h12, Array(1, 1, 1, NoMax)), decodePDCUint32(\h13),
         decodePDCUint32(\h14), May(\h15, pdcUTF16_UnmarshalBinary), decodePDCUint32(\h16),
         May(\h17, Array(1, 1, 1, NoMax))>>
PDCRefreshIndication == <<Must(\h01, Fixed(4)), decodePDCUint32(\h10), decodePDCUint32(\h11)>>
PDCConfigChangeIndication == <<Must(\h01, PDCConfig_UnmarshalBinary)>>
PDCLoadConfigIndication ==
  PDCIndicationResult \o <<decodePDCUint32(\h11), decodePDCUint32(\h12), decodePDCBool(\h13)>>
PDCGetConfigLimitsIndication ==
  PDCIndicationResult \o <<decodePDCUint64(\h11), decodePDCUint64(\h12)>>
PDCGetDefaultConfigInfoIndication ==
  PDCIndicationResult
    \o <<decodePDCUint32(\h11), decodePDCUint32(\h12), May(\h13, Array(1, 1, 1, NoMax))>>

(***************************************************************************)
(* Requests.                                                               *)
(***************************************************************************)
PDCRegisterRequest == <<Put(\h10, Bool), Opt(\h11, Bool)>>
PDCGetSelectedConfigRequest ==
  <<Put(\h01, <<validatePDCConfigurationType, Raw(4)>>)>> \o Opts(<<\h10, \h11, \h12>>, U32)
PDCSetSelectedConfigRequest ==
  <<Put(\h01, PDCConfig_MarshalBinary)>> \o Opts(<<\h10, \h11, \h12>>, U32)
PDCListConfigsRequest ==
  <<Check, Opt(\h10, U32), Put(\h11, U32), Opt(\h12, Bool)>>
PDCActivateConfigRequest ==
  <<Put(\h01, <<validatePDCConfigurationType, Raw(4)>>), Opt(\h10, U32),
    Opt(\h11, <<Vet, Raw(4)>>), Opt(\h12, U32), Opt(\h13, U32)>>
PDCGetConfigInfoRequest == <<Put(\h01, PDCConfig_MarshalBinary), Opt(\h10, U32)>>
PDCResetRequest == <<>>
\* The length of the identifier is tested before the type and the token.
PDCDeleteConfigRequest ==
  <<Check, Put(\h01, U32), Opt(\h10, U32), Opt(\h11, <<Within(1, 1, pdcConfigIDMax)>>)>>
encodePDCLoadFrame ==
  <<Vet, validatePDCConfigurationType, Raw(4), Pre(1, 1, pdcConfigIDMax), Raw(4),
    Within(2, 1, pdcLoadFrameMax)>>
PDCLoadConfigRequest ==
  <<Put(\h01, encodePDCLoadFrame), Opt(\h10, U32), Opt(\h11, <<validatePDCStorage, Raw(4)>>)>>
pdcTypeAndTokenTLVs ==
  <<Put(\h01, <<validatePDCConfigurationType, Raw(4)>>), Opt(\h10, U32)>>
PDCGetConfigLimitsRequest == pdcTypeAndTokenTLVs
PDCGetDefaultConfigInfoRequest == pdcTypeAndTokenTLVs
PDCDeactivateConfigRequest == pdcTypeAndTokenTLVs \o <<Opt(\h11, U32)>>
PDCLoadConfigResponse == <<decodePDCBool(\h10)>>

(***************************************************************************)
(* The client.                                                             *)
(***************************************************************************)
waitPDCIndication(rules) == Await(rules)
\* The token is decoded while waiting, the rest by the caller; Err() last.
pdcSingleIndication(puts, rules) ==
  Tell(puts) \o waitPDCIndication(<<decodePDCIndicationToken>> \o rules)
    \o PDCIndicationResult_Err
syncPDCIndications == <<Put(\h10, Bool), Put(\h11, Bool)>>
acquirePDCIndication == Maybe(Tell(syncPDCIndications))
releasePDCIndication == Maybe(Cleanup(syncPDCIndications))
PDCRegister == [PDCRegister |-> Tell(PDCRegisterRequest)]
PDCSelectionCalls ==
  [PDCSelectedConfiguration |->
     pdcSingleIndication(PDCGetSelectedConfigRequest, PDCGetSelectedConfigIndication),
   PDCSelectConfiguration |->
     pdcSingleIndication(PDCSetSelectedConfigRequest, PDCOperationIndication),
   PDCActivateConfiguration |->
     pdcSingleIndication(PDCActivateConfigRequest, PDCOperationIndication),
   PDCConfigurationInfo |->
     pdcSingleIndication(PDCGetConfigInfoRequest, PDCGetConfigInfoIndication)]
\* A modem without configurations never indicates: the list is then empty.
PDCConfigurations ==
  LET page == Await(PDCListConfigsIndication) \o PDCIndicationResult_Err
  IN  [PDCConfigurations |->
         Tell(PDCListConfigsRequest) \o Maybe(page \o Again(page))]
PDCWatchCalls ==
  [PDCWatchRefresh |->
     acquirePDCIndication \o Watch(PDCRefreshIndication, "stop") \o releasePDCIndication,
   PDCWatchConfigChanges |->
     acquirePDCIndication \o Watch(PDCConfigChangeIndication, "stop")
       \o releasePDCIndication]
PDCResetCalls ==
  [PDCReset |-> Tell(PDCResetRequest),
   PDCDeleteConfiguration |->
     pdcSingleIndication(<<validatePDCRequiredConfig>> \o PDCDeleteConfigRequest,
                         PDCOperationIndication)]
\* One frame after another, each accepted by the response and acknowledged by
\* the indication with the bytes that remain.
pdcLoadConfiguration ==
  LET frame == Ask(PDCLoadConfigRequest, PDCLoadConfigResponse) \o Judge
                 \o waitPDCIndication(<<decodePDCIndicationToken>> \o PDCLoadConfigIndication)
                 \o PDCIndicationResult_Err
  IN  [PDCLoadConfiguration |-> frame \o Again(frame)]
PDCInfoCalls ==
  [PDCConfigurationLimits |->
     pdcSingleIndication(PDCGetConfigLimitsRequest, PDCGetConfigLimitsIndication),
   PDCDefaultConfigurationInfo |->
     pdcSingleIndication(PDCGetDefaultConfigInfoRequest, PDCGetDefaultConfigInfoIndication),
   PDCDeactivateConfiguration |->
     pdcSingleIndication(PDCDeactivateConfigRequest, PDCOperationIndication)]
\* An encoder that no method of the client uses.
PDCTypes == [pdcUTF16 |-> Tell(<<Put(\h15, pdcUTF16_MarshalBinary)>>)]

PDCCalls ==
  PDCRegister @@ PDCSelectionCalls @@ PDCConfigurations @@ PDCWatchCalls @@ PDCResetCalls
    @@ pdcLoadConfiguration @@ PDCInfoCalls @@ PDCTypes
=============================================================================
