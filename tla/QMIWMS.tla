------------------------------- MODULE QMIWMS -------------------------------
(***************************************************************************)
(* The QMI wireless messaging service (qcom/wms*.go) in the notation of    *)
(* QMIWire: raw messages, storage, acknowledgements, routes, broadcast     *)
(* configuration and indications. A definition has the name of the Go type *)
(* or function it translates.                                              *)
(***************************************************************************)
EXTENDS QMIWire, TLC

wmsMessageLengthMax == 255
wmsBroadcastChannelMax == 50
wmsRouteMax == 10

wmsResultRequest(puts) == Tell(puts)
decodeWMSBool == Judged
wmsBool == Append(Fixed(1), decodeWMSBool)
validateWMSMessageMode == Check
wmsSingleByteResponse(kind) == Ask(<<>>, <<Must(kind, Fixed(1))>>)
wmsBoolResponse(kind) == wmsSingleByteResponse(kind) \o Judge

(***************************************************************************)
(* Values (wms.go).                                                        *)
(***************************************************************************)
WMSCDMAForceOnDC_MarshalBinary == <<Raw(2)>>
WMSCDMAForceOnDC_UnmarshalBinary == Fixed(2)
WMSGSMCauseInfo_MarshalBinary == <<Raw(3)>>
WMSGSMCauseInfo_UnmarshalBinary == Fixed(3)
WMSRejectCause_MarshalBinary == <<Raw(5)>>
WMSRejectCause_UnmarshalBinary == Fixed(5)
WMSACK3GPP2Failure_MarshalBinary == <<Raw(2)>>
WMSACK3GPP2Failure_UnmarshalBinary == Fixed(2)
WMSACK3GPPFailure_MarshalBinary == <<Raw(2)>>
WMSACK3GPPFailure_UnmarshalBinary == Fixed(2)
WMSMessageReference_MarshalBinary == <<Raw(5)>>
WMSMessageReference_UnmarshalBinary == Fixed(5)
wmsACKInfo_MarshalBinary == <<Raw(6)>>
wmsACKInfo_UnmarshalBinary == Fixed(6)
encodeWMSRawMessage == <<Raw(1), Pre(2, 1, wmsMessageLengthMax)>>
encodeWMSStoredRawMessage == <<Raw(1)>> \o encodeWMSRawMessage
WMSRawMessage_MarshalBinary == <<Raw(2), Pre(2, 1, wmsMessageLengthMax)>>
WMSRawMessage_UnmarshalBinary == Array(4, 2, 1, NoMax)
WMSSMSCAddress_MarshalBinary == <<Vet, Raw(3), Pre(1, 1, 255)>>
WMSSMSCAddress_UnmarshalBinary == Array(4, 1, 1, NoMax)
decodeWMSDeliveryCause == Append(Fixed(1), Judged)
decodeWMSCallControl == Array(1, 1, 1, NoMax)
decodeWMSMessageList == Array(4, 4, 5, NoMax)
WMSSendResult_unmarshalRawSendTLVs ==
  <<May(\h01, Fixed(2)), May(\h10, Fixed(2)), May(\h11, Fixed(1)),
    May(\h12, WMSGSMCauseInfo_UnmarshalBinary), May(\h13, Fixed(1)),
    May(\h14, decodeWMSDeliveryCause), May(\h15, decodeWMSCallControl),
    May(\h16, WMSRejectCause_UnmarshalBinary), May(\h17, Fixed(2))>>
wmsRawSendResponse == WMSSendResult_unmarshalRawSendTLVs
\* 0x10 is looked at only if 0x11 is absent; an indication without a message,
\* a reference or a warning is refused.
WMSIncomingMessage ==
  <<First(\h11, Array(8, 2, 1, NoMax)), May(\h10, WMSMessageReference_UnmarshalBinary),
    May(\h12, Fixed(1)), May(\h13, Array(3, 2, 1, NoMax)), May(\h14, Fixed(4)),
    May(\h15, Text), May(\h16, Fixed(1)), Verdict>>

(***************************************************************************)
(* Messages (wms.go).                                                      *)
(***************************************************************************)
WMSReadRawRequest ==
  <<Put(\h01, WMSMessageReference_MarshalBinary), Opt(\h10, U8), Opt(\h11, Bool)>>
setWMSIndication ==
  Cases({<<Put(id, Bool)>> : id \in {\h10, \h11, \h12, \h13, \h14, \h15, \h17, \h18}})
acquireWMSIndication == Maybe(wmsResultRequest(<<setWMSIndication>>))
releaseWMSIndication == Maybe(Cleanup(<<setWMSIndication>>))
WMSMessageCalls ==
  [WMSSetSMSCAddress |->
     wmsResultRequest(<<Check, Put(\h01, <<Within(0, 1, 21)>>), Opt(\h10, <<Within(0, 1, 3)>>),
                        Opt(\h11, U8)>>),
   WMSSendRaw |->
     DecodeFirst(<<Put(\h01, encodeWMSRawMessage), Opt(\h10, WMSCDMAForceOnDC_MarshalBinary),
                   Opt(\h11, U8), Opt(\h12, U8), Opt(\h13, Bool),
                   Given(<<Put(\h14, U8), Put(\h15, U32)>>), Opt(\h18, Bool)>>,
                 wmsRawSendResponse) \o Judge,
   WMSWriteRaw |->
     Ask(<<Put(\h01, encodeWMSStoredRawMessage), Opt(\h10, U8)>>, <<Must(\h01, Fixed(4))>>)]
WMSStoreCalls ==
  [WMSReadRaw |-> Ask(WMSReadRawRequest, <<Must(\h01, WMSRawMessage_UnmarshalBinary)>>),
   WMSDelete |-> Tell(<<Put(\h01, U8), Opt(\h10, U32), Opt(\h11, U8), Opt(\h12, U8)>>),
   WMSListMessages |->
     Ask(<<Put(\h01, U8), Opt(\h10, U8), Opt(\h11, U8)>>, <<Must(\h01, decodeWMSMessageList)>>),
   WMSSetEventReport |-> Tell(Opts(<<\h10, \h11, \h12, \h13>>, Bool))]
\* The failure cause is decoded before the result is judged. A stored message
\* is read by a call of its own, whose error goes to the watcher with it.
WMSDeliveryCalls ==
  [WMSAcknowledge |->
     DecodeFirst(<<Put(\h01, wmsACKInfo_MarshalBinary),
                   Opt(\h10, WMSACK3GPP2Failure_MarshalBinary),
                   Opt(\h11, WMSACK3GPPFailure_MarshalBinary), Opt(\h12, Bool)>>,
                 <<May(\h10, Fixed(1))>>),
   WMSWatchIncoming |->
     acquireWMSIndication
       \o Again(Watch(WMSIncomingMessage, "stop") \o Maybe(Cleanup(WMSReadRawRequest)))
       \o releaseWMSIndication]
WMSIndicationState ==
  Mays(<<\h10, \h11, \h12, \h13, \h14, \h15, \h16, \h17, \h18>>, wmsBool)
WMSRegistrationCall == [WMSIndicationRegistration |-> Ask(<<>>, WMSIndicationState)]

(***************************************************************************)
(* Broadcast messages (wms_broadcast.go). The mode says which of the two   *)
(* configurations must be there, and the other must not.                   *)
(***************************************************************************)
WMS3GPPBroadcastChannel_MarshalBinary == <<Vet, Raw(5)>>
WMS3GPPBroadcastChannel_UnmarshalBinary == <<Peek(5), decodeWMSBool, Judged>>
WMS3GPP2BroadcastChannel_MarshalBinary == <<Vet, Raw(5)>>
WMS3GPP2BroadcastChannel_UnmarshalBinary == <<Peek(5), Judged, decodeWMSBool>>
encodeWMS3GPPBroadcastChannels == <<Pre(2, 5, wmsBroadcastChannelMax), Vet>>
encodeWMS3GPP2BroadcastChannels == <<Pre(2, 5, wmsBroadcastChannelMax), Vet>>
decodeWMSBroadcastHeader ==
  <<Room(3), Peek(1), decodeWMSBool, Count(1, 2), Top(wmsBroadcastChannelMax),
    ExactlyN(3, 5), Take(3)>>
decodeWMS3GPPBroadcastConfig ==
  decodeWMSBroadcastHeader
    \o <<Each(WMS3GPPBroadcastChannel_UnmarshalBinary \o <<Take(5)>>)>>
decodeWMS3GPP2BroadcastConfig ==
  decodeWMSBroadcastHeader
    \o <<Each(WMS3GPP2BroadcastChannel_UnmarshalBinary \o <<Take(5)>>)>>
WMSBroadcastConfig ==
  <<Must(\h01, Append(Fixed(1), Judged)), Verdict, May(\h10, decodeWMS3GPPBroadcastConfig),
    May(\h11, decodeWMS3GPP2BroadcastConfig)>>
watchWMSTLVs(rules) == acquireWMSIndication \o Watch(rules, "stop") \o releaseWMSIndication
WMSBroadcastCalls ==
  [WMSSetBroadcastActivation |->
     wmsResultRequest(<<validateWMSMessageMode, Put(\h01, <<Raw(2)>>), Opt(\h10, Bool)>>),
   WMSSetBroadcastConfig |->
     wmsResultRequest(<<validateWMSMessageMode, Put(\h01, U8), Check,
                        Cases({<<Put(\h10, encodeWMS3GPPBroadcastChannels)>>,
                               <<Put(\h11, encodeWMS3GPP2BroadcastChannels)>>})>>),
   WMSBroadcastConfig |->
     Ask(<<validateWMSMessageMode, Put(\h01, U8)>>,
         <<Verdict, May(\h10, decodeWMS3GPPBroadcastConfig),
           May(\h11, decodeWMS3GPP2BroadcastConfig)>>),
   WMSWatchBroadcastConfig |-> watchWMSTLVs(WMSBroadcastConfig)]

(***************************************************************************)
(* Control and routes (wms_control.go, wms_routes.go).                     *)
(***************************************************************************)
validateWMSDomainPreference == Check
validateWMSSubscription == Check
WMSStoreCapacityResponse == <<Must(\h01, Fixed(4)), May(\h10, Fixed(4))>>
WMSControlCalls ==
  [WMSReset |-> wmsResultRequest(<<>>),
   WMSModifyTag |->
     wmsResultRequest(<<Put(\h01, WMSMessageReference_MarshalBinary \o <<Raw(1)>>),
                        Opt(\h10, U8)>>),
   WMSCurrentMessageProtocol |-> Ask(<<>>, <<Must(\h01, Fixed(1))>>),
   WMSStoreCapacity |->
     Ask(<<Check, Put(\h01, U8), Opt(\h10, <<Vet, Raw(1)>>)>>, WMSStoreCapacityResponse)]
WMSPreferenceCalls ==
  [WMSSetMemoryAvailable |-> wmsResultRequest(<<Put(\h01, Bool)>>),
   WMSMemoryAvailable |-> wmsBoolResponse(\h10),
   WMSDomainPreference |-> wmsSingleByteResponse(\h01) \o Judge,
   WMSSetDomainPreference |->
     wmsResultRequest(<<validateWMSDomainPreference, Put(\h01, U8)>>),
   WMSSetPrimaryClient |-> wmsResultRequest(<<Put(\h01, Bool)>>),
   WMSPrimaryClient |-> wmsBoolResponse(\h10),
   WMSBindSubscription |-> wmsResultRequest(<<validateWMSSubscription, Put(\h01, U8)>>),
   WMSBoundSubscription |-> wmsSingleByteResponse(\h10) \o Judge]

WMSRoute_MarshalBinary == <<Raw(4)>>
WMSRoute_UnmarshalBinary == <<Take(4)>>
wmsRouteList_MarshalBinary == <<Pre(2, 4, wmsRouteMax)>>
wmsRouteList_UnmarshalBinary ==
  <<Room(2), Count(0, 2), Top(wmsRouteMax), Take(2), ExactlyN(0, 4),
    Each(WMSRoute_UnmarshalBinary)>>
WMSRoutes_MarshalTLVs == <<Put(\h01, wmsRouteList_MarshalBinary), Opt(\h10, U8)>>
WMSRoutes_UnmarshalTLVs == <<Must(\h01, wmsRouteList_UnmarshalBinary), May(\h10, Fixed(1))>>
WMSSendResult_unmarshalSendFromStoreTLVs ==
  <<May(\h10, Fixed(2)), May(\h11, Fixed(2)), May(\h12, Fixed(1)),
    May(\h13, WMSGSMCauseInfo_UnmarshalBinary), May(\h14, Fixed(1)),
    May(\h15, WMSRejectCause_UnmarshalBinary), May(\h16, decodeWMSDeliveryCause),
    May(\h17, decodeWMSCallControl), May(\h18, Fixed(2))>>
wmsSendFromStoreResponse == WMSSendResult_unmarshalSendFromStoreTLVs
WMSRouteCalls ==
  [WMSSetRoutes |-> wmsResultRequest(WMSRoutes_MarshalTLVs),
   WMSGetRoutes |-> Ask(<<>>, WMSRoutes_UnmarshalTLVs),
   WMSSendFromStore |->
     DecodeFirst(<<Put(\h01, WMSMessageReference_MarshalBinary \o <<Raw(1)>>),
                   Opt(\h10, Bool)>>, wmsSendFromStoreResponse) \o Judge]

(***************************************************************************)
(* States and their indications (wms_status.go). In an indication the state*)
(* is required; in a response it may be absent.                            *)
(***************************************************************************)
WMSTransportNetworkState_unmarshalTLVs(indication) ==
  IF indication THEN <<Must(\h01, Fixed(1))>> ELSE <<Only(\h10, Fixed(1))>>
WMSTransportLayerState_unmarshalTLVs(indication) ==
  IF indication THEN <<Must(\h01, wmsBool), May(\h10, Fixed(2))>>
  ELSE <<May(\h10, wmsBool), May(\h11, Fixed(2))>>
decodeWMSOptionalReadyBool(kind) == May(kind, wmsBool)
WMSServiceReadyState_unmarshalTLVs(indication) ==
  IF indication THEN <<Must(\h01, Fixed(4)), May(\h10, Fixed(8))>>
  ELSE <<decodeWMSOptionalReadyBool(\h10), decodeWMSOptionalReadyBool(\h12),
         May(\h11, Fixed(4)), May(\h13, Fixed(8))>>
WMSMemoryFullState_unmarshalTLVs == <<Must(\h01, Append(Fixed(2), Judged))>>
WMSCallStatus_unmarshalTLVs == <<Must(\h01, Append(Fixed(1), Judged))>>
WMSSMSCAddress_unmarshalTLVs == <<Must(\h01, WMSSMSCAddress_UnmarshalBinary)>>
wmsTransportLayerResponse == WMSTransportLayerState_unmarshalTLVs(FALSE)
wmsServiceReadyResponse == WMSServiceReadyState_unmarshalTLVs(FALSE)
wmsTransportNetworkResponse == WMSTransportNetworkState_unmarshalTLVs(FALSE)
WMSStateCalls ==
  [WMSSetIndicationRegistration |->
     wmsResultRequest(Opts(<<\h10, \h11, \h12, \h13, \h14, \h15, \h17, \h18>>, Bool)),
   WMSTransportLayer |-> Ask(<<>>, wmsTransportLayerResponse),
   WMSServiceReady |-> Ask(<<>>, wmsServiceReadyResponse),
   WMSTransportNetwork |-> Ask(<<>>, wmsTransportNetworkResponse)]
WMSWatchStateCalls ==
  [WMSWatchTransportNetwork |-> watchWMSTLVs(WMSTransportNetworkState_unmarshalTLVs(TRUE)),
   WMSWatchTransportLayer |-> watchWMSTLVs(WMSTransportLayerState_unmarshalTLVs(TRUE)),
   WMSWatchServiceReady |-> watchWMSTLVs(WMSServiceReadyState_unmarshalTLVs(TRUE)),
   WMSWatchMemoryFull |-> watchWMSTLVs(WMSMemoryFullState_unmarshalTLVs),
   WMSWatchCallStatus |-> watchWMSTLVs(WMSCallStatus_unmarshalTLVs),
   WMSWatchSMSCAddress |-> watchWMSTLVs(WMSSMSCAddress_unmarshalTLVs)]

\* Codecs of the package that no method of the client uses.
WMSTypes ==
  [WMSEncoders |->
     Tell(<<Put(\h01, WMSGSMCauseInfo_MarshalBinary), Put(\h02, WMSRejectCause_MarshalBinary),
            Put(\h03, WMSRawMessage_MarshalBinary), Put(\h04, WMSSMSCAddress_MarshalBinary)>>),
   WMSDecoders |->
     Watch(<<May(\h01, WMSCDMAForceOnDC_UnmarshalBinary),
             May(\h02, WMSACK3GPP2Failure_UnmarshalBinary),
             May(\h03, WMSACK3GPPFailure_UnmarshalBinary),
             May(\h04, wmsACKInfo_UnmarshalBinary)>>, "stop")]

WMSCalls ==
  WMSMessageCalls @@ WMSStoreCalls @@ WMSDeliveryCalls @@ WMSRegistrationCall
    @@ WMSBroadcastCalls @@ WMSControlCalls @@ WMSPreferenceCalls @@ WMSRouteCalls
    @@ WMSStateCalls @@ WMSWatchStateCalls @@ WMSTypes
=============================================================================
