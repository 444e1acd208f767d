------------------------------- MODULE QMIWDS -------------------------------
(***************************************************************************)
(* The QMI wireless data service (qcom/wds*.go, data_endpoint.go) in the   *)
(* notation of QMIWire: packet data calls and their settings, profiles,    *)
(* statistics, dormancy, event reports and throttling. A definition has the*)
(* name of the Go type or function it translates.                          *)
(***************************************************************************)
EXTENDS QMIWire, TLC

wdsControlRequest(puts, rules) == Ask(puts, rules)
\* The PDNSession form first refuses a session that is nil or closed.
PDNSession_wdsControlRequest(puts, rules) == Ask(<<Check>> \o puts, rules)
wdsEmptyRequest == <<>>

(***************************************************************************)
(* Data calls (wds.go, wds_abort.go, data_endpoint.go).                    *)
(***************************************************************************)
DataEndpoint_MarshalBinary == <<Raw(8)>>
DataEndpoint_UnmarshalBinary == Fixed(8)
WDSLegacyBindMuxDataPortRequest == <<Put(\h01, U16)>>
WDSBindMuxDataPortRequest ==
  <<Opt(\h10, DataEndpoint_MarshalBinary), Put(\h11, U8), Opt(\h12, U8), Opt(\h13, U32)>>

wdsAPNMaxLength == 150
wdsUsernameMaxLength == 127
wdsPasswordMaxLength == 127
\* A string that validateWDSString has let through.
validateWDSString(max) == <<Within(0, 1, max)>>
WDSStartNetworkInterfaceRequest ==
  Opts(<<\h10, \h11, \h12, \h13>>, U32)
    \o <<Opt(\h14, validateWDSString(wdsAPNMaxLength)), Opt(\h15, U32), Opt(\h16, U8),
         Opt(\h17, validateWDSString(wdsUsernameMaxLength)),
         Opt(\h18, validateWDSString(wdsPasswordMaxLength))>>
    \o Opts(<<\h19, \h30, \h31, \h32, \h33>>, U8) \o <<Opt(\h34, U16), Opt(\h35, U8)>>
WDSStartNetworkInterfaceResponse ==
  <<May(\h01, Fixed(4)), May(\h10, Fixed(2)), May(\h11, Fixed(4))>>
WDSStopNetworkInterfaceRequest == <<Put(\h01, U32)>>
WDSAbortRequest == <<Put(\h01, U16)>>

\* A list of strings, each with a two-byte length.
parseWDSDomainList ==
  <<Room(1), Count(0, 1), Take(1),
    Each(<<Room(2), Count(0, 2), Take(2), RoomN(0, 1), TakeN(0, 1)>>), End>>
parseWDSIPv4List == <<Room(1), Count(0, 1), Take(1), Each(<<Room(4), Take(4)>>), End>>
parseWDSIPv6List == <<Room(1), Count(0, 1), Take(1), Each(<<Room(16), Take(16)>>), End>>
WDSOperatorReservedPCO == <<Room(8), Count(5, 1), ExactlyN(8, 1), PeekN(8, 1)>>
WDSUMTSGrantedQoS == Fixed(33)
WDSGPRSGrantedQoS == Fixed(20)
WDSGetRuntimeSettingsRequest == <<Put(\h10, U32)>>
WDSGetRuntimeSettingsResponse ==
  <<May(\h10, Text), May(\h11, Fixed(1)), May(\h14, Text), May(\h1E, Fixed(4)),
    May(\h15, Fixed(4)), May(\h16, Fixed(4)), May(\h17, WDSUMTSGrantedQoS),
    May(\h19, WDSGPRSGrantedQoS), May(\h1B, Text), May(\h1D, Fixed(1)), May(\h1F, Fixed(2)),
    May(\h20, Fixed(4)), May(\h21, Fixed(4)), May(\h22, Fixed(1)), May(\h25, Fixed(17)),
    May(\h26, Fixed(17)), May(\h27, Fixed(16)), May(\h28, Fixed(16)), May(\h29, Fixed(4)),
    May(\h23, parseWDSIPv4List), May(\h24, parseWDSDomainList), May(\h2E, parseWDSIPv6List),
    May(\h2A, parseWDSDomainList), May(\h2B, Append(Fixed(1), Judged)), May(\h2C, Fixed(1)),
    May(\h2D, Fixed(2)), May(\h2F, WDSOperatorReservedPCO)>>

(***************************************************************************)
(* LTE attach and autoconnect (wds_attach.go, wds_autoconnect.go).         *)
(***************************************************************************)
WDSGetLTEAttachParametersRequest == wdsEmptyRequest
WDSGetLTEAttachParametersResponse ==
  <<May(\h10, Text), May(\h11, Fixed(1)), May(\h12, Fixed(1))>>
wdsAttachPDNList_MarshalBinary == <<Pre(1, 2, 56)>>
wdsAttachPDNList_UnmarshalBinary == Array(1, 1, 2, 56)
WDSSetLTEAttachPDNListRequest ==
  <<Put(\h01, wdsAttachPDNList_MarshalBinary), Opt(\h10, <<Vet, Raw(4)>>)>>
WDSGetLTEAttachPDNListRequest == wdsEmptyRequest
WDSGetMaxLTEAttachPDNNumberRequest == wdsEmptyRequest
WDSGetMaxLTEAttachPDNNumberResponse == <<Must(\h10, Fixed(1))>>
WDSGetLTEAttachPDNListResponse == Mays(<<\h10, \h11>>, wdsAttachPDNList_UnmarshalBinary)
WDSAttachCalls ==
  [WDSLTEAttachParameters |->
     wdsControlRequest(WDSGetLTEAttachParametersRequest, WDSGetLTEAttachParametersResponse),
   WDSLTEAttachPDNList |->
     wdsControlRequest(WDSGetLTEAttachPDNListRequest, WDSGetLTEAttachPDNListResponse),
   WDSMaxLTEAttachPDNs |->
     wdsControlRequest(WDSGetMaxLTEAttachPDNNumberRequest, WDSGetMaxLTEAttachPDNNumberResponse),
   WDSSetLTEAttachPDNList |-> wdsControlRequest(WDSSetLTEAttachPDNListRequest, <<>>)]

WDSGetAutoconnectSettingsRequest == wdsEmptyRequest
WDSGetAutoconnectSettingsResponse == <<Must(\h01, Fixed(1)), May(\h10, Fixed(1))>>
WDSSetAutoconnectSettingsRequest == <<Check, Put(\h01, U8), Opt(\h10, <<Vet, Raw(1)>>)>>
WDSAutoconnectCalls ==
  [WDSAutoconnectSettings |->
     wdsControlRequest(WDSGetAutoconnectSettingsRequest, WDSGetAutoconnectSettingsResponse),
   WDSSetAutoconnectSettings |-> wdsControlRequest(WDSSetAutoconnectSettingsRequest, <<>>)]

(***************************************************************************)
(* Rates, statistics, dormancy and bearers (wds_control.go): every method  *)
(* of the client has one of the session beside it.                         *)
(***************************************************************************)
WDSGetCurrentChannelRateRequest == wdsEmptyRequest
WDSGetCurrentChannelRateResponse == <<Must(\h01, Fixed(16)), May(\h10, Fixed(36))>>
WDSResetRequest == wdsEmptyRequest
WDSGetPacketStatisticsRequest == <<Put(\h01, U32)>>
WDSGetPacketStatisticsResponse ==
  Mays(<<\h10, \h11, \h12, \h13, \h14, \h15, \h1D, \h1E>>, Fixed(4))
    \o Mays(<<\h19, \h1A, \h1B, \h1C>>, Fixed(8))
WDSGoDormantRequest == <<Opt(\h10, <<Vet, Raw(4)>>), Opt(\h11, Bool)>>
WDSGoActiveRequest == wdsEmptyRequest
WDSGetDormancyStatusRequest == wdsEmptyRequest
WDSGetDormancyStatusResponse == <<Must(\h01, Fixed(1))>>
WDSGetDataBearerTechnologyRequest == wdsEmptyRequest
WDSGetDataBearerTechnologyResponse == <<Must(\h01, Fixed(1)), May(\h10, Fixed(1))>>
WDSCurrentBearerTechnology == Fixed(9)
WDSGetCurrentDataBearerTechnologyRequest == wdsEmptyRequest
WDSGetCurrentDataBearerTechnologyResponse ==
  <<Must(\h01, WDSCurrentBearerTechnology), May(\h10, WDSCurrentBearerTechnology)>>
WDSBearerTechnology == Fixed(16)
WDSGetDataBearerTechnologyExRequest == wdsEmptyRequest
WDSGetDataBearerTechnologyExResponse == Mays(<<\h10, \h11>>, WDSBearerTechnology)
WDSBindSubscriptionRequest == <<Check, Put(\h01, U32)>>
WDSGetBindSubscriptionRequest == wdsEmptyRequest
WDSGetBindSubscriptionResponse == <<Only(\h10, Fixed(4))>>

WDSRateCalls ==
  [WDSChannelRates |->
     wdsControlRequest(WDSGetCurrentChannelRateRequest, WDSGetCurrentChannelRateResponse),
   WDSReset |-> wdsControlRequest(WDSResetRequest, <<>>),
   ChannelRates |->
     PDNSession_wdsControlRequest(WDSGetCurrentChannelRateRequest, WDSGetCurrentChannelRateResponse),
   WDSPacketStatistics |->
     wdsControlRequest(WDSGetPacketStatisticsRequest, WDSGetPacketStatisticsResponse),
   PacketStatistics |->
     PDNSession_wdsControlRequest(WDSGetPacketStatisticsRequest, WDSGetPacketStatisticsResponse)]
WDSDormancyCalls ==
  [WDSGoDormant |-> wdsControlRequest(WDSGoDormantRequest, <<>>),
   GoDormant |-> PDNSession_wdsControlRequest(WDSGoDormantRequest, <<>>),
   WDSGoActive |-> wdsControlRequest(WDSGoActiveRequest, <<>>),
   GoActive |-> PDNSession_wdsControlRequest(WDSGoActiveRequest, <<>>),
   WDSDormancyStatus |->
     wdsControlRequest(WDSGetDormancyStatusRequest, WDSGetDormancyStatusResponse),
   DormancyStatus |->
     PDNSession_wdsControlRequest(WDSGetDormancyStatusRequest, WDSGetDormancyStatusResponse)]
WDSBearerCalls ==
  [WDSDataBearerTechnology |->
     wdsControlRequest(WDSGetDataBearerTechnologyRequest, WDSGetDataBearerTechnologyResponse),
   DataBearerTechnology |->
     PDNSession_wdsControlRequest(WDSGetDataBearerTechnologyRequest,
                                  WDSGetDataBearerTechnologyResponse),
   WDSCurrentDataBearerTechnology |->
     wdsControlRequest(WDSGetCurrentDataBearerTechnologyRequest,
                       WDSGetCurrentDataBearerTechnologyResponse),
   CurrentDataBearerTechnology |->
     PDNSession_wdsControlRequest(WDSGetCurrentDataBearerTechnologyRequest,
                                  WDSGetCurrentDataBearerTechnologyResponse),
   WDSDataBearerTechnologyExtended |->
     wdsControlRequest(WDSGetDataBearerTechnologyExRequest,
                       WDSGetDataBearerTechnologyExResponse),
   DataBearerTechnologyExtended |->
     PDNSession_wdsControlRequest(WDSGetDataBearerTechnologyExRequest,
                                  WDSGetDataBearerTechnologyExResponse),
   WDSBindSubscription |-> wdsControlRequest(WDSBindSubscriptionRequest, <<>>),
   WDSBoundSubscription |->
     wdsControlRequest(WDSGetBindSubscriptionRequest, WDSGetBindSubscriptionResponse) \o Judge]

(***************************************************************************)
(* Event reports and throttling (wds_event.go, wds_throttle.go).           *)
(***************************************************************************)
WDSDataSystems_MarshalBinary == <<Raw(1), Pre(1, 9, 16)>>
WDSDataSystems_UnmarshalBinary == Array(2, 1, 9, 16)
decodeWDSRemovedFilterHandles == Array(1, 1, 4, 50)
WDSEventReport ==
  Mays(<<\h10, \h11, \h12, \h13, \h14, \h15, \h25, \h26>>, Fixed(4))
    \o Mays(<<\h19, \h1A>>, Fixed(8))
    \o <<May(\h16, Fixed(8)), May(\h17, Fixed(1)), May(\h18, Fixed(1)), May(\h1B, Fixed(1)),
         May(\h1D, WDSCurrentBearerTechnology), May(\h1F, Fixed(1)), May(\h20, Fixed(4)),
         May(\h22, Fixed(2)), May(\h23, Fixed(2)), May(\h24, WDSDataSystems_UnmarshalBinary),
         May(\h27, Fixed(1)), May(\h28, Fixed(4)), May(\h29, decodeWDSRemovedFilterHandles),
         May(\h2A, WDSBearerTechnology)>>
WDSSetEventReportConfig ==
  <<Opt(\h10, Bool), Opt(\h11, <<Vet, Raw(5)>>), Opt(\h12, Bool), Opt(\h13, Bool),
    Opt(\h14, U8)>>
    \o Opts(<<\h15, \h17, \h18, \h19, \h1A, \h1B, \h1C, \h1D, \h1E>>, Bool)
WDSSetEventReportRequest == WDSSetEventReportConfig
WDSEventCalls ==
  [WDSSetEventReport |-> wdsControlRequest(WDSSetEventReportRequest, <<>>),
   SetEventReport |-> PDNSession_wdsControlRequest(WDSSetEventReportRequest, <<>>)]

decodeWDSPDNThrottleCount == <<Room(1), Count(0, 1), Top(8), Take(1)>>
\* An entry of the given size ends in the length of the APN that follows it.
decodeWDSPDNThrottleEntries(entry) ==
  decodeWDSPDNThrottleCount
    \o <<Each(<<Room(entry), Count(entry - 1, 1), Top(wdsAPNMaxLength), RoomN(entry, 1),
                TakeN(entry, 1)>>), End>>
WDSGetPDNThrottleInfoRequest == <<Put(\h01, U8)>>
WDSGetPDNThrottleInfoResponse ==
  <<May(\h10, decodeWDSPDNThrottleEntries(11)), May(\h11, decodeWDSPDNThrottleEntries(16)),
    May(\h12, decodeWDSPDNThrottleEntries(6)), May(\h13, Fixed(2))>>
WDSThrottleCall ==
  [WDSPDNThrottleInfo |->
     wdsControlRequest(<<Check>> \o WDSGetPDNThrottleInfoRequest, WDSGetPDNThrottleInfoResponse)]

(***************************************************************************)
(* Profiles (wds_profile.go, wds_profile_codec.go, wds_defaults.go).       *)
(***************************************************************************)
wdsProfileNameMaxLength == 50
WDSUMTSQoSWithSignaling_MarshalBinary == <<Raw(34)>>
WDSUMTSQoSWithSignaling_UnmarshalBinary == <<Exactly(34), Peek(33), Peek(34)>>
WDSLTEQoS == Fixed(17)
WDSVLANRange == Fixed(4)
encodeWDSProfileIPv4 == <<Vet, Raw(4)>>
encodeWDSProfileIPv6 == <<Vet, Raw(16)>>
\* Each given field is judged before any TLV is encoded.
WDSProfileUpdate_validate == Check
WDSProfileUpdate_MarshalTLVs ==
  <<Opt(\h10, validateWDSString(wdsProfileNameMaxLength)), Opt(\h11, U8), Opt(\h12, U8),
    Opt(\h13, U8), Opt(\h14, validateWDSString(wdsAPNMaxLength)),
    Opt(\h15, encodeWDSProfileIPv4), Opt(\h16, encodeWDSProfileIPv4), Opt(\h17, <<Raw(33)>>),
    Opt(\h18, <<Raw(33)>>), Opt(\h19, <<Raw(20)>>), Opt(\h1A, <<Raw(20)>>),
    Opt(\h1B, validateWDSString(wdsUsernameMaxLength)),
    Opt(\h1C, validateWDSString(wdsPasswordMaxLength)), Opt(\h1D, U8),
    Opt(\h1E, encodeWDSProfileIPv4)>>
    \o Opts(<<\h1F, \h20, \h21, \h22, \h25, \h26, \h27>>, U8)
    \o <<Opt(\h28, encodeWDSProfileIPv6), Opt(\h29, WDSUMTSQoSWithSignaling_MarshalBinary),
         Opt(\h2A, WDSUMTSQoSWithSignaling_MarshalBinary), Opt(\h2B, encodeWDSProfileIPv6),
         Opt(\h2C, encodeWDSProfileIPv6), Opt(\h2D, U8), Opt(\h2E, <<Raw(17)>>),
         Opt(\h2F, Bool), Opt(\h3E, Bool), Opt(\h50, <<Raw(4)>>), Opt(\hDD, U64),
         Opt(\hDE, Bool), Opt(\hDF, Bool)>>
WDSProfileConfig == <<Check, Put(\h01, U8)>> \o WDSProfileUpdate_MarshalTLVs
decodeWDSProfileByte == Fixed(1)
decodeWDSProfileBool(id) == May(id, decodeWDSProfileByte)
decodeWDSProfileIPv4 == Fixed(4)
decodeWDSProfileIPv6 == Fixed(16)
unmarshalWDSProfileSettings ==
  <<May(\h10, Text), May(\h11, decodeWDSProfileByte), May(\h12, decodeWDSProfileByte),
    May(\h13, decodeWDSProfileByte), May(\h14, Text), May(\h15, decodeWDSProfileIPv4),
    May(\h16, decodeWDSProfileIPv4), May(\h17, WDSUMTSGrantedQoS),
    May(\h18, WDSUMTSGrantedQoS), May(\h19, WDSGPRSGrantedQoS), May(\h1A, WDSGPRSGrantedQoS),
    May(\h1B, Text), May(\h1C, Text), May(\h1D, decodeWDSProfileByte),
    May(\h1E, decodeWDSProfileIPv4), decodeWDSProfileBool(\h1F),
    May(\h20, decodeWDSProfileByte), decodeWDSProfileBool(\h21), decodeWDSProfileBool(\h22),
    May(\h25, decodeWDSProfileByte), decodeWDSProfileBool(\h26),
    May(\h27, decodeWDSProfileByte), May(\h28, decodeWDSProfileIPv6),
    May(\h29, WDSUMTSQoSWithSignaling_UnmarshalBinary),
    May(\h2A, WDSUMTSQoSWithSignaling_UnmarshalBinary), May(\h2B, decodeWDSProfileIPv6),
    May(\h2C, decodeWDSProfileIPv6), May(\h2D, decodeWDSProfileByte), May(\h2E, WDSLTEQoS),
    decodeWDSProfileBool(\h2F), decodeWDSProfileBool(\h3E), May(\h50, WDSVLANRange),
    May(\hDD, Fixed(8)), decodeWDSProfileBool(\hDE), decodeWDSProfileBool(\hDF)>>
WDSCreateProfileRequest == WDSProfileConfig
WDSDeleteProfileRequest == <<Put(\h01, <<Raw(2)>>)>>
WDSGetProfileListRequest == <<Put(\h10, U8)>>
WDSModifyProfileRequest == <<Put(\h01, <<Raw(2)>>), Put(\h1F, Bool)>>
\* The profile type, an update that changes nothing and its fields are judged.
WDSUpdateProfileRequest ==
  <<Check, WDSProfileUpdate_validate, Put(\h01, <<Raw(2)>>)>> \o WDSProfileUpdate_MarshalTLVs
WDSSetDefaultProfileRequest == <<Put(\h01, <<Raw(3)>>)>>
WDSGetProfileSettingsRequest == <<Put(\h01, <<Raw(2)>>)>>
WDSGetProfileListResponse ==
  <<Must(\h01, <<Room(1), Count(0, 1), Take(1),
                 Each(<<Room(3), Count(2, 1), RoomN(3, 1), TakeN(3, 1)>>), End>>)>>
WDSGetProfileSettingsResponse == unmarshalWDSProfileSettings
WDSUpdateProfile == Tell(WDSUpdateProfileRequest)
WDSProfiles == Ask(WDSGetProfileListRequest, WDSGetProfileListResponse)
WDSProfileSettings == Ask(WDSGetProfileSettingsRequest, WDSGetProfileSettingsResponse)
\* An APN is required, and the answer must name the profile's type.
WDSCreateProfileWithConfig ==
  Ask(<<Check>> \o WDSCreateProfileRequest, <<Must(\h01, Append(Fixed(2), Judged))>>)
WDSDeleteProfile == Tell(WDSDeleteProfileRequest)
\* The profiles one after the other, until one has the APN; else an error.
WDSProfileIndex == WDSProfiles \o Again(WDSProfileSettings) \o Judge
WDSSetDefaultProfile == Tell(WDSSetDefaultProfileRequest)

WDSGetDefaultSettingsRequest == <<Put(\h01, U8)>>
WDSGetDefaultSettingsResponse == WDSGetProfileSettingsResponse
WDSGetDefaultProfileRequest == <<Put(\h01, <<Raw(2)>>)>>
WDSGetDefaultProfileResponse == <<Must(\h01, Fixed(1))>>
WDSDefaultCalls ==
  [WDSDefaultSettings |->
     wdsControlRequest(<<Check>> \o WDSGetDefaultSettingsRequest, WDSGetDefaultSettingsResponse),
   WDSDefaultProfile |->
     wdsControlRequest(<<Check>> \o WDSGetDefaultProfileRequest, WDSGetDefaultProfileResponse)]

(***************************************************************************)
(* Status and profile events (wds_status.go, wds_profile_event.go).        *)
(***************************************************************************)
WDSGetPacketServiceStatusRequest == <<Opt(\h10, U32)>>
WDSIndicationRegisterRequest == Opts(<<\h11, \h12, \h19>>, Bool)
\* The ten TLV types follow each other, from \h11 in a response and from \h17
\* in an indication: addresses, gateways and netmask, four DNS servers, MTU.
WDSRuntimeSettings_unmarshalPacketTLVs(first) ==
  [i \in 1 .. 10 |-> May(first + i - 1, Fixed(<<4, 17, 4, 4, 17, 4, 4, 16, 16, 4>>[i]))]
wdsGetPacketServiceStatusResponse ==
  <<Must(\h01, Fixed(1)), May(\h10, Fixed(1))>> \o WDSRuntimeSettings_unmarshalPacketTLVs(\h11)
wdsPacketServiceIndication ==
  <<Must(\h01, Fixed(2)), May(\h10, Fixed(2)), May(\h11, Fixed(4)), May(\h12, Fixed(1)),
    May(\h13, Fixed(2)), May(\h14, Fixed(1)), May(\h15, Fixed(1)), May(\h16, Fixed(4))>>
    \o WDSRuntimeSettings_unmarshalPacketTLVs(\h17)
wdsExtendedIPConfigIndication == <<Only(\h10, Fixed(4))>>
WDSStatusCalls ==
  [WDSPacketServiceStatus |->
     Ask(WDSGetPacketServiceStatusRequest, wdsGetPacketServiceStatusResponse)]

\* At most 255 different profiles, of known types.
normalizeWDSProfileEventList == Check
WDSConfigureProfileEventListRequest ==
  <<normalizeWDSProfileEventList, Put(\h10, <<Within(1, 2, 255)>>)>>
WDSProfileChangedIndication == <<Must(\h10, Append(Fixed(3), Judged))>>
configureWDSProfileEvents == Tell(WDSConfigureProfileEventListRequest)
setWDSProfileChangeIndication == Tell(WDSIndicationRegisterRequest)
\* The modem is told only what changes: the list, and with the first profile
\* that there are indications to send; with the last that there are none.
acquireWDSProfileEvents ==
  Maybe(configureWDSProfileEvents \o Maybe(setWDSProfileChangeIndication))
releaseWDSProfileEvents ==
  Maybe(Cleanup(WDSConfigureProfileEventListRequest)
          \o Maybe(Cleanup(WDSIndicationRegisterRequest)))
WDSConfigureProfileEvents == configureWDSProfileEvents
WDSWatchProfileChanges ==
  acquireWDSProfileEvents \o Watch(WDSProfileChangedIndication, "stop")
    \o releaseWDSProfileEvents

(***************************************************************************)
(* Every call, and what only a session of PDNSession.tla sends or decodes. *)
(***************************************************************************)
WDSCalls ==
  WDSAttachCalls @@ WDSAutoconnectCalls @@ WDSRateCalls @@ WDSDormancyCalls @@ WDSBearerCalls
    @@ WDSEventCalls @@ WDSThrottleCall @@ WDSDefaultCalls @@ WDSStatusCalls
    @@ [WDSBindMuxDataPort |-> Tell(WDSBindMuxDataPortRequest),
        WDSLegacyBindMuxDataPort |-> Tell(WDSLegacyBindMuxDataPortRequest),
        WDSStartNetworkInterface |->
          DecodeFirst(WDSStartNetworkInterfaceRequest, WDSStartNetworkInterfaceResponse) \o Judge,
        WDSGetRuntimeSettings |->
          Ask(WDSGetRuntimeSettingsRequest, WDSGetRuntimeSettingsResponse),
        WDSStopNetworkInterface |-> Tell(WDSStopNetworkInterfaceRequest),
        WDSAbort |-> Tell(WDSAbortRequest),
        WDSEventReports |-> Watch(WDSEventReport, "stop"),
        wdsPacketServiceIndications |-> Watch(wdsPacketServiceIndication, "stop"),
        wdsExtendedIPConfigIndications |-> Watch(wdsExtendedIPConfigIndication, "stop"),
        WDSUpdateProfile |-> WDSUpdateProfile,
        WDSModifyProfile |-> Tell(WDSModifyProfileRequest),
        WDSSetDefaultProfile |-> WDSSetDefaultProfile,
        WDSCreateProfileWithConfig |-> WDSCreateProfileWithConfig,
        WDSDeleteProfile |-> WDSDeleteProfile,
        WDSProfileIndex |-> WDSProfileIndex,
        WDSConfigureProfileEvents |-> WDSConfigureProfileEvents,
        WDSWatchProfileChanges |-> WDSWatchProfileChanges]
=============================================================================
