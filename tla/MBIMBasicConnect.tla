-------------------------- MODULE MBIMBasicConnect --------------------------
(***************************************************************************)
(* The basic connect service of the mbim package (pin.go, providers.go,    *)
(* provisioned_contexts.go, radio_state.go, register_state.go,             *)
(* packet_service.go, signal_state.go, subscriber_ready.go, connect.go,    *)
(* ip_configuration.go, ip_packet_filters.go, device_services.go, ...) in  *)
(* the notation of MBIMWire. A definition has the name of the Go type or   *)
(* function it translates: X or X_Request what the method of the request   *)
(* encodes, X_UnmarshalBinary how the response is decoded. v is the        *)
(* negotiated MBIMEx version.                                              *)
(***************************************************************************)
EXTENDS MBIMTLVTypes

(***************************************************************************)
(* PINs.                                                                   *)
(***************************************************************************)
PINDesc_validate == Judged
PINRequest == Nothing
PINSetRequest == Send(<<Structure(24, Words({0, 4}), <<8, 16>>)>>)
PINInfo_UnmarshalBinary == Fixed(12) \o <<Judged>>
PINListRequest == Nothing
PINListInfo_UnmarshalBinary == Fixed(160) \o <<PINDesc_validate>>
PINCalls ==
  [PIN |-> Carrying(PINRequest, PINInfo_UnmarshalBinary),
   SetPIN |-> Carrying(<<Check>> \o PINSetRequest, PINInfo_UnmarshalBinary),
   PINList |-> Query(PINListRequest, PINListInfo_UnmarshalBinary)]

(***************************************************************************)
(* Providers. A provider within a list is a record of it.                  *)
(***************************************************************************)
Provider_validate == Check
validateProviders == Check
Provider_marshalBinary == <<Structure(32, Words({8, 20, 24, 28}), <<0, 12>>)>>
Provider_MarshalBinary == <<Provider_validate, Put(0, Provider_marshalBinary)>>
Provider_unmarshalBinary ==
  <<Room(32)>> \o Refs(<<0, 12>>) \o <<Judged, Valid(32), Judged, Str, Str, Peek(32), Judged>>
Providers_MarshalBinary == <<validateProviders>>
\* The elements are encoded one by one before the list is.
Providers_marshalBinary == <<Put(0, Provider_marshalBinary), Put(0, <<Raw(4), Elements>>)>>
Providers_UnmarshalBinary == Table(4, 0, Provider_unmarshalBinary)
HomeProviderRequest == Nothing
HomeProviderSetRequest == Provider_MarshalBinary
PreferredProvidersRequest == Nothing
PreferredProvidersSetRequest == Providers_MarshalBinary \o Providers_marshalBinary
VisibleProvidersRequest == <<Check>> \o Send(U32)
MulticarrierProvidersRequest == Nothing
MulticarrierProvidersSetRequest == Providers_MarshalBinary \o Providers_marshalBinary
ProviderCalls ==
  [HomeProvider |-> Query(HomeProviderRequest, Provider_unmarshalBinary),
   SetHomeProvider |-> Query(HomeProviderSetRequest, Provider_unmarshalBinary),
   PreferredProviders |-> Query(PreferredProvidersRequest, Providers_UnmarshalBinary),
   SetPreferredProviders |-> Query(PreferredProvidersSetRequest, Providers_UnmarshalBinary),
   VisibleProviders |-> Query(VisibleProvidersRequest, Providers_UnmarshalBinary),
   MulticarrierProviders |-> Query(MulticarrierProvidersRequest, Providers_UnmarshalBinary),
   SetMulticarrierProviders |->
     Query(MulticarrierProvidersSetRequest, Providers_UnmarshalBinary)]

(***************************************************************************)
(* Provisioned contexts, radio state and registration.                     *)
(***************************************************************************)
ProvisionedContextsRequest == Nothing
validateProvisionedContextSet == Check
marshalProvisionedContextSet ==
  <<Structure(60, Words({0, 44, 48}) \cup {<<4, 16>>}, <<20, 28, 36, 52>>)>>
ProvisionedContextSetRequest == Send(marshalProvisionedContextSet)
ProvisionedContext_unmarshalBinary ==
  <<Room(52)>> \o Refs(<<20, 28, 36>>)
    \o <<Judged, Valid(52), Judged, Str, Str, Str, Peek(52), Judged>>
ProvisionedContextsInfo_UnmarshalBinary == Table(4, 0, ProvisionedContext_unmarshalBinary)
ProvisionedContextCalls ==
  [ProvisionedContexts |->
     Query(ProvisionedContextsRequest, ProvisionedContextsInfo_UnmarshalBinary),
   SetProvisionedContext |->
     Query(<<validateProvisionedContextSet>> \o ProvisionedContextSetRequest,
           ProvisionedContextsInfo_UnmarshalBinary)]

RadioStateRequest == Nothing
RadioStateSetRequest == Send(U32)
RadioStateInfo_UnmarshalBinary == Fixed(8) \o <<Judged>>
RadioStateCalls ==
  [RadioState |-> Query(RadioStateRequest, RadioStateInfo_UnmarshalBinary),
   SetRadioState |-> Query(<<Check>> \o RadioStateSetRequest, RadioStateInfo_UnmarshalBinary)]

RegistrationStateRequest == Nothing
RegistrationStateSetRequest == Send(<<Structure(16, Words({8, 12}), <<0>>)>>)
RegistrationStateInfo_UnmarshalBinary(v) ==
  LET fixedLength == IF v >= 2 THEN 52 ELSE 48 IN
  <<Room(fixedLength), Peek(48), Judged>> \o Refs(<<20, 28, 36>>)
    \o <<Judged, Valid(fixedLength), Judged, Str, Str, Str>>
    \o (IF v >= 2 THEN <<Peek(52), Judged>> ELSE <<>>)
RegistrationStateCalls ==
  [RegistrationState |->
     Either({Carrying(RegistrationStateRequest, RegistrationStateInfo_UnmarshalBinary(v)) :
               v \in Versions}),
   SetRegistrationState |->
     Either({Carrying(<<Check>> \o RegistrationStateSetRequest,
                      RegistrationStateInfo_UnmarshalBinary(v)) : v \in Versions})]

(***************************************************************************)
(* Packet service, signal and subscriber. The fixed part grows with the    *)
(* version; from 4.0 on TLVs may follow that of the packet service.        *)
(***************************************************************************)
PacketServiceRequest == Nothing
PacketServiceSetRequest == Send(U32)
PacketServiceInfo_UnmarshalBinary(v) ==
  LET minimumLength == IF v >= 3 THEN 44 ELSE IF v = 2 THEN 32 ELSE 28 IN
  <<Room(minimumLength)>> \o (IF v < 4 THEN <<Exactly(minimumLength)>> ELSE <<>>)
    \o <<Peek(minimumLength), Judged>>
    \o (IF v < 4 THEN <<>>
        ELSE <<Take(minimumLength)>> \o TLVs_UnmarshalBinary
               \o <<Some(<<Judged, Inner(ThreeGPPReleaseVersion_UnmarshalTLV)>>)>>)
PacketServiceCalls ==
  [PacketService |->
     Either({Carrying(PacketServiceRequest, PacketServiceInfo_UnmarshalBinary(v)) :
               v \in Versions}),
   SetPacketService |->
     Either({Carrying(<<Check>> \o PacketServiceSetRequest, PacketServiceInfo_UnmarshalBinary(v)) :
               v \in Versions})]

SignalStateRequest == Nothing
SignalStateSetRequest == Send(<<Raw(4), Raw(4), Raw(4)>>)
\* Without a negotiated version the length decides.
SignalStateInfo_UnmarshalBinary(v) ==
  LET short == <<Room(20), Exactly(20), Peek(20), Judged>>
      long == <<Room(28), Peek(20), Judged, Ref(20), Valid(28),
                OneOf({<<>>, <<Inner(Array(4, 4, 20, NoMax) \o <<Judged>>)>>})>>
  IN  IF v >= 2 THEN long ELSE <<OneOf({short, <<IfRoom(21, long, short)>>})>>
SignalStateCalls ==
  [SignalState |->
     Either({Query(SignalStateRequest, SignalStateInfo_UnmarshalBinary(v)) : v \in Versions}),
   SetSignalState |->
     Either({Query(SignalStateSetRequest, SignalStateInfo_UnmarshalBinary(v)) : v \in Versions})]

SubscriberReadyStatusRequest(v) == IF v >= 4 THEN Send(U32) ELSE Nothing
\* The telephone numbers are a table of n references after the fixed part.
SubscriberReadyStatusResponse_UnmarshalBinary(v) ==
  LET table == IF v >= 4 THEN 36 ELSE IF v = 3 THEN 32 ELSE 28
      later == IF v >= 3 THEN 4 ELSE 0
  IN  <<Room(28), Room(table), Peek(table), Judged>> \o Refs(<<4 + later, 12 + later>>)
        \o <<Judged, Count(24 + later, 4), Judged, RoomN(table, 8), PeekN(table, 8), Judged,
             ValidN(table, 8), Judged, Str, Str, Each(<<Str>>)>>
SubscriberReadyStatusCall ==
  [SubscriberReadyStatus |->
     Either({Query(<<Check>> \o SubscriberReadyStatusRequest(v),
                   SubscriberReadyStatusResponse_UnmarshalBinary(v)) : v \in Versions})]

(***************************************************************************)
(* Services of the device, its capabilities, and small values.             *)
(***************************************************************************)
DeviceServicesRequest == Nothing
DeviceService_UnmarshalBinary == Array(28, 4, 4, NoMax)
DeviceServicesResponse_UnmarshalBinary == <<Judged>> \o Table(8, 0, DeviceService_UnmarshalBinary)
DeviceServicesCall ==
  [DeviceServices |-> Query(DeviceServicesRequest, DeviceServicesResponse_UnmarshalBinary)]

DeviceServiceSubscribeEntry_marshalBinary == <<Raw(16), Pre(4, 4, NoMax)>>
DeviceServiceSubscribeEntry_UnmarshalBinary == Array(20, 4, 4, NoMax)
DeviceServiceSubscribeList_marshalBinary ==
  <<Put(0, DeviceServiceSubscribeEntry_marshalBinary), Put(0, <<Raw(4), Elements>>)>>
DeviceServiceSubscribeList_UnmarshalBinary ==
  Table(4, 0, DeviceServiceSubscribeEntry_UnmarshalBinary)
DeviceServiceSubscribeListRequest == DeviceServiceSubscribeList_marshalBinary
DeviceServiceSubscribeListCall ==
  [SetDeviceServiceSubscribeList |->
     Query(DeviceServiceSubscribeListRequest, DeviceServiceSubscribeList_UnmarshalBinary)]

DeviceCapsRequest == Nothing
DeviceCapsV2Request == Nothing
DeviceCapsInfo_validate == Judged
deviceCapsStringRefs(dataStart) ==
  Refs(<<32, 40, 48, 56>>) \o <<Judged, Valid(dataStart), Judged>>
deviceCapsStrings == <<Str, Str, Str, Str>>
decodeUint16Table == <<Whole(2), PeekN(0, 2)>>
DeviceCapsInfo_unmarshalV1 ==
  <<Room(64), Peek(32), DeviceCapsInfo_validate, Judged>> \o deviceCapsStringRefs(64)
    \o deviceCapsStrings
DeviceCapsInfo_unmarshalV2 ==
  <<Room(68), Peek(32), DeviceCapsInfo_validate, Judged>> \o deviceCapsStringRefs(68)
    \o deviceCapsStrings \o <<Peek(68)>>
\* Six TLVs whose types are tested when all TLVs have been read.
DeviceCapsInfo_unmarshalV3 ==
  <<Room(48), Peek(48), DeviceCapsInfo_validate, Take(48)>>
    \o FlattenSeq([i \in 1 .. 6 |-> unmarshalTLVPrefix]) \o TLVs_UnmarshalBinary
    \o <<Judged, Inner(decodeUint16Table), Inner(decodeUint16Table)>>
    \o [i \in 1 .. 4 |-> Inner(<<Judged>>)] \o <<Judged>>
DeviceCapsInfo_UnmarshalBinary(v) ==
  CASE v >= 3 -> DeviceCapsInfo_unmarshalV3
    [] v = 2 -> DeviceCapsInfo_unmarshalV2
    [] OTHER -> DeviceCapsInfo_unmarshalV1
DeviceCaps ==
  Either({Query(IF v >= 2 THEN DeviceCapsV2Request ELSE DeviceCapsRequest,
                DeviceCapsInfo_UnmarshalBinary(v)) : v \in 1 .. 3})
DeviceCapsCall == [DeviceCaps |-> DeviceCaps]

EmergencyModeRequest == Nothing
EmergencyMode_UnmarshalBinary == Fixed(4) \o <<Judged>>
EmergencyModeCall == [EmergencyMode |-> Query(EmergencyModeRequest, EmergencyMode_UnmarshalBinary)]

NetworkIdleHintRequest == Nothing
NetworkIdleHintSetRequest == <<Check>> \o Send(U32)
NetworkIdleHint_UnmarshalBinary == Fixed(4) \o <<Judged>>
NetworkIdleHintCalls ==
  [NetworkIdleHint |-> Query(NetworkIdleHintRequest, NetworkIdleHint_UnmarshalBinary),
   SetNetworkIdleHint |->
     Query(<<Check>> \o NetworkIdleHintSetRequest, NetworkIdleHint_UnmarshalBinary)]

PacketStatisticsRequest == Nothing
PacketStatisticsInfo_UnmarshalBinary == Fixed(48)
PacketStatisticsCall ==
  [PacketStatistics |-> Query(PacketStatisticsRequest, PacketStatisticsInfo_UnmarshalBinary)]

ServiceActivationRequest == Send(<<Free(NoMax)>>)
ServiceActivationInfo_UnmarshalBinary == <<Room(4), Peek(4)>>
ActivateServiceCall ==
  [ActivateService |-> Carrying(ServiceActivationRequest, ServiceActivationInfo_UnmarshalBinary)]

(***************************************************************************)
(* Connections.                                                            *)
(***************************************************************************)
validateConnectConfig == Check
\* The references at 8, 16 and 24 are declared before the strings follow.
writeConnectStringRefs == {<<8 + i * 8, 8>> : i \in 0 .. 2}
appendConnectStrings(base) == <<Values(3, base)>>
connectSetDataV1 ==
  <<Structure(60, Words({0, 4, 32, 36, 40}) \cup {<<44, 16>>} \cup writeConnectStringRefs, <<>>)>>
    \o appendConnectStrings(60)
connectSetDataEx3 ==
  <<Structure(40, Words({0, 4, 8, 12, 16, 36}) \cup {<<20, 16>>}, <<>>), TLV, TLV, TLV, TLVs>>
connectSetDataEx4 ==
  <<Structure(44, Words({0, 4, 8, 12, 16, 20, 40}) \cup {<<24, 16>>}, <<>>),
    TLV, TLV, TLV, TLV, TLVs>>
ConnectRequest(v) ==
  <<validateConnectConfig>>
    \o (CASE v >= 4 -> <<SNSSAI_marshalBinaryUnchecked>> \o Send(connectSetDataEx4)
          [] v = 3 -> Send(connectSetDataEx3)
          [] OTHER -> Send(connectSetDataV1))
ConnectQueryRequest(v) == Send(<<Raw(IF v >= 3 THEN 4 ELSE 36)>>)
ConnectInfoTLVs(v) ==
  <<Room(40), Peek(40), Judged, Take(40)>>
    \o unmarshalTLVPrefix \o <<Judged, Inner(<<Judged>>)>>
    \o (IF v >= 4 THEN unmarshalTLVPrefix \o <<Inner(OptionalSNSSAI_UnmarshalTLV)>> ELSE <<>>)
    \o TLVs_UnmarshalBinary
    \o <<Some(<<OneOf({<<Inner(ProtocolConfigurationOptions_UnmarshalBinary)>>,
                       <<Judged, Inner(TrafficParameters_UnmarshalTLV)>>,
                       <<Judged, Inner(SessionID_UnmarshalTLV)>>})>>)>>
\* Without a negotiated version the length decides.
ConnectInfo_UnmarshalBinary(v) ==
  <<Room(36), Peek(36), Judged>>
    \o (CASE v >= 3 -> ConnectInfoTLVs(v)
          [] v = 2 -> <<Exactly(36)>>
          [] OTHER -> <<OneOf({<<Exactly(36)>>,
                               <<IfRoom(37, ConnectInfoTLVs(3), <<Exactly(36)>>)>>})>>)
QueryConnectCall ==
  [QueryConnect |->
     Either({Carrying(ConnectQueryRequest(v), ConnectInfo_UnmarshalBinary(v)) : v \in Versions})]
SetConnect(v) ==
  Carrying(<<validateConnectConfig>> \o ConnectRequest(v), ConnectInfo_UnmarshalBinary(v))
SetConnectCall == [SetConnect |-> Either({SetConnect(v) : v \in Versions})]

(***************************************************************************)
(* The addresses of a connection. An element is found by an offset and a   *)
(* count, tested together; the whole is then tested as a data buffer.      *)
(***************************************************************************)
IPConfigurationRequest == Send(<<Structure(60, Words({0}), <<>>)>>)
ipConfigurationFields_validate == Judged
IfCounted(body) == OneOf({<<>>, <<From(body)>>})
parseIPv4Elements == IfCounted(<<RoomN(0, 8), PeekN(0, 8), Judged>>)
parseIPv6Elements == IfCounted(<<RoomN(0, 20), PeekN(0, 20), Judged>>)
parseIPv4Addresses == IfCounted(<<RoomN(0, 4), PeekN(0, 4)>>)
parseIPv6Addresses == IfCounted(<<RoomN(0, 16), PeekN(0, 16)>>)
parseIPv4Address == IfCounted(<<Room(4), Peek(4)>>)
parseIPv6Address == IfCounted(<<Room(16), Peek(16)>>)
IPConfigurationInfo_UnmarshalBinary ==
  <<Room(60), Peek(60), Judged, ipConfigurationFields_validate,
    Count(12, 4), parseIPv4Elements, Count(20, 4), parseIPv6Elements,
    parseIPv4Address, parseIPv6Address,
    Count(36, 4), parseIPv4Addresses, Count(44, 4), parseIPv6Addresses, Valid(60)>>
IPConfiguration == Query(IPConfigurationRequest, IPConfigurationInfo_UnmarshalBinary)
IPConfigurationCall == [IPConfiguration |-> IPConfiguration]

validateIPPacketFilters == Check
IPPacketFiltersRequest == Send(<<Structure(8, Words({0}), <<>>)>>)
\* appendRefValue writes the offset of the filter and its size; the offset of
\* the mask then takes the place of the size, which the first word holds.
IPPacketFiltersInfo_marshalBinary(v) ==
  LET fixedSize == IF v >= 3 THEN 16 ELSE 12 IN
  <<Put(0, <<Structure(fixedSize, Words({0, 4, 8} \cup (IF v >= 3 THEN {12} ELSE {})), <<>>),
             Values(2, fixedSize)>>),
    Put(0, <<Raw(8), Elements>>)>>
IPPacketFiltersSetRequest(v) == <<validateIPPacketFilters>> \o IPPacketFiltersInfo_marshalBinary(v)
IPPacketFiltersInfo_UnmarshalBinary(v) ==
  LET fixedSize == IF v >= 3 THEN 16 ELSE 12 IN
  Table(8, 4, <<Room(fixedSize), Ref(4), Valid(fixedSize), Bytes, Bytes, Peek(fixedSize)>>)
    \o <<Judged>>
IPPacketFilterCalls ==
  [IPPacketFilters |->
     Either({Query(IPPacketFiltersRequest, IPPacketFiltersInfo_UnmarshalBinary(v)) :
               v \in {1, 3}}),
   SetIPPacketFilters |->
     Either({Query(<<validateIPPacketFilters>> \o IPPacketFiltersSetRequest(v),
                   IPPacketFiltersInfo_UnmarshalBinary(v)) : v \in {1, 3}})]

BasicConnectCalls ==
  PINCalls @@ ProviderCalls @@ ProvisionedContextCalls @@ RadioStateCalls
    @@ RegistrationStateCalls @@ PacketServiceCalls @@ SignalStateCalls
    @@ SubscriberReadyStatusCall @@ DeviceServicesCall @@ DeviceServiceSubscribeListCall
    @@ DeviceCapsCall @@ EmergencyModeCall @@ NetworkIdleHintCalls @@ PacketStatisticsCall
    @@ ActivateServiceCall @@ QueryConnectCall @@ SetConnectCall @@ IPConfigurationCall
    @@ IPPacketFilterCalls
=============================================================================
