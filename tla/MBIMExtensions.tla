--------------------------- MODULE MBIMExtensions ---------------------------
(***************************************************************************)
(* Microsoft's extensions of the basic connect service (lte_attach.go,     *)
(* slot.go, modem_configuration.go, ms_basic_connect_extensions.go,        *)
(* network_parameters.go, provisioned_contexts_v2.go,                      *)
(* registration_parameters.go, wake_reason.go, base_stations.go,           *)
(* version.go) in the notation of MBIMWire. A definition has the name of   *)
(* the Go type or function it translates; v is the negotiated MBIMEx       *)
(* version.                                                                *)
(***************************************************************************)
EXTENDS MBIMBasicConnect

(***************************************************************************)
(* LTE attach.                                                             *)
(***************************************************************************)
readLTEAttachStringRefs(ps) == Refs(ps)
\* The lengths, the references as a data buffer, and the terminators.
lteAttachStringRefs(fixedLength, ps) ==
  readLTEAttachStringRefs(ps) \o <<Judged, Valid(fixedLength), Judged>>
lteAttachRecordStringRefs(fixedLength, ps) ==
  readLTEAttachStringRefs(ps) \o <<Judged, Valid(fixedLength), Judged>>
lteAttachStrings == <<Str, Str, Str>>

LTEAttachConfigurationRequest == Nothing
LTEAttachConfiguration_validate == Check
LTEAttachConfiguration_marshalBinary ==
  <<Structure(44, Words({0, 4, 8, 36, 40}), <<12, 20, 28>>)>>
LTEAttachConfiguration_MarshalBinary ==
  <<LTEAttachConfiguration_validate, Put(0, LTEAttachConfiguration_marshalBinary)>>
LTEAttachConfiguration_UnmarshalBinary ==
  <<Room(44)>> \o lteAttachRecordStringRefs(44, <<12, 20, 28>>) \o lteAttachStrings
    \o <<Peek(44), Judged>>
LTEAttachConfigurationsInfo_MarshalBinary ==
  LTEAttachConfiguration_MarshalBinary \o Send(<<Raw(4), Elements>>)
LTEAttachConfigurationsInfo_UnmarshalBinary ==
  Table(4, 0, LTEAttachConfiguration_UnmarshalBinary)
marshalLTEAttachConfigurationSet ==
  Send(LTEAttachConfiguration_marshalBinary) \o Send(<<Raw(4), Raw(4), Elements>>)
marshalLTEAttachConfigurationSetChecked ==
  <<Check, LTEAttachConfiguration_validate>> \o marshalLTEAttachConfigurationSet
LTEAttachConfigurationSetRequest == marshalLTEAttachConfigurationSetChecked
LTEAttachInfoRequest == Nothing
LTEAttachInfo_UnmarshalBinary(v) ==
  LET fixedLength == IF v >= 3 THEN 44 ELSE 40
      first == fixedLength - 32
  IN  <<Room(fixedLength)>>
        \o lteAttachStringRefs(fixedLength, <<first, first + 8, first + 16>>)
        \o lteAttachStrings \o <<Peek(fixedLength), Judged>>
LTEAttachCalls ==
  [LTEAttachConfigurations |->
     Query(LTEAttachConfigurationRequest, LTEAttachConfigurationsInfo_UnmarshalBinary),
   SetLTEAttachConfigurations |->
     Query(<<Check>> \o LTEAttachConfiguration_MarshalBinary \o LTEAttachConfigurationSetRequest,
           LTEAttachConfigurationsInfo_UnmarshalBinary),
   LTEAttachInfo |->
     Either({Query(LTEAttachInfoRequest, LTEAttachInfo_UnmarshalBinary(v)) : v \in {1, 3}})]

(***************************************************************************)
(* Slots, capabilities and small values.                                   *)
(***************************************************************************)
DeviceSlotMappingsRequest == Nothing
\* Every element has four bytes; the offsets are computed in advance.
DeviceSlotMappingsSetRequest == Send(<<Raw(4), Declared(4, {4})>>)
DeviceSlotMappingsResponse_UnmarshalBinary ==
  <<Room(4), Count(0, 4)>> \o offsetSizeRefs(4) \o <<Each(<<Inner(Fixed(4))>>)>>
DeviceSlotMappings ==
  Query(DeviceSlotMappingsRequest, DeviceSlotMappingsResponse_UnmarshalBinary)
SetDeviceSlotMappings ==
  Query(DeviceSlotMappingsSetRequest, DeviceSlotMappingsResponse_UnmarshalBinary)
SlotMappingCalls ==
  [DeviceSlotMappings |-> DeviceSlotMappings, SetDeviceSlotMappings |-> SetDeviceSlotMappings]

SystemCapabilitiesRequest == Nothing
SystemCapabilitiesInfo_UnmarshalBinary == Fixed(20)
SlotInfoStatusRequest == Send(U32)
SlotInfoStatus_UnmarshalBinary == Fixed(8) \o <<Judged>>
validatePCOType == Judged
PCOValue_MarshalBinary == <<Check>>
\* The length of the data is in the second word; the padding is not counted.
PCOValue_marshalBinaryUnchecked == Send(<<Structure(12, Words({0, 4, 8}), <<>>), Appended(1)>>)
\* n counts the words of the data and its padding.
PCOValue_UnmarshalBinary ==
  <<Room(12), Count(4, 4), ExactlyN(12, 4), Peek(12), validatePCOType, PeekN(12, 4)>>
PCORequest == PCOValue_MarshalBinary \o PCOValue_marshalBinaryUnchecked
DeviceResetRequest == Nothing
DeviceResetResponse_UnmarshalBinary == <<End>>
LocationInfoStatusRequest == Nothing
LocationInfoStatus_UnmarshalBinary == Fixed(12)
ExtensionCalls ==
  [SystemCapabilities |-> Query(SystemCapabilitiesRequest, SystemCapabilitiesInfo_UnmarshalBinary),
   SlotInfoStatus |-> Query(SlotInfoStatusRequest, SlotInfoStatus_UnmarshalBinary),
   PCO |-> Query(PCOValue_MarshalBinary \o PCORequest, PCOValue_UnmarshalBinary),
   ResetDevice |-> Query(DeviceResetRequest, DeviceResetResponse_UnmarshalBinary),
   LocationInfoStatus |-> Query(LocationInfoStatusRequest, LocationInfoStatus_UnmarshalBinary)]

VersionRequest == Send(<<Raw(2), Raw(2)>>)
VersionInfo_UnmarshalBinary == Fixed(4) \o <<Judged>>
\* A device that does not name the command among its services is asked nothing.
negotiateVersion ==
  Query(DeviceServicesRequest, DeviceServicesResponse_UnmarshalBinary)
    \o Maybe(Query(VersionRequest, VersionInfo_UnmarshalBinary))
VersionCall == [negotiateVersion |-> negotiateVersion]

(***************************************************************************)
(* Parameters that carry TLVs. Before a request is sent, its TLVs are      *)
(* decoded to see that they are well formed (Check).                       *)
(***************************************************************************)
validateMBIMEx3PreconfiguredDefaultNSSAI == Judged
validateModemConfigurationStatus == Judged
ModemConfigurationInfo_unmarshalTLVs ==
  Some(<<Judged, Inner(PreconfiguredDefaultNSSAIList_UnmarshalTLV),
         validateMBIMEx3PreconfiguredDefaultNSSAI>>)
ModemConfigurationRequest == Nothing
ModemConfigurationInfo_MarshalBinary == <<Check>> \o Send(<<Raw(4), TLV, TLVs>>)
ModemConfigurationInfo_UnmarshalBinary ==
  <<Judged, Room(12), Peek(4), Take(4)>> \o unmarshalTLVPrefix \o <<Judged, Inner(<<Judged>>)>>
    \o TLVs_UnmarshalBinary
    \o <<validateModemConfigurationStatus, Judged, ModemConfigurationInfo_unmarshalTLVs>>
ModemConfigurationCall ==
  [ModemConfiguration |->
     Query(<<Check>> \o ModemConfigurationRequest, ModemConfigurationInfo_UnmarshalBinary)]

NetworkParametersQuery_marshalBinary(v) ==
  <<Check>> \o (IF v >= 4 THEN Send(<<TLVs>>) ELSE Send(<<Raw(4), TLVs>>))
NetworkParametersRequest(v) == NetworkParametersQuery_marshalBinary(v)
validateNetworkParametersFields == Judged
NetworkParametersInfo_unmarshalTLVs(v) ==
  Some(<<Judged, OneOf({<<>>, <<Inner(NSSAIList_UnmarshalTLV)>>,
                        <<Inner(RejectedNSSAIList_UnmarshalTLV)>>,
                        <<Inner(LADNList_UnmarshalTLV(v))>>, <<Inner(TAILists_UnmarshalTLV)>>})>>)
NetworkParametersInfo_MarshalBinary == <<Check>> \o Send(<<Raw(8), TLVs>>)
NetworkParametersInfo_UnmarshalBinary(v) ==
  <<Judged, Room(8), Peek(8), validateNetworkParametersFields, Take(8)>> \o TLVs_UnmarshalBinary
    \o <<NetworkParametersInfo_unmarshalTLVs(v)>>
NetworkParametersCall ==
  [NetworkParameters |->
     Either({Query(<<Check>> \o NetworkParametersQuery_marshalBinary(v)
                     \o NetworkParametersRequest(v), NetworkParametersInfo_UnmarshalBinary(v)) :
               v \in {3, 4}})]

RegistrationParametersRequest == Nothing
validateSetFields == Check
validateSetPreconfiguredDefaultNSSAI == Check
marshalFixedFields == <<Raw(4), Raw(4), Raw(4), Raw(4), Raw(4)>>
RegistrationParametersInfo_marshalBinaryUnchecked == Send(marshalFixedFields \o <<TLVs>>)
RegistrationParametersInfo_MarshalBinary ==
  <<Check, validateSetFields, validateSetPreconfiguredDefaultNSSAI>>
    \o Send(marshalFixedFields \o <<TLVs>>)
RegistrationParametersSetRequest == RegistrationParametersInfo_MarshalBinary
validateResponseFields == Judged
\* Of a response: an OS identifier is refused.
validateRegistrationParametersTLVs ==
  Some(<<Judged, Inner(PreconfiguredDefaultNSSAIList_UnmarshalTLV),
         validateMBIMEx3PreconfiguredDefaultNSSAI>>)
RegistrationParametersInfo_UnmarshalBinary ==
  <<Judged, Room(20), Peek(20), validateResponseFields, Take(20)>> \o TLVs_UnmarshalBinary
    \o <<Judged, validateRegistrationParametersTLVs>>
RegistrationParametersCalls ==
  [RegistrationParameters |->
     Query(<<Check>> \o RegistrationParametersRequest, RegistrationParametersInfo_UnmarshalBinary),
   SetRegistrationParameters |->
     Query(<<Check>> \o RegistrationParametersInfo_MarshalBinary
             \o RegistrationParametersSetRequest, RegistrationParametersInfo_UnmarshalBinary)]

(***************************************************************************)
(* Provisioned contexts. From 4.0 on a TLV is between the structure and the*)
(* strings its references point at.                                        *)
(***************************************************************************)
ProvisionedContextsV2Request == Nothing
ProvisionedContextV2_validate == Check
marshalProvisionedContextV2(v) ==
  LET words == Words({0, 20, 24, 28, 32, 36, 64, 68}) \cup {<<4, 16>>}
      stringRefs == {<<40, 8>>, <<48, 8>>, <<56, 8>>}
  IN  IF v < 4 THEN Send(<<Structure(72, words, <<40, 48, 56>>)>>)
      ELSE <<Given(<<SNSSAI_marshalBinaryUnchecked>>)>>
             \o Send(<<Structure(72, words \cup stringRefs, <<>>), TLV, Appended(3)>>)
marshalProvisionedContextV2Set(v) ==
  <<Check, ProvisionedContextV2_validate>> \o marshalProvisionedContextV2(v)
ProvisionedContextV2SetRequest(v) == marshalProvisionedContextV2Set(v)
ProvisionedContextV2_MarshalBinary(v) ==
  <<ProvisionedContextV2_validate>> \o marshalProvisionedContextV2(v)
ProvisionedContextV2_UnmarshalBinary(v) ==
  <<Room(72)>>
    \o (IF v < 4 THEN <<>>
        ELSE <<Sub(72, unmarshalTLVPrefix \o <<Inner(OptionalSNSSAI_UnmarshalTLV)>>)>>)
    \o Refs(<<40, 48, 56>>) \o <<Judged, Valid(72), Judged, Str, Str, Str, Peek(72), Judged>>
ProvisionedContextsV2Info_MarshalBinary(v) ==
  ProvisionedContextV2_MarshalBinary(v) \o Send(<<Raw(4), Elements>>)
ProvisionedContextsV2Info_UnmarshalBinary(v) ==
  Table(4, 0, ProvisionedContextV2_UnmarshalBinary(v))
ProvisionedContextV2Calls ==
  [ProvisionedContextsV2 |->
     Either({Query(ProvisionedContextsV2Request, ProvisionedContextsV2Info_UnmarshalBinary(v)) :
               v \in {3, 4}}),
   SetProvisionedContextV2 |->
     Either({Query(<<Check, ProvisionedContextV2_validate>> \o ProvisionedContextV2SetRequest(v),
                   ProvisionedContextsV2Info_UnmarshalBinary(v)) : v \in {3, 4}})]

(***************************************************************************)
(* What woke the host: a TLV with a command or with a packet.              *)
(***************************************************************************)
WakeReasonRequest == Nothing
validateWakeCommandPayload == Judged
WakeCommand_MarshalBinary ==
  <<Check>> \o Send(<<Structure(28, {<<0, 16>>, <<16, 4>>}, <<20>>)>>)
WakeCommand_UnmarshalBinary ==
  <<Room(28)>> \o byteArrayRef(20, 28) \o <<Peek(20), validateWakeCommandPayload>>
WakePacket_MarshalBinary == <<Check>> \o Send(<<Structure(16, Words({0, 4}), <<8>>)>>)
WakePacket_UnmarshalBinary == <<Room(16), Ref(8), Valid(16), Peek(8), Judged, Bytes>>
WakeReasonInfo_MarshalBinary ==
  <<Check, Cases({WakeCommand_MarshalBinary, WakePacket_MarshalBinary})>> \o Send(<<Raw(8), TLV>>)
WakeReasonInfo_UnmarshalBinary ==
  <<Room(16), Sub(8, TLV_UnmarshalBinary), Peek(8),
    OneOf({<<Judged, Inner(WakeCommand_UnmarshalBinary)>>,
           <<Judged, Inner(WakePacket_UnmarshalBinary)>>, <<Refused>>})>>
WakeReasonCall == [WakeReason |-> Query(WakeReasonRequest, WakeReasonInfo_UnmarshalBinary)]

(***************************************************************************)
(* Base stations. A cell is a structure followed by its strings; the next  *)
(* one begins after the padding of the last string. padded is the length of*)
(* each string with its padding, 0 for one that is absent.                 *)
(***************************************************************************)
baseStationProviderIDMaximumSize == 12
nrNeighborCellIDMaximumSize == 14
baseStationRefs(ps, dataStart) == Refs(ps) \o <<Judged, Valid(dataStart)>>

CellEnd(fixedSize, padded, i) == FoldLeft(LAMBDA end, k : end + k, fixedSize, SubSeq(padded, 1, i))
Paddings(maximumSize) == {4 * k : k \in 0 .. align4(maximumSize) \div 4}

\* The values of the references, one after the other, each within the cell.
parseBaseStationValues(fixedSize, fields, padded) ==
  <<Room(fixedSize)>>
    \o FlattenSeq([i \in DOMAIN fields |->
         <<Ref(fields[i]), Valid(0)>>
           \o (IF padded[i] = 0 THEN <<>>
               ELSE <<Judged, Bytes, Room(CellEnd(fixedSize, padded, i))>>)])
parseBaseStationStrings(fixedSize, fields, padded) ==
  parseBaseStationValues(fixedSize, fields, padded) \o [i \in DOMAIN fields |-> Judged]
parseBaseStationProviderID(fixedSize, padded) ==
  parseBaseStationStrings(fixedSize, <<0>>, <<padded>>) \o <<Judged>>

\* A cell with a provider and fields up to fixedSize.
Cell(fixedSize) ==
  <<OneOf({parseBaseStationProviderID(fixedSize, k)
             \o <<Peek(fixedSize), Judged, Take(fixedSize + k)>> :
             k \in Paddings(baseStationProviderIDMaximumSize)})>>
parseGSMServingCell == Cell(32)
parseUMTSServingCell == Cell(48)
parseTDSCDMAServingCell == Cell(36)
parseLTEServingCell == Cell(36)
parseGSMNeighboringCell == Cell(28)
parseUMTSNeighboringCell == Cell(36)
parseTDSCDMANeighboringCell == Cell(36)
parseLTENeighboringCell == Cell(32)
parseCDMACell == <<Room(36), Take(36)>>
parseNRServingCell == Cell(48)
parseNRNeighboringCell ==
  <<OneOf({parseBaseStationValues(40, <<4, 12>>, <<k, l>>)
             \o <<Judged, Peek(40), Judged, Take(40 + k + l)>> :
             k \in Paddings(baseStationProviderIDMaximumSize),
             l \in Paddings(nrNeighborCellIDMaximumSize)})>>

parseBaseStationStruct(parse) == OneOf({<<>>, <<Inner(parse \o <<End>>)>>})
parseBaseStationArray(minimumSize, parse) ==
  OneOf({<<>>,
         <<Inner(<<Room(4), Count(0, 4), RoomN(4, minimumSize), Take(4), Each(parse), End>>)>>})

marshalBaseStationCounts(v) == Send(<<Raw(IF v >= 3 THEN 24 ELSE 20)>>)
BaseStationsRequest(v) == marshalBaseStationCounts(v)
BaseStationsInfo_UnmarshalBinary(v) ==
  LET headerSize == IF v >= 3 THEN 96 ELSE 76
      refOffset == IF v >= 3 THEN 8 ELSE 4
      refCount == IF v >= 3 THEN 11 ELSE 9
  IN  <<Room(headerSize)>>
        \o baseStationRefs([i \in 1 .. refCount |-> refOffset + (i - 1) * 8], headerSize)
        \o <<Peek(refOffset), Judged,
             parseBaseStationStruct(parseGSMServingCell),
             parseBaseStationStruct(parseUMTSServingCell),
             parseBaseStationStruct(parseTDSCDMAServingCell),
             parseBaseStationStruct(parseLTEServingCell),
             parseBaseStationArray(28, parseGSMNeighboringCell),
             parseBaseStationArray(36, parseUMTSNeighboringCell),
             parseBaseStationArray(36, parseTDSCDMANeighboringCell),
             parseBaseStationArray(32, parseLTENeighboringCell),
             parseBaseStationArray(36, parseCDMACell)>>
        \o (IF v < 3 THEN <<>>
            ELSE <<parseBaseStationArray(48, parseNRServingCell), Judged,
                   parseBaseStationArray(40, parseNRNeighboringCell), Judged>>)
BaseStationsInfoCall ==
  [BaseStationsInfo |->
     Either({Query(<<Check>> \o BaseStationsRequest(v), BaseStationsInfo_UnmarshalBinary(v)) :
               v \in {1, 3}})]

\* The values of responses that have an encoder of their own.
ExtensionTypes ==
  [LTEAttachConfigurationsInfo |-> Tell(LTEAttachConfigurationsInfo_MarshalBinary),
   ModemConfigurationInfo |-> Tell(ModemConfigurationInfo_MarshalBinary),
   NetworkParametersInfo |-> Tell(NetworkParametersInfo_MarshalBinary),
   RegistrationParametersInfo |-> Tell(RegistrationParametersInfo_marshalBinaryUnchecked),
   ProvisionedContextsV2Info |->
     Either({Tell(ProvisionedContextsV2Info_MarshalBinary(v)) : v \in {3, 4}}),
   WakeReasonInfo |-> Tell(WakeReasonInfo_MarshalBinary)]

MBIMExtensionCalls ==
  LTEAttachCalls @@ SlotMappingCalls @@ ExtensionCalls @@ VersionCall @@ ModemConfigurationCall
    @@ NetworkParametersCall @@ RegistrationParametersCalls @@ ProvisionedContextV2Calls
    @@ WakeReasonCall @@ BaseStationsInfoCall @@ ExtensionTypes
=============================================================================
