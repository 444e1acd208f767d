------------------------------- MODULE QMILOC -------------------------------
(***************************************************************************)
(* The QMI location service (qcom/loc*.go) in the notation of QMIWire. Most*)
(* operations answer twice: a response that accepts the request and one    *)
(* indication that carries the outcome. A definition has the name of the Go*)
(* type or function it translates.                                         *)
(***************************************************************************)
EXTENDS QMIWire, TLC

locClientStringMaxLength == 4
locServerURLMaxLength == 256
locAssistanceDataPartMax == 1024
locMaxTLVValueLength == 32768
locGNSSSatelliteWireSize == 28

LOCIndicationResult == Must(\h01, Fixed(4))
\* Result.Err() refuses an indication whose status is not success.
locRequest(puts) == Tell(puts)
locSingleIndication(puts, rules) == Tell(puts) \o Await(rules)
LOCIndicationResult_Err == Judge
LOCOperationIndication == <<LOCIndicationResult>>
locOperation(puts) ==
  locSingleIndication(puts, LOCOperationIndication) \o LOCIndicationResult_Err
locEmptyRequest == <<>>
locUint64TLV(id) == Opt(id, U64)
locInt32TLV(id) == Opt(id, <<Vet, Raw(4)>>)
locFloat32TLV(id) == Opt(id, U32)
locFloat64TLV(id) == Opt(id, U64)

(***************************************************************************)
(* Sessions, NMEA and the operation mode (loc.go).                         *)
(***************************************************************************)
LOCRegisterEventsRequest ==
  <<Put(\h01, U64), Opt(\h10, <<Free(locClientStringMaxLength)>>), Opt(\h11, <<Vet, Raw(4)>>),
    Opt(\h12, Bool)>>
LOCStartRequest ==
  <<Put(\h01, U8), Opt(\h10, <<Vet, Raw(4)>>), Opt(\h12, <<Vet, Raw(4)>>), Opt(\h13, U32)>>
LOCStopRequest == <<Put(\h01, U8)>>
LOCSetNMEATypesRequest == <<Put(\h01, U32)>>
LOCGetNMEATypesRequest == locEmptyRequest
validateLOCOperationMode == Check
LOCSetOperationModeRequest == <<validateLOCOperationMode, Put(\h01, U32)>>
LOCGetOperationModeRequest == locEmptyRequest
LOCNMEAIndication == <<Must(\h01, Text)>>
LOCNMEATypesIndication == <<LOCIndicationResult, May(\h10, Fixed(4))>>
LOCOperationModeIndication == <<LOCIndicationResult, May(\h10, Fixed(4))>>
locRegisterEvents == locRequest(LOCRegisterEventsRequest)
\* The mask goes to the modem when it changes the union of the masks.
acquireLOCEvents == Maybe(locRequest(<<Put(\h01, U64)>>))
releaseLOCEvents == Maybe(Cleanup(<<Put(\h01, U64)>>))
watchLOCTLVs(rules) == acquireLOCEvents \o Watch(rules, "stop") \o releaseLOCEvents
LOCSessionCalls ==
  [LOCRegisterEvents |-> locRegisterEvents,
   LOCStart |-> locRequest(LOCStartRequest),
   LOCStop |-> locRequest(LOCStopRequest),
   LOCSetNMEATypes |-> locOperation(LOCSetNMEATypesRequest),
   LOCNMEATypes |->
     locSingleIndication(LOCGetNMEATypesRequest, LOCNMEATypesIndication)
       \o LOCIndicationResult_Err,
   LOCSetOperationMode |-> locOperation(LOCSetOperationModeRequest),
   LOCOperationMode |->
     locSingleIndication(LOCGetOperationModeRequest, LOCOperationModeIndication)
       \o LOCIndicationResult_Err,
   LOCWatchNMEA |-> watchLOCTLVs(LOCNMEAIndication)]

(***************************************************************************)
(* Assistance data (loc_assistance.go).                                    *)
(***************************************************************************)
decodeLOCStringList ==
  <<Room(1), Count(0, 1), Take(1),
    Each(<<Room(1), Count(0, 1), Take(1), RoomN(0, 1), TakeN(0, 1)>>), End>>
decodeLOCServerList == decodeLOCStringList
LOCIPv4Server_MarshalBinary == <<Vet, Raw(6)>>
LOCIPv4Server_UnmarshalBinary == Fixed(6)
LOCIPv6Server_MarshalBinary == <<Vet, Raw(20)>>
LOCIPv6Server_UnmarshalBinary == Fixed(20)
LOCAssistanceDataPart_MarshalTLVs ==
  <<Put(\h01, U32), Put(\h02, U16), Put(\h03, U16),
    Put(\h04, <<Pre(2, 1, locAssistanceDataPartMax)>>)>>
validateLOCServerType == Check
LOCSetServerRequest ==
  <<validateLOCServerType, Put(\h01, U32), Opt(\h10, LOCIPv4Server_MarshalBinary),
    Opt(\h11, LOCIPv6Server_MarshalBinary), Opt(\h12, <<Free(locServerURLMaxLength)>>)>>
LOCGetServerRequest == <<validateLOCServerType, Put(\h01, U32), Opt(\h10, <<Vet, Raw(1)>>)>>
LOCGetPredictedOrbitsDataSourceRequest == locEmptyRequest
LOCInjectPredictedOrbitsDataRequest ==
  LOCAssistanceDataPart_MarshalTLVs \o <<Opt(\h10, <<Vet, Raw(4)>>)>>
LOCInjectXTRADataRequest == LOCAssistanceDataPart_MarshalTLVs
LOCGetServerIndication ==
  <<LOCIndicationResult, May(\h02, Fixed(4)), May(\h10, LOCIPv4Server_UnmarshalBinary),
    May(\h11, LOCIPv6Server_UnmarshalBinary), May(\h12, <<AtMost(locServerURLMaxLength)>>)>>
LOCGetPredictedOrbitsDataSourceIndication ==
  <<LOCIndicationResult, May(\h10, Fixed(8)), May(\h11, decodeLOCServerList)>>
LOCAssistanceDataPartIndication == <<LOCIndicationResult, May(\h10, Fixed(2))>>
locInjectAssistancePart(puts) ==
  locSingleIndication(puts, LOCAssistanceDataPartIndication) \o LOCIndicationResult_Err
LOCAssistanceCalls ==
  [LOCSetServer |-> locOperation(LOCSetServerRequest),
   LOCServer |->
     locSingleIndication(LOCGetServerRequest, LOCGetServerIndication)
       \o LOCIndicationResult_Err,
   LOCPredictedOrbitsDataSource |->
     locSingleIndication(LOCGetPredictedOrbitsDataSourceRequest,
                         LOCGetPredictedOrbitsDataSourceIndication)
       \o LOCIndicationResult_Err,
   LOCInjectPredictedOrbitsPart |->
     locInjectAssistancePart(LOCInjectPredictedOrbitsDataRequest),
   LOCInjectXTRAPart |-> locInjectAssistancePart(LOCInjectXTRADataRequest)]

(***************************************************************************)
(* Events (loc_events.go).                                                 *)
(***************************************************************************)
parseLOCOptionalUint8(id) == May(id, Fixed(1))
parseLOCOptionalBool(id) == parseLOCOptionalUint8(id)
parseLOCOptionalUint32(id) == May(id, Fixed(4))
parseLOCOptionalUint64(id) == May(id, Fixed(8))
parseLOCOptionalFloat32(id) == parseLOCOptionalUint32(id)
parseLOCOptionalFloat64(id) == parseLOCOptionalUint64(id)
\* The count is compared with the room before it is multiplied.
decodeLOCUint16Array(prefixSize) ==
  <<Room(prefixSize), Count(0, prefixSize), RoomN(prefixSize, 2), ExactlyN(prefixSize, 2),
    PeekN(prefixSize, 2)>>
LOCPositionReport ==
  <<Must(\h01, Fixed(4)), parseLOCOptionalUint8(\h02), parseLOCOptionalFloat64(\h10),
    parseLOCOptionalFloat64(\h11)>>
    \o Mays(<<\h12, \h13, \h14, \h15, \h18, \h19, \h1A, \h1B, \h1C, \h1F, \h20, \h21, \h22,
              \h28>>, Fixed(4))
    \o Mays(<<\h16, \h1D, \h26>>, Fixed(1))
    \o Mays(<<\h17, \h1E, \h23, \h29, \h2B>>, Fixed(4))
    \o <<parseLOCOptionalUint64(\h25), parseLOCOptionalUint64(\h2A),
         parseLOCOptionalBool(\h2D), May(\h24, Fixed(12)), May(\h27, Fixed(6)),
         May(\h2C, decodeLOCUint16Array(1))>>
LOCGNSSSatelliteInfo ==
  <<parseLOCOptionalBool(\h01), Only(\h10, Array(1, 1, locGNSSSatelliteWireSize, NoMax))>>
LOCInjectTimeRequest == <<Must(\h10, <<Room(5), Take(4)>> \o decodeLOCStringList)>>
LOCInjectPredictedOrbitsRequest ==
  <<May(\h01, Fixed(8)), May(\h10, decodeLOCStringList), parseLOCOptionalUint64(\h11),
    parseLOCOptionalUint32(\h12), parseLOCOptionalUint32(\h13), May(\h14, Fixed(8))>>
LOCPositionInjectionRequest ==
  <<parseLOCOptionalFloat64(\h01), parseLOCOptionalFloat64(\h02),
    parseLOCOptionalFloat32(\h03), parseLOCOptionalUint64(\h04)>>
LOCEngineStateIndication == <<Must(\h01, Fixed(4))>>
LOCFixRecurrenceIndication == <<Must(\h10, Fixed(4))>>
LOCWatchReports ==
  [LOCWatchPositionReports |-> watchLOCTLVs(LOCPositionReport),
   LOCWatchGNSSSatelliteInfo |-> watchLOCTLVs(LOCGNSSSatelliteInfo),
   LOCWatchInjectTimeRequests |-> watchLOCTLVs(LOCInjectTimeRequest),
   LOCWatchInjectPredictedOrbitsRequests |-> watchLOCTLVs(LOCInjectPredictedOrbitsRequest),
   LOCWatchInjectPositionRequests |-> watchLOCTLVs(LOCPositionInjectionRequest)]
LOCWatchStates ==
  [LOCWatchEngineState |-> watchLOCTLVs(LOCEngineStateIndication),
   LOCWatchFixRecurrence |-> watchLOCTLVs(LOCFixRecurrenceIndication)]

(***************************************************************************)
(* Injection, the engine lock and deletion (loc_management.go).            *)
(***************************************************************************)
LOCGetPredictedOrbitsValidityRequest == locEmptyRequest
LOCGetPredictedOrbitsValidityIndication == <<LOCIndicationResult, May(\h10, Fixed(10))>>
LOCInjectUTCTimeRequest == <<Put(\h01, U64), Put(\h02, U32), locInt32TLV(\h10)>>
LOCVector3_MarshalBinary == <<Raw(12)>>
LOCVector3_UnmarshalBinary == Fixed(12)
LOCInjectPositionConfig_validate == Check
LOCInjectPositionRequest ==
  <<LOCInjectPositionConfig_validate, locFloat64TLV(\h10), locFloat64TLV(\h11),
    locFloat32TLV(\h12), Opt(\h13, U8), Opt(\h14, U32), locFloat32TLV(\h15),
    locFloat32TLV(\h16), locFloat32TLV(\h17), Opt(\h18, U8), Opt(\h19, U32),
    Opt(\h1A, <<Raw(12)>>), locUint64TLV(\h1B), Opt(\h1C, U32), Opt(\h1D, U32),
    locFloat32TLV(\h1E), Opt(\h1F, U8), Opt(\h20, Bool), Opt(\h21, U32),
    Opt(\h22, <<Raw(6)>>), locFloat32TLV(\h23), Opt(\h24, LOCVector3_MarshalBinary),
    Opt(\h25, LOCVector3_MarshalBinary),
    Opt(\h26, <<Pre(4, 2, (locMaxTLVValueLength - 4) \div 2)>>), Opt(\h27, U8)>>
validateLOCLockType == Check
LOCSetEngineLockRequest == <<validateLOCLockType, Put(\h01, U32)>>
LOCGetEngineLockRequest == locEmptyRequest
LOCGetEngineLockIndication == <<LOCIndicationResult, parseLOCOptionalUint32(\h10)>>
LOCDeleteAssistanceDataRequest ==
  <<Opt(\h01, Bool), Opt(\h10, <<Pre(1, 7, 255), Vet>>), locUint64TLV(\h11), Opt(\h12, U32),
    Opt(\h13, U32)>>
LOCManagementCalls ==
  [LOCPredictedOrbitsDataValidity |->
     locSingleIndication(LOCGetPredictedOrbitsValidityRequest,
                         LOCGetPredictedOrbitsValidityIndication)
       \o LOCIndicationResult_Err,
   LOCInjectUTCTime |-> locOperation(LOCInjectUTCTimeRequest),
   LOCInjectPosition |-> locOperation(LOCInjectPositionRequest),
   LOCSetEngineLock |-> locOperation(LOCSetEngineLockRequest),
   LOCEngineLock |->
     locSingleIndication(LOCGetEngineLockRequest, LOCGetEngineLockIndication)
       \o LOCIndicationResult_Err,
   LOCDeleteAssistanceData |-> locOperation(LOCDeleteAssistanceDataRequest)]

\* A decoder that no method of the client uses.
LOCTypes == [LOCVector3 |-> Watch(<<May(\h24, LOCVector3_UnmarshalBinary)>>, "stop")]

LOCCalls ==
  LOCSessionCalls @@ LOCAssistanceCalls @@ LOCWatchReports @@ LOCWatchStates
    @@ LOCManagementCalls @@ LOCTypes
=============================================================================
