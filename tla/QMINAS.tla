------------------------------- MODULE QMINAS -------------------------------
(***************************************************************************)
(* The QMI network access service (qcom/nas*.go) in the notation of        *)
(* QMIWire: serving system, signal, cells, operator names, scans,          *)
(* selection preferences and their indications. A definition has the name  *)
(* of the Go type whose UnmarshalTLVs, UnmarshalBinary, Request or         *)
(* MarshalTLVs it translates, or of the Go function.                       *)
(***************************************************************************)
EXTENDS QMIWire, TLC

nasReadRequest(puts, rules) == Ask(puts, rules)
nasRead(rules) == nasReadRequest(<<>>, rules)

(***************************************************************************)
(* Serving system, signal and home network (nas.go, nas_info.go).          *)
(***************************************************************************)
nasTLVType(type, response, indication) ==
  IF type = "indication" THEN indication ELSE response

parseNASPLMN == Array(5, 1, 1, NoMax)

NASServingSystem_unmarshalOptionalTLVs(type) ==
  <<May(\h10, Fixed(1)), May(\h11, Array(1, 1, 1, 10)), May(\h12, parseNASPLMN),
    May(\h1A, Fixed(1)), May(\h1B, Fixed(1)),
    May(nasTLVType(type, \h1C, \h1D), Fixed(2)),
    May(nasTLVType(type, \h1D, \h1E), Fixed(4)),
    May(nasTLVType(type, \h24, \h25), Fixed(2)),
    May(nasTLVType(type, \h27, \h29), Fixed(5)),
    May(nasTLVType(type, \h29, \h2B), Fixed(4))>>
NASServingSystem_unmarshalTLVs(type) ==
  <<Must(\h01, Array(5, 1, 1, NoMax))>> \o NASServingSystem_unmarshalOptionalTLVs(type)
NASServingSystem_UnmarshalTLVs == NASServingSystem_unmarshalTLVs("response")
NASServingSystem_UnmarshalIndicationTLVs == NASServingSystem_unmarshalTLVs("indication")
NASGetServingSystemRequest == <<>>
NASGetServingSystemResponse == NASServingSystem_UnmarshalTLVs
NASServingSystemCall ==
  [NASServingSystem |-> Ask(NASGetServingSystemRequest, NASGetServingSystemResponse)]

NASBindSubscriptionRequest == <<Check, Put(\h01, U8)>>
NASCommonSignalInfo == Fixed(3)
NASSignalInfo ==
  <<May(\h10, NASCommonSignalInfo), May(\h11, Fixed(8)), May(\h12, Fixed(1)),
    May(\h13, NASCommonSignalInfo), May(\h14, Fixed(6)), May(\h15, Fixed(1)),
    May(\h16, Fixed(16)), May(\h17, Fixed(4)), May(\h18, Fixed(2)), May(\h19, Fixed(2))>>

parseNASRFBand(extended) == Fixed(IF extended THEN 7 ELSE 5)
parseNASRFBands(extended) == Array(1, 1, IF extended THEN 7 ELSE 5, 16)
NASRFDedicatedBand == Fixed(3)
parseNASRFDedicatedBands == Array(1, 1, 3, 16)
NASRFBandwidth == Fixed(5)
parseNASRFBandwidths == Array(1, 1, 5, 16)
NASRFBandInfo_UnmarshalTLVs ==
  <<Must(\h01, parseNASRFBands(FALSE)), May(\h10, parseNASRFDedicatedBands),
    May(\h11, parseNASRFBands(TRUE)), May(\h12, parseNASRFBandwidths), May(\h13, Fixed(4))>>
NASRFBandInfo_UnmarshalIndicationTLVs ==
  <<Must(\h01, parseNASRFBand(FALSE)), May(\h10, NASRFDedicatedBand),
    May(\h11, parseNASRFBand(TRUE)), May(\h12, NASRFBandwidth), May(\h13, Fixed(4))>>

NASHomeNetwork == <<Must(\h01, parseNASPLMN), May(\h12, Fixed(2)), May(\h13, Fixed(4))>>
NASNetworkTimeUpdate == <<Must(\h01, Fixed(8))>> \o Mays(<<\h10, \h11, \h12>>, Fixed(1))
parseNASNetworkTime == Fixed(11)
NASNetworkTimes == Mays(<<\h10, \h11>>, parseNASNetworkTime)
NASInfoCalls ==
  [SignalInfo |-> nasRead(NASSignalInfo),
   RFBandInfo |-> nasRead(NASRFBandInfo_UnmarshalTLVs),
   HomeNetwork |-> nasRead(NASHomeNetwork),
   NetworkTime |-> nasRead(NASNetworkTimes),
   NASBindSubscription |-> nasReadRequest(NASBindSubscriptionRequest, <<>>)]

NASEDRXParameters == Mays(<<\h10, \h11, \h12, \h13>>, Fixed(1)) \o <<May(\h14, Fixed(4))>>

(***************************************************************************)
(* Event reports and incremental scans (nas_event.go, nas_incremental.go). *)
(***************************************************************************)
NASSignalStrength == Fixed(2)
parseNASLegacyEventRFBands == Array(1, 1, 5, NoMax)
NASEventReport ==
  <<May(\h10, NASSignalStrength), May(\h11, parseNASLegacyEventRFBands), May(\h12, Fixed(3)),
    May(\h13, Fixed(2)), May(\h14, Fixed(2)), May(\h15, Fixed(4)), May(\h16, Fixed(1)),
    May(\h17, Fixed(3)), May(\h18, Fixed(2)), May(\h19, Fixed(2)), May(\h1A, Fixed(2))>>

\* At most top thresholds, and some if the report is on.
validateNASLegacyThresholds(u, top) == <<Vet, Raw(1), Pre(1, u, top)>>
NASSetEventReportConfig ==
  <<Opt(\h10, validateNASLegacyThresholds(1, 5)), Opt(\h11, Bool), Opt(\h12, Bool)>>
    \o Opts(<<\h13, \h14, \h15, \h16>>, <<Raw(2)>>)
    \o <<Opt(\h17, Bool), Opt(\h18, <<Raw(2)>>),
         Opt(\h19, validateNASLegacyThresholds(2, 10)),
         Opt(\h1A, validateNASLegacyThresholds(1, 5)), Opt(\h1B, <<Raw(3)>>),
         Opt(\h1C, <<Raw(2)>>)>>
NASSetEventReportRequest == NASSetEventReportConfig
NASEventCall == [NASSetEventReport |-> nasReadRequest(NASSetEventReportRequest, <<>>)]

\* A list of visible networks: a description of up to 255 bytes ends an entry.
VisibleNetworks(entry) ==
  <<Room(2), Count(0, 2), Top(40), Take(2),
    Each(<<Room(entry), Count(entry - 1, 1), RoomN(entry, 1), TakeN(entry, 1)>>), End>>
decodeNASIncrementalNetworks == VisibleNetworks(8)
NASIncrementalNetworkScanUpdate ==
  <<Must(\h01, Fixed(4)), May(\h10, decodeNASIncrementalNetworks)>>
NASIncrementalNetworkScanConfig == <<Opt(\h10, <<Vet, Raw(1)>>)>>
startNASIncrementalNetworkScan == Tell(NASIncrementalNetworkScanConfig)
abortNASIncrementalNetworkScan == Cleanup(<<Put(\h01, U16)>>)
\* A terminal update ends the scan; anything else that ends it aborts it.
NASIncrementalCall ==
  [IncrementalNetworkScan |->
     startNASIncrementalNetworkScan \o WatchUntil(NASIncrementalNetworkScanUpdate, "stop")
       \o abortNASIncrementalNetworkScan]

(***************************************************************************)
(* Signal strength, scans and registration (nas_legacy_signal.go,          *)
(* nas_network.go).                                                        *)
(***************************************************************************)
NASAbortRequest == <<Put(\h01, U16)>>
NASGetSignalStrengthRequest == <<Opt(\h10, U16)>>
parseNASLegacyArray(entry, top) == Array(2, 2, entry, top)
NASSignalStrengthResult ==
  <<Must(\h01, NASSignalStrength), May(\h10, parseNASLegacyArray(2, 2)),
    May(\h11, parseNASLegacyArray(2, 7)), May(\h12, parseNASLegacyArray(2, 6)),
    May(\h13, Fixed(4)), May(\h14, Fixed(1)), May(\h15, parseNASLegacyArray(3, 16))>>
    \o Mays(<<\h16, \h17, \h18>>, Fixed(2))
NASSignalStrengthCall ==
  [SignalStrength |-> nasReadRequest(NASGetSignalStrengthRequest, NASSignalStrengthResult)]

NASLTEBandPreferenceExtended_MarshalBinary == <<Raw(32)>>
NASNetworkScanConfig ==
  <<Opt(\h10, U8), Opt(\h11, <<Vet, Raw(4)>>)>> \o Opts(<<\h12, \h13, \h14>>, U64)
    \o <<Opt(\h1A, <<Vet, Raw(4)>>), Opt(\h1B, NASLTEBandPreferenceExtended_MarshalBinary)>>
NASPerformNetworkScanRequest == NASNetworkScanConfig
parseNASVisibleNetworks == VisibleNetworks(6)
applyNASNetworkRadios == Array(2, 2, 5, 40)
applyNASNetworkMNCDigits == Array(2, 2, 5, 40)
\* One name source for every network decoded before.
applyNASNetworkNameSources ==
  <<Room(1), Count(0, 1), ExactlyN(1, 4), Judged, PeekN(1, 4)>>
NASNetworkScan ==
  <<May(\h10, parseNASVisibleNetworks), May(\h16, applyNASNetworkNameSources),
    May(\h11, applyNASNetworkRadios), May(\h12, applyNASNetworkMNCDigits), May(\h13, Fixed(4))>>
NASNetworkRegistration ==
  <<Check, Put(\h01, U8), Given(<<Check, Put(\h10, <<Raw(5)>>), Opt(\h12, Bool)>>),
    Opt(\h11, U8)>>
NASInitiateNetworkRegisterRequest == NASNetworkRegistration
NASScanCall ==
  [NetworkScan |-> nasReadRequest(NASPerformNetworkScanRequest, NASNetworkScan)]
NASRegisterCall ==
  [RegisterNetwork |-> nasReadRequest(NASInitiateNetworkRegisterRequest, <<>>)]

(***************************************************************************)
(* Operator names (nas_operator.go, nas_operator_legacy.go).               *)
(***************************************************************************)
encodeNASPLMNNameRequest ==
  <<Put(\h01, U32)>> \o Opts(<<\h10, \h11, \h12, \h13>>, Bool)
    \o <<Opt(\h14, U32), Opt(\h15, U8), Opt(\h16, Bool)>>
decodeNASEncodedName(metadata) ==
  LET m == IF metadata THEN 2 ELSE 0
  IN  <<Room(2 + m), Take(1 + m), Count(0, 1), Take(1), RoomN(0, 1), TakeN(0, 1)>>
decodeNASCurrentPLMNEncodedName(metadata) == decodeNASEncodedName(metadata) \o <<End>>
NASPLMNName_decodeNames ==
  decodeNASEncodedName(FALSE) \o decodeNASEncodedName(TRUE) \o decodeNASEncodedName(TRUE)
    \o <<End>>
decodeNASUint16ArrayAt == <<Room(1), Count(0, 1), Take(1), RoomN(0, 2), TakeN(0, 2)>>
decodeNASUint16Array == decodeNASUint16ArrayAt \o <<End>>
decodeNASLocalizedPLMNNames ==
  <<Room(1), Count(0, 1), Take(1),
    Each(decodeNASUint16ArrayAt \o decodeNASUint16ArrayAt \o <<Room(4), Take(4)>>), End>>
decodeNASUTF16String(top) == <<Whole(2), Top(top), PeekN(0, 2)>>
NASPLMNName ==
  <<May(\h10, NASPLMNName_decodeNames), May(\h11, Fixed(8)), May(\h12, Fixed(4)),
    May(\h13, decodeNASLocalizedPLMNNames), May(\h14, decodeNASUint16Array), May(\h15, Fixed(4))>>
NASCurrentPLMNName ==
  <<May(\h10, Fixed(5)), May(\h11, decodeNASCurrentPLMNEncodedName(FALSE)),
    May(\h12, decodeNASCurrentPLMNEncodedName(TRUE)),
    May(\h13, decodeNASCurrentPLMNEncodedName(TRUE)), May(\h14, Fixed(4)), May(\h15, Fixed(8)),
    May(\h16, Fixed(4)), May(\h17, Fixed(1)), May(\h18, decodeNASLocalizedPLMNNames),
    May(\h19, decodeNASUint16Array), May(\h1A, Fixed(4)), May(\h1B, decodeNASUTF16String(64)),
    May(\h1C, Fixed(3))>>
requiredNASByte(id) == Must(id, Fixed(1))
NASNetworkReject ==
  <<requiredNASByte(\h01), requiredNASByte(\h02), requiredNASByte(\h03), May(\h10, Fixed(5)),
    May(\h11, Fixed(4)), May(\h12, Fixed(4))>>
NASPLMNNameCall ==
  [PLMNName |-> nasReadRequest(<<Check>> \o encodeNASPLMNNameRequest, NASPLMNName)]

decodeNASOperatorPLMNNameAt ==
  <<Room(6), Take(4), Count(0, 1), Take(1), RoomN(1, 1), TakeN(0, 1), Count(0, 1), Take(1),
    RoomN(0, 1), TakeN(0, 1)>>
decodeNASOperatorPLMNNames ==
  <<Room(1), Count(0, 1), Top(64), Take(1), Each(decodeNASOperatorPLMNNameAt), End>>
decodeNASOperatorPLMNRecords == Array(2, 2, 11, 255)
NASOperatorNameData ==
  <<May(\h10, <<Room(1), AtMost(17), Peek(1)>>), May(\h11, decodeNASOperatorPLMNRecords),
    May(\h12, decodeNASOperatorPLMNNames), May(\h13, <<AtMost(255)>>),
    May(\h14, decodeNASOperatorPLMNNameAt \o <<End>>)>>
NASOperatorCall == [OperatorNameData |-> nasRead(NASOperatorNameData)]

(***************************************************************************)
(* Preferred networks and technologies (nas_preferences.go).               *)
(***************************************************************************)
decodeNASPreferredNetworkList(top) == Array(2, 2, 6, top)
applyNASMNCDigitStatus == Array(1, 1, 5, 85)
NASPreferredNetworks ==
  <<May(\h10, decodeNASPreferredNetworkList(85)), May(\h11, decodeNASPreferredNetworkList(40)),
    May(\h12, applyNASMNCDigitStatus), May(\h13, applyNASMNCDigitStatus)>>
NASTechnologyPreferences == <<Must(\h01, Fixed(3)), May(\h10, Fixed(2))>>
encodeNASPreferredNetworkList == <<Within(2, 6, 85)>>
encodeNASMNCDigitStatus == <<Within(1, 5, 85)>>
NASPreferredNetworksConfig ==
  <<Given(<<Check, Put(\h10, encodeNASPreferredNetworkList), Opt(\h11, encodeNASMNCDigitStatus)>>),
    Opt(\h12, Bool)>>
NASPreferenceCalls ==
  [NASAttachDetach |-> nasReadRequest(<<Check, Put(\h10, U8)>>, <<>>),
   PreferredNetworks |-> nasRead(NASPreferredNetworks),
   SetPreferredNetworks |-> nasReadRequest(NASPreferredNetworksConfig, <<>>)]
NASTechnologyCalls ==
  [TechnologyPreferences |-> nasRead(NASTechnologyPreferences),
   SetTechnologyPreference |-> nasReadRequest(<<Check, Put(\h01, <<Raw(3)>>)>>, <<>>)]

(***************************************************************************)
(* Radio state (nas_radio.go).                                             *)
(***************************************************************************)
validNASDRX == Judged
NASDRX == <<Must(\h10, Fixed(4) \o <<validNASDRX>>)>>
decodeNASRXChain == Fixed(21)
NASTxRxInfo == Mays(<<\h10, \h11, \h15, \h16>>, decodeNASRXChain) \o <<May(\h12, Fixed(5))>>
NASCDMAPositionInfo == <<Only(\h10, Array(2, 1, 30, 10))>>
decodeNASLTECarrierCell(secondary) == Fixed(IF secondary THEN 14 ELSE 10)
decodeNASLTESecondaryCells == Array(1, 1, 15, 4)
NASLTECarrierAggregationInfo ==
  <<May(\h11, Fixed(4)), May(\h13, decodeNASLTECarrierCell(FALSE)),
    May(\h12, decodeNASLTECarrierCell(TRUE)), May(\h14, Fixed(1)),
    May(\h15, decodeNASLTESecondaryCells)>>
NASENDCConfig == Mays(<<\h10, \h11>>, Fixed(1) \o <<Judged>>)
NASRadioCalls ==
  [NASReset |-> nasRead(<<>>),
   TxRxInfo |-> nasReadRequest(<<Put(\h01, U8)>>, NASTxRxInfo),
   CDMAPositionInfo |-> nasRead(NASCDMAPositionInfo),
   ForceNetworkSearch |-> nasRead(<<>>),
   DRX |-> nasRead(NASDRX)]
NASCarrierCalls ==
  [LTECarrierAggregationInfo |-> nasRead(NASLTECarrierAggregationInfo),
   ENDCConfig |-> nasRead(NASENDCConfig)]

(***************************************************************************)
(* System selection (nas_selection.go).                                    *)
(***************************************************************************)
nasAcquisitionOrder_UnmarshalBinary == Array(1, 1, 1, 10)
nasAcquisitionOrder_MarshalBinary == <<Pre(1, 1, 10)>>
NASLTEBandPreferenceExtended_UnmarshalBinary == Fixed(32)
NASNR5GBandPreference_UnmarshalBinary == Fixed(64)
NASNR5GBandPreference_MarshalBinary == <<Raw(64)>>
nasUint64TLV(id) == Opt(id, U64)
NASGetSystemSelectionPreferenceRequest == <<>>
NASSystemSelectionPreference ==
  <<May(\h10, Fixed(1)), May(\h11, Fixed(2)), May(\h12, Fixed(8)), May(\h13, Fixed(2)),
    May(\h14, Fixed(2)), May(\h15, Fixed(8)), May(\h16, Fixed(1)), May(\h18, Fixed(4)),
    May(\h19, Fixed(4)), May(\h1A, Fixed(8)), May(\h1B, Fixed(5)),
    May(\h1C, nasAcquisitionOrder_UnmarshalBinary), May(\h1D, Fixed(4)), May(\h1F, Fixed(4)),
    May(\h20, Fixed(4)), May(\h21, Fixed(4)), May(\h22, Fixed(2)),
    May(\h23, NASLTEBandPreferenceExtended_UnmarshalBinary),
    May(\h28, NASNR5GBandPreference_UnmarshalBinary), May(\h2B, Fixed(4))>>
    \o Mays(<<\h2C, \h2D>>, NASNR5GBandPreference_UnmarshalBinary)
NASNetworkSelection == <<Check, Put(\h16, <<Raw(5)>>), Opt(\h1A, Bool), Opt(\h22, U8)>>
NASSystemSelectionConfig ==
  <<Opt(\h10, Bool), Opt(\h11, U16), nasUint64TLV(\h12), Opt(\h13, U16), Opt(\h14, U16),
    nasUint64TLV(\h15), Given(NASNetworkSelection), Opt(\h17, U8), Opt(\h18, U32), Opt(\h19, U32),
    nasUint64TLV(\h1D), Opt(\h1E, nasAcquisitionOrder_MarshalBinary), Opt(\h1F, U32),
    Opt(\h21, U32), Opt(\h23, U32), Opt(\h24, NASLTEBandPreferenceExtended_MarshalBinary),
    Opt(\h2B, NASNR5GBandPreference_MarshalBinary), Opt(\h2E, U32)>>
    \o Opts(<<\h2F, \h30>>, NASNR5GBandPreference_MarshalBinary)
NASSetSystemSelectionPreferenceRequest == NASSystemSelectionConfig
NASSelectionCalls ==
  [SystemSelectionPreference |->
     nasReadRequest(NASGetSystemSelectionPreferenceRequest, NASSystemSelectionPreference),
   SetSystemSelectionPreference |->
     nasReadRequest(NASSetSystemSelectionPreferenceRequest, <<>>)]

(***************************************************************************)
(* Signal thresholds (nas_signal_config.go).                               *)
(***************************************************************************)
encodeNASInt16s(top) == <<Vet, Pre(1, 2, top)>>
encodeNASSignalThresholds2 == encodeNASInt16s(32)
NASLTESignalReportConfig_validate == <<Vet, Raw(2)>>
NASConfigureSignalInfoRequest ==
  LET thresholds(u) == <<Vet, Pre(1, u, 16)>>
  IN  <<Opt(\h10, thresholds(1)), Opt(\h11, encodeNASInt16s(16)), Opt(\h12, thresholds(1)),
        Opt(\h13, encodeNASInt16s(16)), Opt(\h14, thresholds(4)), Opt(\h15, thresholds(1)),
        Opt(\h16, encodeNASInt16s(16)), Opt(\h17, <<Vet, Raw(2)>>), Opt(\h18, thresholds(1)),
        Opt(\h19, thresholds(4)), Check>>
NASConfigureSignalInfo2Request ==
  LET metric(threshold, delta) ==
        <<Opt(threshold, encodeNASSignalThresholds2), Opt(delta, <<Vet, Raw(2)>>)>>
  IN  metric(\h22, \h23) \o metric(\h24, \h25) \o metric(\h26, \h27) \o metric(\h28, \h29)
        \o metric(\h33, \h34) \o metric(\h38, \h39) \o metric(\h35, \h36) \o metric(\h3A, \h3B)
        \o <<Opt(\h2A, NASLTESignalReportConfig_validate), Opt(\h37, <<Vet, Raw(2)>>), Check>>
NASSignalConfigCall ==
  [ConfigureSignalInfo |-> nasReadRequest(NASConfigureSignalInfoRequest, <<>>)]
NASSignalConfig2Call ==
  [ConfigureSignalInfo2 |-> nasReadRequest(NASConfigureSignalInfo2Request, <<>>)]

(***************************************************************************)
(* System information (nas_sys_info.go): the service and the system TLVs   *)
(* of each radio technology, with other types in an indication.            *)
(***************************************************************************)
parseNASServiceStatus(threeGPP) == Fixed(IF threeGPP THEN 3 ELSE 2)
parseNASSystemPLMN == <<Peek(26), Judged>>
parseNASSystemInfo(length, threeGPP, trackingArea) ==
  <<Exactly(length), Peek(8)>>
    \o (IF threeGPP THEN <<Peek(20), OneOf({<<>>, parseNASSystemPLMN})>> ELSE <<>>)
    \o (IF trackingArea THEN <<Peek(29)>> ELSE <<>>)
parseNASBool == Fixed(1)
parseNASUint32 == Fixed(4)
NASSysInfo_parseCapabilities(type) ==
  LET flag(r, i) == May(nasTLVType(type, r, i), parseNASBool)
  IN  <<flag(\h21, \h21), flag(\h29, \h2A), flag(\h4E, \h50), flag(\h4F, \h51), flag(\h51, \h53),
        flag(\h52, \h54), flag(\h58, \h5A), flag(\h59, \h5B),
        May(nasTLVType(type, \h4D, \h4F), parseNASUint32),
        May(nasTLVType(type, \h50, \h52), Fixed(3)), May(nasTLVType(type, \h54, \h56), Fixed(2))>>
NASSysInfo_unmarshalTLVs(type) ==
  LET service(r, i, threeGPP) == May(nasTLVType(type, r, i), parseNASServiceStatus(threeGPP))
      system(r, i, length, threeGPP, area) ==
        May(nasTLVType(type, r, i), parseNASSystemInfo(length, threeGPP, area))
      domain(r, i) == May(nasTLVType(type, r, i), parseNASUint32)
  IN  <<service(\h10, \h10, FALSE), service(\h11, \h11, FALSE), service(\h12, \h12, TRUE),
        service(\h13, \h13, TRUE), service(\h14, \h14, TRUE), service(\h24, \h25, TRUE),
        service(\h4A, \h4C, TRUE),
        system(\h15, \h15, 42, FALSE, FALSE), system(\h16, \h16, 31, FALSE, FALSE),
        system(\h17, \h17, 30, TRUE, FALSE), system(\h18, \h18, 33, TRUE, FALSE),
        system(\h19, \h19, 29, TRUE, TRUE), system(\h25, \h26, 50, TRUE, FALSE),
        system(\h4B, \h4D, 29, TRUE, TRUE),
        domain(\h3F, \h40), domain(\h36, \h37), domain(\h3A, \h3B), domain(\h3C, \h3D),
        domain(\h2A, \h2B), domain(\h41, \h42), domain(\h56, \h58),
        domain(\h40, \h41), domain(\h37, \h38), domain(\h3B, \h3C), domain(\h3D, \h3E),
        domain(\h38, \h39), domain(\h42, \h43), domain(\h57, \h59)>>
        \o NASSysInfo_parseCapabilities(type)
NASSysInfo_UnmarshalTLVs == NASSysInfo_unmarshalTLVs("response")
NASSysInfo_UnmarshalIndicationTLVs == NASSysInfo_unmarshalTLVs("indication")
NASGetSysInfoRequest == <<>>
NASGetSysInfoResponse == NASSysInfo_UnmarshalTLVs
NASSysInfoCall == [SystemInfo |-> nasRead(NASSysInfo_UnmarshalTLVs)]

(***************************************************************************)
(* Cell location (nas_location.go). Reads by the cursor that follow one    *)
(* another without a test between them are one take.                       *)
(***************************************************************************)
nasLocationCursor_take(k) == <<Room(k), Take(k)>>
nasLocationCursor_uint8 == <<Room(1), Count(0, 1), Take(1)>>
nasLocationCursor_finish == <<End>>
decodeNASLocationPLMN == Judged
decodeNASLocationUint32 == Fixed(4)
decodeNASLocationUint32Array == Array(1, 1, 4, NoMax)
NASGERANCellLocation ==
  nasLocationCursor_take(7) \o <<decodeNASLocationPLMN>> \o nasLocationCursor_take(11)
    \o nasLocationCursor_uint8
    \o <<Each(nasLocationCursor_take(7) \o <<decodeNASLocationPLMN>> \o nasLocationCursor_take(7))>>
    \o nasLocationCursor_finish
decodeNASUMTSNeighbor == nasLocationCursor_take(8)
NASUMTSCellLocation ==
  nasLocationCursor_take(5) \o <<decodeNASLocationPLMN>> \o nasLocationCursor_take(10)
    \o nasLocationCursor_uint8 \o <<Each(decodeNASUMTSNeighbor)>>
    \o nasLocationCursor_uint8 \o <<Each(nasLocationCursor_take(6))>> \o nasLocationCursor_finish
NASCDMACellLocation == Fixed(16)
decodeNASLTECells == nasLocationCursor_uint8 \o <<Each(nasLocationCursor_take(10))>>
NASLTEIntraFrequency ==
  nasLocationCursor_take(4) \o <<decodeNASLocationPLMN>> \o nasLocationCursor_take(14)
    \o decodeNASLTECells \o nasLocationCursor_finish
NASLTEInterFrequency ==
  nasLocationCursor_take(1) \o nasLocationCursor_uint8
    \o <<Each(nasLocationCursor_take(5) \o decodeNASLTECells)>> \o nasLocationCursor_finish
NASLTEGERANNeighbors ==
  nasLocationCursor_take(1) \o nasLocationCursor_uint8
    \o <<Each(nasLocationCursor_take(4) \o nasLocationCursor_uint8
                \o <<Each(nasLocationCursor_take(9))>>)>> \o nasLocationCursor_finish
NASLTEWCDMANeighbors ==
  nasLocationCursor_take(1) \o nasLocationCursor_uint8
    \o <<Each(nasLocationCursor_take(7) \o nasLocationCursor_uint8
                \o <<Each(nasLocationCursor_take(8))>>)>> \o nasLocationCursor_finish
NASUMTSLTENeighbors ==
  nasLocationCursor_take(4) \o nasLocationCursor_uint8 \o <<Each(nasLocationCursor_take(15))>>
    \o nasLocationCursor_finish
NASNR5GCellLocation == <<Exactly(22), Peek(3), decodeNASLocationPLMN, Peek(22)>>
NASCellLocationInfo ==
  <<May(\h10, NASGERANCellLocation), May(\h11, NASUMTSCellLocation),
    May(\h12, NASCDMACellLocation), May(\h13, NASLTEIntraFrequency),
    May(\h14, NASLTEInterFrequency), May(\h15, NASLTEGERANNeighbors),
    May(\h16, NASLTEWCDMANeighbors), May(\h17, decodeNASLocationUint32),
    May(\h18, NASUMTSLTENeighbors), May(\h1E, decodeNASLocationUint32),
    May(\h27, decodeNASLocationUint32), May(\h28, decodeNASLocationUint32Array),
    May(\h29, decodeNASLocationUint32Array), May(\h2E, decodeNASLocationUint32),
    May(\h2F, NASNR5GCellLocation)>>
NASLocationCall == [CellLocationInfo |-> nasRead(NASCellLocationInfo)]

(***************************************************************************)
(* Indications (nas_watch.go): the first watcher of a kind registers for it*)
(* and the last one to leave unregisters.                                  *)
(***************************************************************************)
NASIndicationRegisterRequest ==
  Opts(<<\h10, \h11, \h13, \h17, \h18, \h19, \h1A, \h1E, \h20>>, Bool)
    \o <<Opt(\h21, <<Raw(2)>>), Opt(\h35, Bool)>>
NASIndicationCall ==
  [NASSetIndicationRegistration |-> nasReadRequest(NASIndicationRegisterRequest, <<>>)]
setNASIndication(id) == <<Put(id, IF id = \h21 THEN <<Raw(2)>> ELSE Bool)>>
acquireNASIndication(id) == Tell(setNASIndication(id))
releaseNASIndication(id) == Cleanup(setNASIndication(id))
watchNASTLVs(id, rules, bad) ==
  acquireNASIndication(id) \o Watch(rules, bad) \o releaseNASIndication(id)
NASWatchCalls1 ==
  [NASWatchServingSystem |->
     watchNASTLVs(\h13, NASServingSystem_UnmarshalIndicationTLVs, "skip"),
   NASWatchOperatorName |-> watchNASTLVs(\h11, NASOperatorNameData, "skip"),
   NASWatchSignalInfo |-> watchNASTLVs(\h19, NASSignalInfo, "skip"),
   NASWatchErrorRate |-> watchNASTLVs(\h1A, NASEventReport, "skip"),
   NASWatchSystemInfo |-> watchNASTLVs(\h18, NASSysInfo_UnmarshalIndicationTLVs, "skip")]
NASWatchCalls2 ==
  [NASWatchNetworkTime |-> watchNASTLVs(\h17, NASNetworkTimeUpdate, "skip"),
   NASWatchSystemSelection |-> watchNASTLVs(\h10, NASSystemSelectionPreference, "skip"),
   NASWatchCurrentPLMNName |-> watchNASTLVs(\h1E, NASCurrentPLMNName, "skip"),
   NASWatchRFBandInfo |-> watchNASTLVs(\h20, NASRFBandInfo_UnmarshalIndicationTLVs, "stop"),
   NASWatchEDRXParameters |-> watchNASTLVs(\h35, NASEDRXParameters, "skip"),
   NASWatchNetworkReject |-> watchNASTLVs(\h21, NASNetworkReject, "skip")]

NASCalls ==
  NASServingSystemCall @@ NASInfoCalls @@ NASEventCall @@ NASIncrementalCall
    @@ NASSignalStrengthCall @@ NASScanCall @@ NASRegisterCall @@ NASPLMNNameCall
    @@ NASOperatorCall @@ NASPreferenceCalls @@ NASTechnologyCalls @@ NASRadioCalls
    @@ NASCarrierCalls @@ NASSelectionCalls @@ NASSignalConfigCall @@ NASSignalConfig2Call
    @@ NASSysInfoCall @@ NASLocationCall @@ NASIndicationCall @@ NASWatchCalls1
    @@ NASWatchCalls2 @@ [NASAbort |-> Tell(NASAbortRequest)]
=============================================================================
