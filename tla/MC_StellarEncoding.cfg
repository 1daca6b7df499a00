CONSTANTS
  Keys <- MCKeys
  Positions = {1, 2, 8, 29, 50, 53, 55, 56}
  Uint32s <- MCUint32s
  Opaques <- MCOpaques
  AssetCodes <- MCAssetCodes

SPECIFICATION EncSpec

INVARIANT EncTypeOK
INVARIANT AddressRoundTrip
INVARIANT XdrIsRfc4506
