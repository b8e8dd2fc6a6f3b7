---------------------------- MODULE MCDatumParser ----------------------------
(* Sources at the limits of the header checks, and metadata of up to 64     *)
(* bytes of datums whose sizes are right, too small, too large or 0.        *)
EXTENDS DatumParser

Source(caller, signature, metadataSize, headerSize, available) ==
  [caller |-> caller, signature |-> signature, metadataSize |-> metadataSize,
   headerSize |-> headerSize, available |-> available]

MCSources ==
  { Source(caller, TRUE, 48 + datums, 48, 100 + datums) :
      caller \in {"NewInformation", "NewDataset"}, datums \in {0, 7, 12, 64} }
  \union
  { Source("NewInformation", signature, metadataSize, headerSize, available) :
      signature \in BOOLEAN, metadataSize \in {47, 48, 56, 4096, 4097, 65536, 65537},
      headerSize \in {0, 47, 48, 56, 4096, 4097}, available \in {-1, 47, 55, 56} }
  \union
  { Source("NewDataset", TRUE, metadataSize, headerSize, available) :
      metadataSize \in {47, 48, 56, 67108864, 67108865}, headerSize \in {47, 48, 56, 57},
      available \in {47, 55, 56} }

MCSizes ==
  [UseKey |-> {8, 12, 14, 24, 36}, StretchKey |-> {28, 40}, Key |-> {0, 12, 20},
   Unicode |-> {0, 8, 14}, VirtualizationInfo |-> {24, 32}]

MCHeaders == UNION { [type : {type}, size : MCSizes[type]] : type \in DOMAIN MCSizes }
=============================================================================
