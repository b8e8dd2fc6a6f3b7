------------------------ MODULE MCSetReservedRegions ------------------------
(* Small volumes for SetReservedRegions: 4 KiB sectors, three metadata     *)
(* blocks at offsets that may coincide, overlap, touch or lie apart.       *)
EXTENDS SetReservedRegions

MCOffsets == {0, 4096, 3 * 4096, 5 * 4096 + 512, 9 * 4096, 17 * 4096}

MCEow == { <<>>, <<[offset |-> 2 * 4096, size |-> 0]>>,
           <<[offset |-> 9 * 4096, size |-> 5000]>>,
           <<[offset |-> 32 * 4096, size |-> 5000]>> }

(* Regions of 4 or 8 sectors with version 1, of 16 with version 2. *)
MCVolumes ==
  [version : {0, 1, 2}, sectorSize : {4096}, clusterSize : {4096, 32768},
   offsets : MCOffsets \X MCOffsets \X MCOffsets, metadataSize : {16320},
   eow : MCEow]

MCSectors == 0..36

(* The format NewInformation accepts, with its largest metadata size. *)
LargeMetadataVolumes ==
  [version : {1}, sectorSize : {4096}, clusterSize : {4096},
   offsets : {<<9 * 4096, 40 * 4096, 0>>}, metadataSize : {16320, 65536},
   eow : {<<>>}]
=============================================================================
