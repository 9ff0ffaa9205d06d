-------------------------------- MODULE MC_Sd ---------------------------------
EXTENDS SdProtocol

Fat32Bpb == [signature |-> TRUE, fat_string |-> TRUE, root_ent_cnt |-> 0, sector_size |-> 512,
             fat_size_16 |-> 0, fat_size_32 |-> 600, tot_sect_16 |-> 0, tot_sect_32 |-> 70000,
             rsvd_cnt |-> 32, num_fats |-> 2, cluster_size |-> 1]
Fat16Bpb == [Fat32Bpb EXCEPT !.root_ent_cnt = 512, !.cluster_size = 4]

\* A high-capacity card with two FAT32 partitions around a FAT16 one, ...
Sdhc == [v2 |-> TRUE, hc |-> TRUE, four_bit |-> TRUE, past_v1_10 |-> TRUE, high_speed |-> TRUE,
         rca |-> 7, mbr |-> TRUE, csd |-> [structure |-> 1, c_size |-> 999],
         parts |-> <<[lba |-> 64, bpb |-> Fat32Bpb], [lba |-> 80000, bpb |-> Fat16Bpb],
                     [lba |-> 0, bpb |-> Fat32Bpb], [lba |-> 160000, bpb |-> Fat32Bpb]>>]
\* ... a standard-capacity card of version 2 on one lane, one without a boot
\* signature, and one of version 1.0, which does not know CMD8.
Sdsc == [Sdhc EXCEPT !.hc = FALSE, !.four_bit = FALSE, !.rca = 5, !.high_speed = FALSE,
                     !.csd = [structure |-> 0, c_size |-> 2047, c_size_mult |-> 7, read_bl_len |-> 9],
                     !.parts = <<[lba |-> 8192, bpb |-> Fat32Bpb]>>]
Blank == [Sdsc EXCEPT !.mbr = FALSE]
Version1 == [Sdsc EXCEPT !.v2 = FALSE, !.past_v1_10 = FALSE]

MCCards == {Sdhc, Sdsc, Blank, Version1}
=============================================================================
