------------------------------- MODULE MCBoard -------------------------------
(* Eight devices, as many as the region of transports holds; a kernel that  *)
(* clears 3 MiB behind a small file, one without a header, an old one       *)
(* without image_size, and one too large. The console is followed on the    *)
(* boards the front-end builds, with a disk or with an initramfs.           *)
EXTENDS Board

MiB == 1048576
MCIrqs == {33}
Modern == [header |-> TRUE, text_offset |-> 0, image_size |-> 3 * MiB, len |-> MiB]
Bare   == [header |-> FALSE, text_offset |-> 0, image_size |-> 0, len |-> 64]
Old    == [header |-> TRUE, text_offset |-> 524288, image_size |-> 0, len |-> 2 * MiB]
Huge   == [header |-> TRUE, text_offset |-> 0, image_size |-> 15 * MiB, len |-> MiB]
MCImages  == {Modern, Bare, Old, Huge}
MCInitrds == {None, 1, 2 * MiB}
MCFollowed == {[devices |-> 5, image |-> Modern, initrd |-> None],
               [devices |-> 4, image |-> Modern, initrd |-> 2 * MiB]}
MCLines == {<<1>>, <<2>>, <<1, 2>>}
=============================================================================
