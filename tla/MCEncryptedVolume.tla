-------------------------- MODULE MCEncryptedVolume --------------------------
(* Volumes with an index each, as in the k8s image's initd.toml.           *)
EXTENDS EncryptedVolume

Entry(encrypt, pcrs, formatIfEmpty, fstype) ==
    [encrypt |-> encrypt, pcrs |-> pcrs, formatIfEmpty |-> formatIfEmpty, fstype |-> fstype]

\* A sealed volume; an encrypted one without PCRs; one that may not be
\* formatted; plain devices with an ext file system and with another one.
SealedEntry == Entry(TRUE, TRUE, TRUE, "ext")
UnboundEntry == Entry(TRUE, FALSE, TRUE, "ext")
GuardedEntry == Entry(TRUE, TRUE, FALSE, "ext")
PlainEntry == Entry(FALSE, FALSE, TRUE, "ext")
OtherEntry == Entry(FALSE, FALSE, TRUE, "other")

MCConfigs ==
    {<<SealedEntry, SealedEntry>>, <<UnboundEntry, GuardedEntry>>,
     <<PlainEntry, SealedEntry>>, <<SealedEntry, OtherEntry>>}
MCOneDisk == {<<e>> : e \in {SealedEntry, UnboundEntry, GuardedEntry, PlainEntry, OtherEntry}}

MCNvIndex == [d \in Disks |-> d]
=============================================================================
