--------------------------- MODULE EncryptedVolume ---------------------------
(***************************************************************************)
(* The disk stage of initd's boot: main.rs::apply_disks and open_encrypted. *)
(* On first boot a LUKS2 volume is formatted with a key from the TPM's     *)
(* random generator, and the key is stored in a TPM NV index that only the *)
(* boot's PCR values open; later boots read it back.  Every step is a tool *)
(* run that may fail, which ends PID 1, and the power may go at any time.  *)
(* cryptsetup, mkfs, the tpm2 tools and the TPM are external: a tool run   *)
(* takes effect or does not.                                               *)
(***************************************************************************)
EXTENDS Naturals

CONSTANTS
    NumDisks,        \* length of the `disks` list
    Indexes,         \* TPM NV indexes
    NvIndex,         \* disk -> encrypt.tpm_nv_index
    Configs,         \* the `disks` lists initd.toml may hold
    Keys, NoKey,     \* LUKS keys, and none
    OldKey,          \* a key the TPM may hold from an earlier installation
    Pcrs             \* values the bound PCRs may have in a boot

Disks == 1..NumDisks

\* The images' initd.toml gives every volume an index of its own.
ASSUME EncryptedVolumeAssumption ==
    /\ NumDisks \in Nat \ {0}
    /\ NvIndex \in [Disks -> Indexes]
    /\ \A d, e \in Disks : NvIndex[d] = NvIndex[e] => d = e
    /\ Configs \subseteq [Disks -> [encrypt : BOOLEAN, pcrs : BOOLEAN,
                                    formatIfEmpty : BOOLEAN, fstype : {"ext", "other"}]]
    /\ OldKey \in Keys /\ NoKey \notin Keys
    /\ Pcrs # {}

VARIABLES
    conf,     \* disk -> are encrypt, encrypt.pcrs, format_if_empty set; fstype
    vol,      \* disk -> LUKS key of the device; its file system, if any
    nv,       \* NV index -> undefined, defined or written; key and policy
    used,     \* disk -> has it been mounted since it was last formatted?
    pcr,      \* PCR values of this boot
    cur,      \* the disk apply_disks is at
    step,     \* the step of it that is next
    keyfile,  \* LUKS_KEYFILE, on tmpfs
    mapped,   \* disks whose /dev/mapper node exists
    mounted,  \* disks mounted at their target
    misread   \* has the probe of the current disk taken a device for empty
              \* that is not?  (Kept for the properties only.)

vars == <<conf, vol, nv, used, pcr, cur, step, keyfile, mapped, mounted, misread>>

Steps == {"probe", "read", "open", "random", "format", "openNew", "undefine",
          "define", "write", "mkfs", "mount", "done", "halted", "dark"}
FileSystems == {"none", "ext", "other"}
Undefined == [state |-> "none", key |-> NoKey, policy |-> "any"]

TypeOK ==
    /\ conf \in Configs
    /\ vol \in [Disks -> [key : Keys \cup {NoKey}, fs : FileSystems]]
    /\ nv \in [Indexes -> [state : {"none", "defined", "written"},
                           key : Keys \cup {NoKey}, policy : Pcrs \cup {"any"}]]
    /\ used \in [Disks -> BOOLEAN]
    /\ pcr \in Pcrs
    /\ cur \in Disks
    /\ step \in Steps
    /\ keyfile \in Keys \cup {NoKey}
    /\ mapped \subseteq Disks
    /\ mounted \subseteq Disks
    /\ misread \in BOOLEAN

\* Devices arrive blank or with somebody's file system; the TPM may still
\* hold an index from an earlier installation.
Init ==
    /\ conf \in Configs
    /\ vol \in [Disks -> [key : {NoKey}, fs : FileSystems]]
    /\ nv \in [Indexes -> {Undefined} \cup
                          [state : {"written"}, key : {OldKey}, policy : Pcrs]]
    /\ used = [d \in Disks |-> FALSE]
    /\ pcr \in Pcrs
    /\ cur = 1 /\ step = "probe"
    /\ keyfile = NoKey /\ mapped = {} /\ mounted = {} /\ misread = FALSE

-----------------------------------------------------------------------------

Index == NvIndex[cur]

\* A key tpm2_getrandom may return: none that anything holds.
FreshKeys == Keys \ ({keyfile} \cup {vol[d].key : d \in Disks} \cup {nv[i].key : i \in Indexes})

\* Step s of the current disk is next.
At(s) == step = s
Then(s) == step' = s /\ UNCHANGED <<conf, pcr, cur, misread>>

\* The state the TPM releases the index in: the policy of its definition
\* (PCR values, or none) is met.
Released(x) == x.policy \in {"any", pcr}

\* What the current device holds, as far as its entry is concerned.
HasHeader == vol[cur].key # NoKey
Occupied == IF conf[cur].encrypt THEN HasHeader ELSE vol[cur].fs # "none"

\* is_luks: the exit status of `cryptsetup isLuks`, when that tells.
is_luks == HasHeader

\* is_formatted: the magic of ext2/3/4, and of no other file system.
is_formatted == vol[cur].fs = "ext"

\* Mutant: a volume the TPM does not release the key of is provisioned anew.
Probed_Reprovision(found) ==
    /\ At("probe")
    /\ step' = IF conf[cur].encrypt
               THEN IF found /\ Released(nv[Index]) THEN "read" ELSE "random"
               ELSE IF conf[cur].formatIfEmpty /\ ~found THEN "mkfs" ELSE "mount"
    /\ conf[cur].encrypt /\ ~found => conf[cur].formatIfEmpty
    /\ misread' = (conf[cur].formatIfEmpty /\ ~found /\ Occupied)
    /\ UNCHANGED <<conf, pcr, cur, vol, nv, used, keyfile, mapped, mounted>>

\* apply_disks and open_encrypted act on the answer: an encrypted volume is
\* unlocked or provisioned, a plain device is formatted when it may be and
\* appears empty.  (An encrypted device that does not appear to be LUKS and
\* may not be formatted ends the boot: Fail.)
Probed(found) ==
    /\ At("probe")
    /\ step' = IF conf[cur].encrypt
               THEN IF found THEN "read" ELSE "random"
               ELSE IF conf[cur].formatIfEmpty /\ ~found THEN "mkfs" ELSE "mount"
    /\ conf[cur].encrypt /\ ~found => conf[cur].formatIfEmpty
    /\ misread' = (conf[cur].formatIfEmpty /\ ~found /\ Occupied)
    /\ UNCHANGED <<conf, pcr, cur, vol, nv, used, keyfile, mapped, mounted>>

\* The device answers.
Probe == Probed(IF conf[cur].encrypt THEN is_luks ELSE is_formatted)

\* It does not, and counts as empty: is_luks takes every failing exit of
\* cryptsetup for "not LUKS"; is_formatted takes a missing device, a failed
\* seek and a short read for "not formatted".
ProbeFails == Probed(FALSE)

\* tpm_nv_read: nvread under a policy session, or with owner authorization.
NvRead ==
    /\ At("read")
    /\ nv[Index].state = "written" /\ Released(nv[Index])
    /\ keyfile' = nv[Index].key
    /\ Then("open")
    /\ UNCHANGED <<vol, nv, used, mapped, mounted>>

\* The key file after remove_file, whose result open_encrypted ignores.
Removed == {NoKey, keyfile}

\* Mutant: the volume is opened under a name other than the one mounted.
LuksOpen_OtherName ==
    /\ At("open")
    /\ keyfile = vol[cur].key
    /\ keyfile' \in Removed
    /\ Then("mount")
    /\ UNCHANGED <<vol, nv, used, mapped, mounted>>

\* luks_open, then remove_file(LUKS_KEYFILE).
LuksOpen ==
    /\ At("open")
    /\ keyfile = vol[cur].key
    /\ mapped' = mapped \cup {cur}
    /\ keyfile' \in Removed
    /\ Then("mount")
    /\ UNCHANGED <<vol, nv, used, mounted>>

\* tpm_getrandom.
GetRandom ==
    /\ At("random")
    /\ keyfile' \in FreshKeys
    /\ Then("format")
    /\ UNCHANGED <<vol, nv, used, mapped, mounted>>

\* luks_format: the new header makes everything behind it unreadable.
LuksFormat ==
    /\ At("format")
    /\ vol' = [vol EXCEPT ![cur] = [key |-> keyfile, fs |-> "none"]]
    /\ used' = [used EXCEPT ![cur] = FALSE]
    /\ Then("openNew")
    /\ UNCHANGED <<nv, keyfile, mapped, mounted>>

\* luks_open of the volume just formatted.
LuksOpenNew ==
    /\ At("openNew")
    /\ mapped' = mapped \cup {cur}
    /\ Then("undefine")
    /\ UNCHANGED <<vol, nv, used, keyfile, mounted>>

\* tpm2_nvundefine, whose result is ignored: there may be nothing to remove.
NvUndefine ==
    /\ At("undefine")
    /\ nv' \in {nv, [nv EXCEPT ![Index] = Undefined]}
    /\ Then("define")
    /\ UNCHANGED <<vol, used, keyfile, mapped, mounted>>

\* pcrread, policypcr, nvdefine: the index is bound to this boot's PCRs.
NvDefine ==
    /\ At("define")
    /\ nv[Index].state = "none"
    /\ nv' = [nv EXCEPT ![Index] = [state |-> "defined", key |-> NoKey,
                                    policy |-> IF conf[cur].pcrs THEN pcr ELSE "any"]]
    /\ Then("write")
    /\ UNCHANGED <<vol, used, keyfile, mapped, mounted>>

\* Mutant: the key is not written to the index it defined.
NvWrite_Skipped ==
    /\ At("write")
    /\ Then("mkfs")
    /\ UNCHANGED <<vol, nv, used, keyfile, mapped, mounted>>

\* nvwrite of the key file under the index's policy.
NvWrite ==
    /\ At("write")
    /\ nv' = [nv EXCEPT ![Index].state = "written", ![Index].key = keyfile]
    /\ Then("mkfs")
    /\ UNCHANGED <<vol, used, keyfile, mapped, mounted>>

\* format_target on the mapper, or format_disk on a plain device, with the
\* entry's mkfs command; the key file of an encrypted volume is then removed.
Mkfs ==
    /\ At("mkfs")
    /\ vol' = [vol EXCEPT ![cur].fs = conf[cur].fstype]
    /\ used' = [used EXCEPT ![cur] = FALSE]
    /\ keyfile' \in IF conf[cur].encrypt THEN Removed ELSE {keyfile}
    /\ Then("mount")
    /\ UNCHANGED <<nv, mapped, mounted>>

\* Mutant: the loop over the disks runs past the last one.
Mount_PastTheEnd ==
    /\ At("mount")
    /\ vol[cur].fs = conf[cur].fstype /\ (conf[cur].encrypt => cur \in mapped)
    /\ mounted' = mounted \cup {cur}
    /\ used' = [used EXCEPT ![cur] = TRUE]
    /\ misread' = FALSE
    /\ cur' = cur + 1 /\ step' = IF cur < NumDisks THEN "probe" ELSE "done"
    /\ UNCHANGED <<conf, pcr, vol, nv, keyfile, mapped>>

\* mount_fs of the mapper or the device; then the next disk, or on with boot.
Mount ==
    /\ At("mount")
    /\ vol[cur].fs = conf[cur].fstype /\ (conf[cur].encrypt => cur \in mapped)
    /\ mounted' = mounted \cup {cur}
    /\ used' = [used EXCEPT ![cur] = TRUE]
    /\ misread' = FALSE
    /\ IF cur < NumDisks THEN cur' = cur + 1 /\ step' = "probe"
                         ELSE UNCHANGED cur /\ step' = "done"
    /\ UNCHANGED <<conf, pcr, vol, nv, keyfile, mapped>>

\* A tool fails, cannot be run or is refused, the device cannot be read or
\* may not be formatted: apply_disks returns Err and PID 1 exits.  Past the
\* probe, open_encrypted removes the key file first, or tries to, but not when
\* it is tpm_nv_read that fails, before or after nvread has written it.
Fail ==
    /\ step \notin {"done", "halted", "dark"}
    /\ keyfile' \in
        IF step = "read" THEN {keyfile} \cup {k \in {nv[Index].key} : Released(nv[Index])}
        ELSE IF step \in {"probe", "mount"} \/ ~conf[cur].encrypt THEN {keyfile}
        ELSE Removed
    /\ step' = "halted" /\ misread' = FALSE
    /\ UNCHANGED <<conf, pcr, cur, vol, nv, used, mapped, mounted>>

\* The power goes.
PowerLoss ==
    /\ step # "dark"
    /\ keyfile' = NoKey /\ mapped' = {} /\ mounted' = {}
    /\ step' = "dark" /\ misread' = FALSE
    /\ UNCHANGED <<conf, pcr, cur, vol, nv, used>>

\* The next boot: another kernel gives other PCR values.
Boot ==
    /\ step \in {"dark", "halted"}
    /\ pcr' \in Pcrs
    /\ cur' = 1 /\ step' = "probe" /\ misread' = FALSE
    /\ keyfile' = NoKey /\ mapped' = {} /\ mounted' = {}
    /\ UNCHANGED <<conf, vol, nv, used>>

Tool ==
    \/ Probe \/ ProbeFails \/ NvRead \/ LuksOpen
    \/ GetRandom \/ LuksFormat \/ LuksOpenNew \/ NvUndefine \/ NvDefine \/ NvWrite
    \/ Mkfs \/ Mount

Next == Tool \/ Fail \/ PowerLoss \/ Boot

\* The node is rebooted after a failed boot, every tool run ends, and no tool
\* fails on a disk every time.
Fairness ==
    /\ WF_vars(Boot) /\ WF_vars(Tool \/ Fail)
    /\ \A d \in Disks :
        /\ SF_vars(cur = d /\ Probe) /\ SF_vars(cur = d /\ NvRead)
        /\ SF_vars(cur = d /\ LuksOpen) /\ SF_vars(cur = d /\ Mount)

Spec == Init /\ [][Next]_vars /\ Fairness

-----------------------------------------------------------------------------
(* Properties.                                                             *)

\* The key of volume d is in its NV index.
Sealed(d) == nv[NvIndex[d]].state = "written" /\ nv[NvIndex[d]].key = vol[d].key

\* A volume that has been mounted since it was last formatted can be opened
\* again: it has the file system its entry names, and its key is in its index,
\* whatever has happened since, to it and to the other volumes.
UsedVolumeSealed ==
    \A d \in Disks : used[d] => vol[d].fs = conf[d].fstype /\ (conf[d].encrypt => Sealed(d))

\* Data is never formatted away, whatever the TPM refuses and wherever a boot
\* is cut short: a volume that has been mounted keeps its LUKS header and its
\* file system, unless the probe takes it for an empty device.  That exception
\* is the code's: is_luks and is_formatted count a probe that fails as "empty",
\* and is_formatted sees no file system but ext2/3/4, so a plain volume of any
\* other kind with format_if_empty set is made anew by every boot.
DataKept == [][\A d \in Disks : used[d] /\ ~misread => vol'[d] = vol[d]]_vars

\* The disk stage can be left with all volumes mounted: each has been mounted,
\* the TPM releases its key, and is_formatted does not overlook it.
Matching ==
    \A d \in Disks :
        /\ used[d]
        /\ IF conf[d].encrypt THEN Released(nv[NvIndex[d]])
           ELSE conf[d].formatIfEmpty => vol[d].fs = "ext"
PowerFails == []<>(step = "dark")

\* A node that has completed a boot once completes it again, as long as it
\* boots the kernel its volumes were sealed for, none is formatted anew and
\* the power stays on.
BootsAgain == PowerFails \/ (Matching ~> (step = "done" \/ ~Matching))

\* main.rs, Luks: "the device is a LUKS2 volume whose key is held in the TPM".
KeyHeldInTpm == At("read") => Sealed(cur)
=============================================================================
