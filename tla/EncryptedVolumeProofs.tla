------------------------ MODULE EncryptedVolumeProofs ------------------------
(***************************************************************************)
(* For every list of disks with NV indexes of their own, every sequence of *)
(* failures, power losses and PCR values: a volume that has been mounted   *)
(* keeps its header, its file system and its sealed key, unless a probe    *)
(* takes it for an empty device.                                           *)
(***************************************************************************)
EXTENDS EncryptedVolume, TLAPS

\* Steps that destroy what was on the current disk.
Provisioning == {"random", "format", "openNew", "undefine", "define", "write", "mkfs"}

\* A LUKS volume whose key is in its index.
Unlockable(d) == conf[d].encrypt => vol[d].key # NoKey /\ Sealed(d)

UsedKept == \A d \in Disks : used[d] => vol[d].fs = conf[d].fstype /\ Unlockable(d)

\* Steps of a volume that has just got a new LUKS header.
NewHeader == {"openNew", "undefine", "define", "write"}

\* What holds of the current disk before each step.
Stage ==
    /\ step \in Provisioning /\ used[cur] => misread
    /\ step \in NewHeader => ~used[cur]
    /\ step \in Provisioning \ {"mkfs"} => conf[cur].encrypt
    /\ step \in NewHeader => vol[cur].key = keyfile /\ keyfile # NoKey
    /\ step = "format" => keyfile # NoKey
    /\ step = "open" => /\ vol[cur].key # NoKey
                        /\ nv[Index].state = "written" /\ nv[Index].key = keyfile
    /\ step = "read" => vol[cur].key # NoKey
    /\ step \in {"mkfs", "mount"} => Unlockable(cur)

IInv == TypeOK /\ UsedKept /\ Stage

-----------------------------------------------------------------------------

LEMMA InitInv == Init => IInv
<1> SUFFICES ASSUME Init PROVE IInv
    OBVIOUS
<1>1. 1 \in Disks
    BY EncryptedVolumeAssumption DEF Disks
<1>2. vol \in [Disks -> [key : Keys \cup {NoKey}, fs : FileSystems]]
    BY DEF Init
<1>3. nv \in [Indexes -> [state : {"none", "defined", "written"},
                          key : Keys \cup {NoKey}, policy : Pcrs \cup {"any"}]]
    BY EncryptedVolumeAssumption DEF Init, Undefined
<1>4. TypeOK
    BY <1>1, <1>2, <1>3 DEF Init, TypeOK, Steps
<1> QED
    BY <1>4 DEF Init, IInv, UsedKept, Stage, Provisioning, NewHeader

\* A step that leaves the volumes, the TPM and the history alone.
LEMMA QuietInv ==
    ASSUME IInv, TypeOK', Stage', UNCHANGED <<conf, vol, nv, used>>
    PROVE  IInv'
BY DEF IInv, UsedKept, Unlockable, Sealed

\* A step that changes the index of the current disk, which is not in use.
LEMMA NvInv ==
    ASSUME IInv, TypeOK', Stage', ~used[cur], UNCHANGED <<conf, vol, used>>,
           \A i \in Indexes : i # Index => nv'[i] = nv[i]
    PROVE  IInv'
<1>1. ASSUME NEW d \in Disks, used[d] PROVE Unlockable(d)'
    <2>1. NvIndex[d] # Index /\ NvIndex[d] \in Indexes
        BY <1>1, EncryptedVolumeAssumption DEF IInv, TypeOK, Index
    <2> QED
        BY <1>1, <2>1 DEF IInv, UsedKept, Unlockable, Sealed
<1> QED
    BY <1>1 DEF IInv, UsedKept

LEMMA NextInv == IInv /\ [Next]_vars => IInv'
<1> SUFFICES ASSUME IInv, [Next]_vars PROVE IInv'
    OBVIOUS
<1>0. TypeOK /\ Stage /\ UsedKept /\ cur \in Disks /\ Index \in Indexes
    BY EncryptedVolumeAssumption DEF IInv, TypeOK, Index
<1>1. CASE Probe \/ ProbeFails
    <2>0. PICK found \in BOOLEAN : Probed(found) /\ (found /\ conf[cur].encrypt => HasHeader)
        <3>1. CASE Probe
            <4>1. is_luks \in BOOLEAN /\ is_formatted \in BOOLEAN
                BY Zenon DEF is_luks, is_formatted, HasHeader
            <4>2. CASE conf[cur].encrypt
                BY <3>1, <4>1, <4>2, Zenon DEF Probe, is_luks
            <4>3. CASE ~conf[cur].encrypt
                BY <3>1, <4>1, <4>3, Zenon DEF Probe
            <4> QED
                BY <4>2, <4>3
        <3>2. CASE ProbeFails
            BY <3>2, Zenon DEF ProbeFails
        <3> QED
            BY <1>1, <3>1, <3>2
    <2>1. /\ UNCHANGED <<conf, pcr, cur, vol, nv, used, keyfile, mapped, mounted>>
          /\ step = "probe" /\ step' \in {"read", "random", "mkfs", "mount"}
        BY <2>0 DEF Probed, At
    <2>2. misread' \in BOOLEAN
        BY <2>0, Zenon DEF Probed
    <2>3. TypeOK'
        BY <1>0, <2>1, <2>2 DEF TypeOK, Steps
    <2>4. /\ step' = "read" => vol[cur].key # NoKey
          /\ step' = "random" => conf[cur].encrypt
          /\ step' \in {"mkfs", "mount"} => ~conf[cur].encrypt
        BY <2>0 DEF Probed, HasHeader
    <2>5. step' \in {"random", "mkfs"} => conf[cur].formatIfEmpty /\ ~found
        BY <2>0 DEF Probed
    <2>6. used[cur] => Occupied
        <3>1. conf[cur].fstype # "none"
            BY <1>0, EncryptedVolumeAssumption DEF TypeOK
        <3> QED
            BY <1>0, <3>1 DEF UsedKept, Unlockable, Occupied, HasHeader
    <2>7. step' \in {"random", "mkfs"} /\ used[cur] => misread'
        BY <2>0, <2>5, <2>6, Zenon DEF Probed
    <2>8. Stage'
        BY <1>0, <2>1, <2>4, <2>7 DEF Stage, Provisioning, NewHeader, Unlockable
    <2> QED
        BY <2>1, <2>3, <2>8, QuietInv
<1>2. CASE NvRead
    <2>1. TypeOK'
        BY <1>0, <1>2 DEF TypeOK, Steps, NvRead, Then
    <2>2. Stage'
        BY <1>0, <1>2 DEF Stage, Provisioning, NewHeader, NvRead, Then, At, Index
    <2> QED
        BY <1>2, <2>1, <2>2, QuietInv DEF NvRead, Then
<1>3. CASE LuksOpen
    <2>1. TypeOK'
        BY <1>0, <1>3 DEF TypeOK, Steps, LuksOpen, Then, Removed
    <2>2. Stage'
        BY <1>0, <1>3 DEF Stage, Provisioning, NewHeader, LuksOpen, Then, At, Unlockable, Sealed, Index
    <2> QED
        BY <1>3, <2>1, <2>2, QuietInv DEF LuksOpen, Then
<1>4. CASE GetRandom
    <2>1. keyfile' \in Keys /\ keyfile' # NoKey
        BY <1>4, EncryptedVolumeAssumption DEF GetRandom, FreshKeys
    <2>2. TypeOK'
        BY <1>0, <1>4, <2>1 DEF TypeOK, Steps, GetRandom, Then
    <2>3. Stage'
        BY <1>0, <1>4, <2>1 DEF Stage, Provisioning, NewHeader, GetRandom, Then, At
    <2> QED
        BY <1>4, <2>2, <2>3, QuietInv DEF GetRandom, Then
<1>5. CASE LuksFormat
    <2>1. /\ step = "format" /\ step' = "openNew"
          /\ UNCHANGED <<conf, pcr, cur, misread, nv, keyfile, mapped, mounted>>
          /\ vol' = [vol EXCEPT ![cur] = [key |-> keyfile, fs |-> "none"]]
          /\ used' = [used EXCEPT ![cur] = FALSE]
        BY <1>5 DEF LuksFormat, Then, At
    <2>2. TypeOK'
        BY <1>0, <2>1 DEF TypeOK, Steps, FileSystems
    <2>3. ~used'[cur] /\ vol'[cur].key = keyfile
        BY <1>0, <2>1 DEF TypeOK
    <2>4. Stage'
        BY <1>0, <2>1, <2>3 DEF Stage, Provisioning, NewHeader
    <2>5. \A d \in Disks : used'[d] => used[d] /\ vol'[d] = vol[d]
        BY <1>0, <2>1 DEF TypeOK
    <2>6. UsedKept'
        BY <1>0, <2>1, <2>5 DEF UsedKept, Unlockable, Sealed
    <2> QED
        BY <2>2, <2>4, <2>6 DEF IInv
<1>6. CASE LuksOpenNew
    <2>1. TypeOK'
        BY <1>0, <1>6 DEF TypeOK, Steps, LuksOpenNew, Then
    <2>2. Stage'
        BY <1>0, <1>6 DEF Stage, Provisioning, NewHeader, LuksOpenNew, Then, At
    <2> QED
        BY <1>6, <2>1, <2>2, QuietInv DEF LuksOpenNew, Then
<1>7. CASE NvUndefine
    <2>1. TypeOK'
        BY <1>0, <1>7 DEF TypeOK, Steps, NvUndefine, Then, Undefined
    <2>2. Stage'
        BY <1>0, <1>7 DEF Stage, Provisioning, NewHeader, NvUndefine, Then, At
    <2>3. ~used[cur] /\ \A i \in Indexes : i # Index => nv'[i] = nv[i]
        BY <1>0, <1>7 DEF NvUndefine, At, Stage, NewHeader, TypeOK
    <2> QED
        BY <1>7, <2>1, <2>2, <2>3, NvInv DEF NvUndefine, Then
<1>8. CASE NvDefine
    <2>1. TypeOK'
        BY <1>0, <1>8 DEF TypeOK, Steps, NvDefine, Then
    <2>2. Stage'
        BY <1>0, <1>8 DEF Stage, Provisioning, NewHeader, NvDefine, Then, At
    <2>3. ~used[cur] /\ \A i \in Indexes : i # Index => nv'[i] = nv[i]
        BY <1>0, <1>8 DEF NvDefine, At, Stage, NewHeader, TypeOK
    <2> QED
        BY <1>8, <2>1, <2>2, <2>3, NvInv DEF NvDefine, Then
<1>9. CASE NvWrite
    <2>1. /\ nv' \in [Indexes -> [state : {"none", "defined", "written"},
                                  key : Keys \cup {NoKey}, policy : Pcrs \cup {"any"}]]
          /\ nv'[Index].state = "written" /\ nv'[Index].key = keyfile
          /\ \A i \in Indexes : i # Index => nv'[i] = nv[i]
        BY <1>0, <1>9 DEF NvWrite, TypeOK
    <2>2. /\ step = "write" /\ step' = "mkfs"
          /\ UNCHANGED <<conf, pcr, cur, misread, vol, used, keyfile, mapped, mounted>>
        BY <1>9 DEF NvWrite, Then, At
    <2>3. TypeOK'
        BY <1>0, <2>1, <2>2 DEF TypeOK, Steps
    <2>4. Unlockable(cur)' /\ ~used[cur]
        BY <1>0, <2>1, <2>2 DEF Unlockable, Sealed, Stage, Provisioning, NewHeader, Index
    <2>5. Stage'
        BY <2>2, <2>4 DEF Stage, Provisioning, NewHeader
    <2> QED
        BY <2>1, <2>2, <2>3, <2>4, <2>5, NvInv
<1>10. CASE Mkfs
    <2>1. /\ step = "mkfs" /\ step' = "mount" /\ keyfile' \in {NoKey, keyfile}
          /\ UNCHANGED <<conf, pcr, cur, misread, nv, mapped, mounted>>
          /\ vol' = [vol EXCEPT ![cur].fs = conf[cur].fstype]
          /\ used' = [used EXCEPT ![cur] = FALSE]
        BY <1>10 DEF Mkfs, Then, At, Removed
    <2>2. conf[cur].fstype \in FileSystems
        BY <1>0, EncryptedVolumeAssumption DEF TypeOK, FileSystems
    <2>3. TypeOK'
        BY <1>0, <2>1, <2>2 DEF TypeOK, Steps
    <2>4. /\ \A d \in Disks : vol'[d].key = vol[d].key
          /\ \A d \in Disks : used'[d] => used[d] /\ vol'[d] = vol[d]
        BY <1>0, <2>1 DEF TypeOK
    <2>5. \A d \in Disks : Unlockable(d) => Unlockable(d)'
        BY <2>1, <2>4 DEF Unlockable, Sealed
    <2>6. Stage' /\ UsedKept'
        BY <1>0, <2>1, <2>4, <2>5 DEF Stage, UsedKept, Provisioning, NewHeader
    <2> QED
        BY <2>3, <2>6 DEF IInv
<1>11. CASE Mount
    <2>1. /\ step = "mount" /\ step' \in {"probe", "done"} /\ vol[cur].fs = conf[cur].fstype
          /\ used' = [used EXCEPT ![cur] = TRUE] /\ mounted' = mounted \cup {cur}
          /\ UNCHANGED <<conf, pcr, vol, nv, keyfile, mapped>>
        BY <1>11 DEF Mount, At
    <2>2. cur' \in Disks
        BY <1>0, <1>11, EncryptedVolumeAssumption DEF Mount, Disks
    <2>3. misread' \in BOOLEAN
        BY <1>11, Zenon DEF Mount
    <2>4. TypeOK'
        BY <1>0, <2>1, <2>2, <2>3 DEF TypeOK, Steps
    <2>5. \A d \in Disks : used'[d] => vol[d].fs = conf[d].fstype /\ Unlockable(d)
        BY <1>0, <2>1 DEF TypeOK, UsedKept, Stage
    <2>6. UsedKept'
        BY <2>1, <2>5 DEF UsedKept, Unlockable, Sealed
    <2>7. Stage'
        BY <1>0, <2>1 DEF Stage, Provisioning, NewHeader
    <2> QED
        BY <2>4, <2>6, <2>7 DEF IInv
<1>12. CASE Fail
    <2>1. /\ step' = "halted" /\ keyfile' \in {NoKey, keyfile, nv[Index].key}
          /\ UNCHANGED <<conf, pcr, cur, vol, nv, used, mapped, mounted>>
        BY <1>12 DEF Fail, Removed
    <2>2. misread' \in BOOLEAN
        BY <1>12, Zenon DEF Fail
    <2>3. TypeOK'
        BY <1>0, <2>1, <2>2 DEF TypeOK, Steps
    <2>4. Stage'
        BY <2>1 DEF Stage, Provisioning, NewHeader
    <2> QED
        BY <2>1, <2>3, <2>4, QuietInv
<1>13. CASE PowerLoss
    <2>1. /\ step' = "dark" /\ keyfile' = NoKey /\ mapped' = {} /\ mounted' = {}
          /\ UNCHANGED <<conf, pcr, cur, vol, nv, used>>
        BY <1>13 DEF PowerLoss
    <2>2. misread' \in BOOLEAN
        BY <1>13, Zenon DEF PowerLoss
    <2>3. TypeOK' /\ Stage'
        BY <1>0, <2>1, <2>2 DEF TypeOK, Steps, Stage, Provisioning, NewHeader
    <2> QED
        BY <2>1, <2>3, QuietInv
<1>14. CASE Boot
    <2>1. /\ step' = "probe" /\ cur' = 1 /\ pcr' \in Pcrs
          /\ keyfile' = NoKey /\ mapped' = {} /\ mounted' = {}
          /\ UNCHANGED <<conf, vol, nv, used>>
        BY <1>14 DEF Boot
    <2>2. misread' \in BOOLEAN
        BY <1>14, Zenon DEF Boot
    <2>3. TypeOK' /\ Stage'
        BY <1>0, <2>1, <2>2, EncryptedVolumeAssumption
           DEF TypeOK, Steps, Stage, Provisioning, NewHeader, Disks
    <2> QED
        BY <2>1, <2>3, QuietInv
<1>15. CASE UNCHANGED vars
    BY <1>0, <1>15 DEF IInv, vars, TypeOK, UsedKept, Stage, Unlockable, Sealed, Index
<1> QED
    BY <1>1, <1>2, <1>3, <1>4, <1>5, <1>6, <1>7, <1>8, <1>9, <1>10, <1>11, <1>12,
       <1>13, <1>14, <1>15 DEF Next, Tool

LEMMA InvCorrect == Spec => []IInv
BY InitInv, NextInv, PTL DEF Spec

-----------------------------------------------------------------------------

\* The disk stage's state stays typed, for any number of disks.
THEOREM TypeCorrect == Spec => []TypeOK
<1>1. IInv => TypeOK
    BY DEF IInv
<1> QED
    BY <1>1, InvCorrect, PTL

\* A volume that has been mounted since it was last formatted has the file
\* system its entry names, and its key is in its NV index, whatever the probes
\* answer and wherever boots are cut short.
THEOREM UsedVolumesStaySealed == Spec => []UsedVolumeSealed
<1>1. IInv => UsedVolumeSealed
    BY DEF IInv, UsedKept, Unlockable, UsedVolumeSealed
<1> QED
    BY <1>1, InvCorrect, PTL

\* No boot formats a volume that has been mounted, whatever the TPM and the
\* PCRs say, unless its own probe took it for an empty device.
THEOREM DataNeverFormatted == Spec => DataKept
<1>1. IInv /\ [Next]_vars => [\A d \in Disks : used[d] /\ ~misread => vol'[d] = vol[d]]_vars
    <2> SUFFICES ASSUME IInv, Next, NEW d \in Disks, used[d], ~misread PROVE vol'[d] = vol[d]
        OBVIOUS
    <2>1. CASE LuksFormat \/ Mkfs
        <3>1. step \in Provisioning
            BY <2>1 DEF LuksFormat, Mkfs, At, Provisioning
        <3>2. d # cur
            BY <3>1 DEF IInv, Stage
        <3> QED
            BY <2>1, <3>2 DEF LuksFormat, Mkfs, IInv, TypeOK
    <2>2. CASE ~(LuksFormat \/ Mkfs)
        BY <2>2 DEF Next, Tool, Probe, ProbeFails, Probed, NvRead, LuksOpen, GetRandom, LuksOpenNew,
           NvUndefine, NvDefine, NvWrite, Mount, Fail, PowerLoss, Boot
    <2> QED
        BY <2>1, <2>2
<1> QED
    BY <1>1, InvCorrect, PTL DEF Spec, DataKept

-----------------------------------------------------------------------------
(* A provisioning that was cut short.                                      *)

\* Only a device without a LUKS header is on its way to luks_format, unless
\* isLuks has failed on it.
Blank == step \in {"random", "format"} => misread \/ vol[cur].key = NoKey

LEMMA BlankCorrect == Spec => [](IInv /\ Blank)
<1>1. Init => Blank
    BY DEF Init, Blank
<1>2. Blank /\ [Next]_vars => Blank'
    <2> SUFFICES ASSUME Blank, [Next]_vars, step' \in {"random", "format"}
                 PROVE  misread' \/ vol'[cur'].key = NoKey
        BY DEF Blank
    <2>1. ASSUME NEW found, Probed(found) PROVE misread' \/ vol'[cur'].key = NoKey
        <3>1. /\ conf[cur].encrypt /\ ~found /\ conf[cur].formatIfEmpty
              /\ UNCHANGED <<vol, cur>>
            BY <2>1 DEF Probed
        <3>2. CASE HasHeader
            BY <2>1, <3>1, <3>2, Zenon DEF Probed, Occupied
        <3>3. CASE ~HasHeader
            BY <3>1, <3>3 DEF HasHeader
        <3> QED
            BY <3>2, <3>3
    <2>2. CASE GetRandom
        BY <2>2 DEF GetRandom, At, Then, Blank
    <2>3. CASE UNCHANGED vars
        BY <2>3 DEF vars, Blank
    <2>4. CASE Probe \/ ProbeFails
        BY <2>1, <2>4 DEF Probe, ProbeFails
    <2> QED
        BY <2>2, <2>3, <2>4 DEF Next, Tool, NvRead, LuksOpen, LuksFormat, LuksOpenNew, NvUndefine,
           NvDefine, NvWrite, Mkfs, Mount, Fail, PowerLoss, Boot, Then
<1> QED
    BY <1>1, <1>2, InvCorrect, PTL DEF Spec

\* Volume d was formatted with a key that its NV index does not hold, and
\* the boot that formatted it is over.
Orphaned(d) ==
    /\ conf[d].encrypt /\ vol[d].key # NoKey /\ ~Sealed(d)
    /\ ~(cur = d /\ step \in NewHeader)

\* open_encrypted does not recover a volume whose provisioning was cut between
\* luks_format and the end of tpm_nv_provision: no later boot whose isLuks
\* works formats it again, stores a key for it or mounts it.  Only an isLuks
\* that fails, with format_if_empty set, starts its provisioning over.
THEOREM OrphanedForGood ==
    Spec => [][\A d \in Disks : Orphaned(d) /\ ~misread => Orphaned(d)' /\ ~used'[d]]_vars
<1>1. IInv /\ IInv' /\ Blank /\ [Next]_vars =>
        [\A d \in Disks : Orphaned(d) /\ ~misread => Orphaned(d)' /\ ~used'[d]]_vars
    <2> SUFFICES ASSUME IInv, IInv', Blank, Next, NEW d \in Disks, Orphaned(d), ~misread
                 PROVE  Orphaned(d)' /\ ~used'[d]
        OBVIOUS
    <2>0. TypeOK /\ Stage /\ conf[d].encrypt /\ vol[d].key # NoKey /\ ~Sealed(d)
        BY DEF IInv, Orphaned
    <2>1. UNCHANGED conf
        BY DEF Next, Tool, Probe, ProbeFails, Probed, NvRead, LuksOpen, GetRandom, LuksFormat,
           LuksOpenNew, NvUndefine, NvDefine, NvWrite, Mkfs, Mount, Fail, PowerLoss, Boot, Then
    <2>2. vol'[d].key = vol[d].key
        <3>1. CASE LuksFormat
            <4>1. d # cur
                BY <2>0, <3>1 DEF LuksFormat, At, Blank
            <4> QED
                BY <2>0, <3>1, <4>1 DEF LuksFormat, TypeOK
        <3>2. CASE Mkfs
            BY <2>0, <3>2 DEF Mkfs, TypeOK
        <3>3. CASE UNCHANGED vol
            BY <3>3
        <3> QED
            BY <3>1, <3>2, <3>3 DEF Next, Tool, Probe, ProbeFails, Probed, NvRead, LuksOpen, GetRandom,
               LuksOpenNew, NvUndefine, NvDefine, NvWrite, Mount, Fail, PowerLoss, Boot
    <2>3. nv'[NvIndex[d]] = nv[NvIndex[d]]
        <3>1. CASE NvUndefine \/ NvDefine \/ NvWrite
            <4>1. d # cur
                BY <3>1 DEF NvUndefine, NvDefine, NvWrite, At, Orphaned, NewHeader
            <4>2. NvIndex[d] # Index /\ NvIndex[d] \in Indexes
                BY <2>0, <4>1, EncryptedVolumeAssumption DEF TypeOK, Index
            <4> QED
                BY <2>0, <3>1, <4>2 DEF NvUndefine, NvDefine, NvWrite, TypeOK
        <3> QED
            BY <3>1 DEF Next, Tool, Probe, ProbeFails, Probed, NvRead, LuksOpen, GetRandom, LuksFormat,
               LuksOpenNew, Mkfs, Mount, Fail, PowerLoss, Boot
    <2>4. ~Sealed(d)'
        BY <2>0, <2>2, <2>3 DEF Sealed
    <2>5. ~(cur' = d /\ step' \in NewHeader)
        <3>1. CASE LuksFormat
            BY <2>0, <3>1 DEF LuksFormat, Then, At, Blank
        <3>2. CASE LuksOpenNew \/ NvUndefine \/ NvDefine
            BY <3>2 DEF LuksOpenNew, NvUndefine, NvDefine, Then, At, Orphaned, NewHeader
        <3> QED
            BY <3>1, <3>2 DEF Next, Tool, Probe, ProbeFails, Probed, NvRead, LuksOpen, GetRandom,
               NvWrite, Mkfs, Mount, Fail, PowerLoss, Boot, Then, NewHeader
    <2>6. Orphaned(d)'
        BY <2>0, <2>1, <2>2, <2>4, <2>5 DEF Orphaned
    <2> QED
        BY <2>6 DEF Orphaned, IInv, UsedKept, Unlockable
<1> QED
    BY <1>1, BlankCorrect, PTL DEF Spec
=============================================================================
