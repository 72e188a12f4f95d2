------------------------------ MODULE ImageLoad ------------------------------
(***************************************************************************)
(* What LamBoot lends to the firmware while it loads images, over the      *)
(* drivers and every selection of one power-on: the hooks of               *)
(* security_override.rs in the firmware's security protocols, the initrd   *)
(* provider of initrd.rs, and the LoadedImage protocol and the memory of   *)
(* pe_loader.rs (whose load_pe is module PeImage).                         *)
(*                                                                         *)
(* An image's trust is two answers: shim's (its MOK list) and the          *)
(* firmware's (db).  A heap object and the interface that points at it     *)
(* carry the number of the attempt that made them.                         *)
(***************************************************************************)
EXTENDS PeImage

CONSTANTS
  KernelFiles,   \* the files behind the menu's kernels
  InitrdSizes,   \* bytes of an entry's initrds taken together
  MaxDrivers,    \* bound on the drivers loaded
  MaxSelections, \* bound on the selections
  MaxInstallFaults  \* bound on refused protocol installations

VARIABLES
  fw,        \* the machine: Secure Boot, its security protocols, shim's age
  shimLock,  \* whether ShimLock is installed
  retain,    \* the ShimRetainProtocol variable
  hooks,     \* whose function each security protocol holds
  saved,     \* ORIGINAL_HOOK and ORIGINAL_HOOK2
  active,    \* OVERRIDE_ACTIVE
  guard,     \* whether a SecurityOverrideGuard lives
  bpc,       \* where the control is
  image,     \* the image in hand: its trust, its initrd and its route
  boots,     \* selections so far
  drivers,   \* drivers tried so far
  ifaces,    \* the interfaces LamBoot installed
  heap,      \* the objects of these interfaces that are allocated
  registered,\* whether this attempt holds an InitrdHandle
  reply,     \* the last answer of the LoadFile2 callback
  denials    \* protocol installations refused so far

lendVars == <<fw, shimLock, retain, hooks, saved, active, guard, bpc, image, boots,
              drivers, ifaces, heap, registered, reply, denials>>
imageVars == <<peVars, lendVars>>

ASSUME ImageAssumption ==
  /\ KernelFiles \subseteq PeFiles
  /\ InitrdSizes \subseteq Nat
  /\ MaxDrivers \in Nat /\ MaxSelections \in Nat /\ MaxInstallFaults \in Nat

Archs == {"security", "security2"}
NoReply == [status |-> "none", size |-> 0, buffer |-> 0, from |-> 0]
Unset == [shimOk |-> FALSE, dbOk |-> FALSE, initrd |-> 0, native |-> FALSE]

ImageInit ==
  /\ PeInit
  /\ file = CHOOSE f \in KernelFiles : TRUE
  /\ fw \in [sb : BOOLEAN, archs : SUBSET Archs, heedsRetain : BOOLEAN]
  /\ fw.sb => "security2" \in fw.archs
  /\ shimLock \in BOOLEAN
  /\ retain = FALSE
  /\ hooks = [a \in fw.archs |-> "firmware"]
  /\ saved = [a \in Archs |-> "none"]
  /\ active = FALSE /\ guard = FALSE
  /\ bpc = "start"
  /\ image = Unset
  /\ boots = 0 /\ drivers = 0 /\ denials = 0
  /\ ifaces = {} /\ heap = {}
  /\ registered = FALSE
  /\ reply = NoReply

overrideVars == <<hooks, saved, active, guard>>
lentVars == <<ifaces, heap, registered, reply, denials>>
-----------------------------------------------------------------------------
(* security_override.rs *)

\* request_shim_retain_protocol, once, before anything is loaded.
RequestRetain ==
  /\ bpc = "start"
  /\ retain' \in IF shimLock THEN BOOLEAN ELSE {FALSE}
  /\ bpc' = "drivers"
  /\ UNCHANGED <<peVars, fw, shimLock, image, boots, drivers, overrideVars, lentVars>>

\* install_security_override: refused while one is active, and given up where
\* the firmware has neither protocol.
InstallOverride ==
  IF active \/ fw.archs = {}
  THEN UNCHANGED overrideVars
  ELSE /\ active' = TRUE
       /\ guard' = TRUE
       /\ saved' = [a \in Archs |-> IF a \in fw.archs THEN hooks[a] ELSE saved[a]]
       /\ hooks' = [a \in fw.archs |-> "ours"]

\* Seeded defect: the SECURITY2 hook is restored, the SECURITY hook is not.
UninstallSecurity2Only ==
  IF ~active \/ ~guard
  THEN UNCHANGED overrideVars
  ELSE /\ hooks' = [a \in fw.archs |-> IF a = "security2" THEN saved[a] ELSE hooks[a]]
       /\ saved' = [a \in Archs |-> "none"]
       /\ active' = FALSE
       /\ guard' = FALSE

\* The guard's Drop, if there is a guard: uninstall_security_override.
UninstallOverride ==
  IF ~active \/ ~guard
  THEN UNCHANGED overrideVars
  ELSE /\ hooks' = [a \in fw.archs |-> saved[a]]
       /\ saved' = [a \in Archs |-> "none"]
       /\ active' = FALSE
       /\ guard' = FALSE

\* What the firmware's own check says.
FirmwareAccepts(i) == ~fw.sb \/ i.dbOk

\* hook_security2: shim first, then the original; no original is a refusal.
HookSecurity2(i) ==
  \/ shimLock /\ i.shimOk
  \/ saved["security2"] = "firmware" /\ FirmwareAccepts(i)

\* hook_security, which only delegates.
HookSecurity(i) == saved["security"] = "firmware" /\ FirmwareAccepts(i)

\* BS->LoadImage of a buffer asks the SECURITY2 protocol, else SECURITY.
LoadImageAccepts(i) ==
  IF "security2" \in fw.archs
  THEN IF hooks["security2"] = "ours" THEN HookSecurity2(i) ELSE FirmwareAccepts(i)
  ELSE IF "security" \in fw.archs /\ hooks["security"] = "ours"
       THEN HookSecurity(i) ELSE FirmwareAccepts(i)

\* Shim takes ShimLock away when a started child returns, unless it heeds the
\* variable and finds it set.
ShimAfterReturn == shimLock /\ (fw.heedsRetain /\ retain)
-----------------------------------------------------------------------------
(* drivers.rs: load_single_driver *)

Trusts == [shimOk : BOOLEAN, dbOk : BOOLEAN]

DriverGuarded ==
  /\ bpc = "drivers"
  /\ drivers < MaxDrivers
  /\ drivers' = drivers + 1
  /\ \E t \in Trusts :
       image' = [Unset EXCEPT !.shimOk = t.shimOk, !.dbOk = t.dbOk]
  /\ InstallOverride
  /\ bpc' = "driverLoad"
  /\ UNCHANGED <<peVars, fw, shimLock, retain, boots, lentVars>>

\* The guard lives to the end of load_single_driver: past StartImage.
DriverLoaded ==
  /\ bpc = "driverLoad"
  /\ LoadImageAccepts(image)
  /\ bpc' = "driverRuns"
  /\ UNCHANGED <<peVars, fw, shimLock, retain, image, boots, drivers, overrideVars, lentVars>>

\* LoadImage fails, for the signature or anything else.
DriverRefused ==
  /\ bpc = "driverLoad"
  /\ UninstallOverride
  /\ image' = Unset
  /\ bpc' = "drivers"
  /\ UNCHANGED <<peVars, fw, shimLock, retain, boots, drivers, lentVars>>

DriverReturns ==
  /\ bpc = "driverRuns"
  /\ shimLock' = ShimAfterReturn
  /\ UninstallOverride
  /\ image' = Unset
  /\ bpc' = "drivers"
  /\ UNCHANGED <<peVars, fw, retain, boots, drivers, lentVars>>

DriversDone ==
  /\ bpc = "drivers"
  /\ bpc' = "menu"
  /\ drivers' = MaxDrivers
  /\ UNCHANGED <<peVars, fw, shimLock, retain, image, boots, overrideVars, lentVars>>
-----------------------------------------------------------------------------
(* initrd.rs *)

Owned(o, obj) == [obj |-> obj, owner |-> o]
Iface(o, proto) == [proto |-> proto, owner |-> o]
InitrdObjects(o) == {Owned(o, "provider"), Owned(o, "devpath"), Owned(o, "data")}

\* The object an interface points at.
PointsAt(i) ==
  CASE i.proto = "LoadFile2"   -> Owned(i.owner, "provider")
    [] i.proto = "DevicePath"  -> Owned(i.owner, "devpath")
    [] i.proto = "LoadedImage" -> Owned(i.owner, "loadedImage")

AfterInitrd == IF image.native THEN "native" ELSE "firmware"

\* boot_linux: InitrdHandle::register, unless there is no initrd.  A refused
\* installation boots without one: what was installed and allocated stays.
RegisterInitrd ==
  /\ bpc = "initrd"
  /\ \/ /\ image.initrd = -1
        /\ UNCHANGED <<ifaces, heap, registered, denials>>
     \/ /\ image.initrd >= 0
        /\ heap' = heap \cup InitrdObjects(boots)
        /\ \/ /\ ifaces' = ifaces \cup {Iface(boots, "DevicePath"), Iface(boots, "LoadFile2")}
              /\ registered' = TRUE
              /\ UNCHANGED denials
           \/ /\ denials < MaxInstallFaults /\ denials' = denials + 1
              /\ ifaces' \in {ifaces, ifaces \cup {Iface(boots, "DevicePath")}}
              /\ UNCHANGED registered
  /\ bpc' = AfterInitrd
  /\ UNCHANGED <<peVars, fw, shimLock, retain, image, boots, drivers, overrideVars, reply>>

\* Seeded defect: the handle outlives the attempt.
DropInitrdNever(objects) ==
  registered' = FALSE /\ ifaces' = ifaces /\ heap' = objects

\* Drop for InitrdHandle, where boot_linux returns and this much is allocated.
\* The firmware is taken to let go of both interfaces.  Drop ignores a refusal
\* and frees what they point to all the same.
DropInitrd(objects) ==
  /\ registered' = FALSE
  /\ ifaces' = IF registered
               THEN ifaces \ {Iface(boots, "LoadFile2"), Iface(boots, "DevicePath")}
               ELSE ifaces
  /\ heap' = IF registered THEN objects \ InitrdObjects(boots) ELSE objects

\* Where a kernel's LocateDevicePath for LoadFile2 may lead.
Providers ==
  {o \in 1..boots : {Iface(o, "DevicePath"), Iface(o, "LoadFile2")} \subseteq ifaces}

\* initrd_load_file_callback.
Callback(policy, null, size) ==
  IF policy THEN "UNSUPPORTED"
  ELSE IF image.initrd = 0 THEN "NOT_FOUND"
  ELSE IF null \/ size < image.initrd THEN "BUFFER_TOO_SMALL"
  ELSE "SUCCESS"

\* The running kernel asks for its initrd: first for the size, then with a
\* buffer of that size, or out of turn.
AskInitrd ==
  /\ bpc = "running"
  /\ \E o \in Providers, policy, null \in BOOLEAN,
        size \in {n \in {0, reply.size, image.initrd - 1, image.initrd} : n >= 0} :
     LET status == Callback(policy, null, size)
     IN  reply' = [status |-> status, buffer |-> size, from |-> o,
                   size |-> IF status \in {"BUFFER_TOO_SMALL", "SUCCESS"}
                            THEN image.initrd ELSE size]
  /\ UNCHANGED <<peVars, fw, shimLock, retain, image, boots, drivers, overrideVars,
                 ifaces, heap, registered, denials, bpc>>
-----------------------------------------------------------------------------
(* boot.rs: boot_linux, from the verified bytes on *)

\* A selection; the route is the one choose_load_path takes (BootAttempt).
SelectKernel ==
  /\ bpc = "menu"
  /\ boots < MaxSelections
  /\ boots' = boots + 1
  /\ image' \in [shimOk : BOOLEAN, dbOk : BOOLEAN, native : BOOLEAN,
                 initrd : InitrdSizes \cup {-1}]
  /\ file' \in KernelFiles
  /\ lpc' = "parse" /\ got' = FALSE /\ pages' = "none"
  /\ sec' = 0 /\ cursor' = 0 /\ item' = 0
  /\ reads' = {} /\ fixups' = {} /\ freed' = 0
  /\ reply' = NoReply
  /\ bpc' = "initrd"
  /\ UNCHANGED <<fw, shimLock, retain, drivers, overrideVars, ifaces, heap,
                 registered, denials>>

\* native_load_and_start: load_pe, before the LoadedImage is installed ...
NativeLoads ==
  /\ bpc = "native"
  /\ LoadSteps /\ ~Install
  /\ UNCHANGED lendVars

\* ... and with it.
NativeInstalls ==
  /\ bpc = "native"
  /\ Install
  /\ IF lpc' = "loaded"
     THEN /\ ifaces' = ifaces \cup {Iface(boots, "LoadedImage")}
          /\ heap' = heap \cup {Owned(boots, "loadedImage")}
     ELSE UNCHANGED <<ifaces, heap>>
  /\ UNCHANGED <<fw, shimLock, retain, bpc, image, boots, drivers, overrideVars,
                 registered, reply, denials>>

\* Drop for LoadedImage: the pages and the boxes are freed, and the protocol
\* stays installed.
HeapWithoutImage == heap \ {Owned(boots, "loadedImage")}

\* The command line has no UTF-16 form, the load failed, or the bytes loaded
\* are not the verified ones: boot_linux falls back to the firmware.
NativeFallsBack ==
  /\ bpc = "native"
  /\ \/ lpc \in {"parse", "failed"} /\ UNCHANGED <<peVars, heap>>
     \/ FreePages /\ heap' = HeapWithoutImage
  /\ bpc' = "firmware"
  /\ UNCHANGED <<fw, shimLock, retain, image, boots, drivers, overrideVars, ifaces,
                 registered, reply, denials>>

NativeStarts ==
  /\ bpc = "native"
  /\ lpc = "loaded"
  /\ bpc' = "running"
  /\ UNCHANGED <<peVars, fw, shimLock, retain, image, boots, drivers, overrideVars, lentVars>>

\* firmware_load_and_start: load_efi_image_from_buffer under its guard.
FirmwareGuarded ==
  /\ bpc = "firmware"
  /\ InstallOverride
  /\ bpc' = "firmwareLoad"
  /\ UNCHANGED <<peVars, fw, shimLock, retain, image, boots, drivers, lentVars>>

\* The guard ends with load_efi_image_from_buffer, before StartImage.
FirmwareStarts ==
  /\ bpc = "firmwareLoad"
  /\ LoadImageAccepts(image)
  /\ UninstallOverride
  /\ bpc' = "running"
  /\ UNCHANGED <<peVars, fw, shimLock, retain, image, boots, drivers, lentVars>>

\* Back to the menu; the locals of the attempt are gone.
LeaveBootLinux == bpc' = "menu" /\ image' = Unset /\ reply' = NoReply

\* LoadImage or set_load_options fails, and boot_linux returns.
FirmwareRefuses ==
  /\ bpc = "firmwareLoad"
  /\ UninstallOverride
  /\ DropInitrd(heap)
  /\ LeaveBootLinux
  /\ UNCHANGED <<peVars, fw, shimLock, retain, boots, drivers, denials>>

\* The kernel leaves boot services behind.
TakesOver ==
  /\ bpc = "running"
  /\ bpc' = "gone"
  /\ UNCHANGED <<peVars, fw, shimLock, retain, image, boots, drivers, overrideVars, lentVars>>

\* The kernel returns, and so does boot_linux.
Returns ==
  /\ bpc = "running"
  /\ IF lpc = "loaded"
     THEN FreePages /\ DropInitrd(HeapWithoutImage) /\ UNCHANGED shimLock
     ELSE /\ DropInitrd(heap)
          /\ shimLock' = ShimAfterReturn
          /\ UNCHANGED peVars
  /\ LeaveBootLinux
  /\ UNCHANGED <<fw, retain, boots, drivers, overrideVars, denials>>

ImageNext ==
  \/ RequestRetain \/ DriverGuarded \/ DriverLoaded \/ DriverRefused
  \/ DriverReturns \/ DriversDone
  \/ SelectKernel \/ RegisterInitrd
  \/ NativeLoads \/ NativeInstalls \/ NativeFallsBack \/ NativeStarts
  \/ FirmwareGuarded \/ FirmwareStarts \/ FirmwareRefuses
  \/ AskInitrd \/ TakesOver \/ Returns

ImageSpec == ImageInit /\ [][ImageNext]_imageVars
-----------------------------------------------------------------------------
(* Properties *)

Loading == bpc \in {"driverLoad", "firmwareLoad"}

\* Whoever loads an image finds the firmware's own functions in its security
\* protocols again afterwards: outside the two guarded scopes neither protocol
\* holds a hook of ours, and no hook ever took one of ours for the original,
\* which would recurse.  (install/uninstall_security_override on every path.)
HooksGivenBack ==
  /\ ~(Loading \/ bpc = "driverRuns") =>
       ~active /\ \A a \in fw.archs : hooks[a] = "firmware"
  /\ \A a \in Archs : saved[a] # "ours"

\* Under Secure Boot every LoadImage that LamBoot calls is decided as
\* BootAttempt assumes: accepted by shim, if it is there, or by db, and by
\* nothing else, the second load of a power-on like the first.
OverrideVerdict ==
  Loading /\ fw.sb =>
    (LoadImageAccepts(image) <=> (shimLock /\ image.shimOk) \/ image.dbOk)

\* The initrd a running kernel can find is the one of its own attempt, and it
\* is there whenever it was registered: nothing an earlier attempt or a failed
\* registration left behind answers in its place.
FindsItsOwnInitrd ==
  /\ Providers \subseteq {boots}
  /\ bpc = "running" /\ registered => Providers = {boots}
  /\ bpc \in {"drivers", "menu"} => Providers = {}

\* initrd_load_file_callback copies only into a buffer that holds the whole
\* initrd, out of memory that is still allocated, and the size it asks for is
\* one it accepts.
InitrdTwoPhase ==
  /\ reply.status = "SUCCESS" /\ bpc = "running" =>
       /\ reply.buffer >= image.initrd
       /\ Owned(reply.from, "data") \in heap
  /\ reply.status = "BUFFER_TOO_SMALL" =>
       Callback(FALSE, FALSE, reply.size) = "SUCCESS"

\* What the firmware can call for an initrd is allocated.
InitrdAlive ==
  \A i \in ifaces : i.proto # "LoadedImage" => PointsAt(i) \in heap

\* An installed LoadedImage protocol points at its struct: "must outlive any
\* firmware consumer of the protocol" (pe_loader.rs, LoadedImage).
LoadedImageAlive ==
  \A i \in ifaces : i.proto = "LoadedImage" => PointsAt(i) \in heap
=============================================================================
