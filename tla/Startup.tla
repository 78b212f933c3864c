-------------------------------- MODULE Startup --------------------------------
(***************************************************************************)
(* The start of the app process: MainActivity calls nativeInit, which      *)
(* repairs the Arch rootfs, decides whether it is complete, and starts two *)
(* threads.  The setup thread downloads, unpacks and configures the        *)
(* rootfs.  The compositor thread binds the Wayland socket inside the      *)
(* rootfs at once, waits for the setup and then starts the services.  The  *)
(* threads that connect the camera and the speaker to PipeWire start with  *)
(* the process, long before there is a daemon to connect to.               *)
(*                                                                         *)
(* The process may die between any two steps.  What it leaves on the disk  *)
(* is what the next process finds.                                         *)
(*                                                                         *)
(* Left out: the log overlay, the contents of the files, WirePlumber, what *)
(* the user runs in proot, and the portal, which is a module of its own.   *)
(* So a stage that writes files is one step.  In the code a death in the   *)
(* middle of it leaves a torn file, or some of several, and a later run    *)
(* that finds the one it looks for takes the stage for applied.            *)
(***************************************************************************)
EXTENDS Naturals, Sequences

CONSTANTS
  MAX_INSTALL_ATTEMPTS, \* calls of pacman in one setup
  MaxFaults             \* bound on deaths, failed calls and toggles of PipeWire

ASSUME AttemptsAssumption == MAX_INSTALL_ATTEMPTS \in Nat \ {0}
ASSUME FaultsAssumption   == MaxFaults \in Nat

(* The stages of run_setup after the first, "Arch rootfs".                 *)
Stages ==
  << "System data", "Machine ID", "DNS", "Alpm user", "Dependencies",
     "User config", "Bwrap shim", "Flatpak-spawn shim", "Bsdtar wrapper",
     "Firefox config", "Electron config", "XKB symlink", "Ttyname fix",
     "Storage mountpoints", "PipeWire config", "D-Bus config",
     "Flatpak repo", "XDG portal", "Hybris Vulkan" >>

StageNames == {Stages[i] : i \in DOMAIN Stages}

(* Those that nativeInit runs again on every start.                        *)
AtEveryStart ==
  {"Firefox config", "Electron config", "Bwrap shim", "Flatpak-spawn shim",
   "D-Bus config", "XDG portal", "Hybris Vulkan"}

Sinks == {"camera", "audio"}

VARIABLES
  \* On the disk
  archive,     \* temp_file, the downloaded tarball
  extracted,   \* extracted_dir, where it is unpacked
  root,        \* ARCH_FS_ROOT.  stub: only what nativeInit and bind_socket make
  applied,     \* stages whose work is in the rootfs
  xkb,         \* the symlink usr/share/X11/xkb, none before there are keymaps
  socket,      \* tmp/wayland-0: no file, one without listener, or the listener's
  pipewire,    \* the preference pipewire_enabled
  \* The device
  device,      \* what proot does on it
  \* The process
  alive,       \* is there a process?
  main,        \* MainActivity: none, created, or saved by Android
  nativeInit,  \* where nativeInit is
  INITIALIZED,
  no_seccomp,  \* USE_NO_SECCOMP
  setup,       \* where the setup thread is
  stage,       \* index in Stages
  attempt,     \* of install_dependencies
  setup_done,
  compositor,  \* where the compositor thread is
  keyboard,    \* has the seat a keyboard?
  \* The services
  pipewire_0,  \* tmp/pipewire-0: no file, one without listener, or the daemon's
  daemon,      \* the PipeWire daemon in proot
  sinks,       \* the threads of the camera and the audio
  \* Bookkeeping
  faults,      \* number of faults so far
  trouble      \* has a stage of this process's setup given up?

diskVars    == <<archive, extracted, root, applied, xkb, socket>>
appVars     == <<alive, main, nativeInit, INITIALIZED>>
setupVars   == <<no_seccomp, setup, stage, attempt, setup_done>>
threadVars  == <<compositor, keyboard>>
serviceVars == <<pipewire_0, daemon, sinks>>
vars == <<diskVars, pipewire, device, appVars, setupVars, threadVars, serviceVars,
          faults, trouble>>

(* The mode of proot in which libproot.so -V succeeds, and whether commands *)
(* run in that mode: -V runs none.  Where commands run, -V succeeds; where *)
(* none runs, it makes no difference which of the modes it was.            *)
Devices ==
  {d \in [probe : {"seccomp", "no_seccomp", "unsupported"}, commands : BOOLEAN] :
     d.probe # IF d.commands THEN "unsupported" ELSE "no_seccomp"}

(* removed: between the two calls of fix_xkb_symlink.  lost: a death or a  *)
(* failed call came between the two, and the keymaps have no link.         *)
Links == {"none", "absolute", "relative", "removed", "lost"}

TypeOK ==
  /\ archive \in {"none", "partial", "full"}
  /\ extracted \in {"none", "partial", "full"}
  /\ root \in {"none", "stub", "partial", "full"}
  /\ applied \subseteq StageNames
  /\ xkb \in Links
  /\ socket \in {"none", "stale", "bound"}
  /\ pipewire \in BOOLEAN
  /\ device \in Devices
  /\ alive \in BOOLEAN
  /\ main \in {"none", "created", "saved"}
  /\ nativeInit \in {"idle", "fix", "relink", "check"}
  /\ INITIALIZED \in BOOLEAN
  /\ no_seccomp \in {"unset", "yes", "no"}
  /\ setup \in {"off", "probe", "fetch", "download", "extract", "unpack", "replace",
                "rename", "cleanup", "stages", "install", "relink"}
  /\ stage \in 1 .. Len(Stages)
  /\ attempt \in 0 .. MAX_INSTALL_ATTEMPTS
  /\ setup_done \in BOOLEAN
  /\ compositor \in {"off", "prepare", "bind", "wait", "run", "failed"}
  /\ keyboard \in BOOLEAN
  /\ pipewire_0 \in {"none", "stale", "bound"}
  /\ daemon \in {"off", "starting", "up"}
  /\ sinks \in [Sinks -> {"off", "connecting", "connected", "hung", "failed"}]
  /\ faults \in 0 .. MaxFaults
  /\ trouble \in BOOLEAN

Init ==
  /\ archive = "none"
  /\ extracted = "none"
  /\ root = "none"
  /\ applied = {}
  /\ xkb = "none"
  /\ socket = "none"
  /\ pipewire = FALSE
  /\ device \in Devices
  /\ alive = FALSE
  /\ main = "none"
  /\ nativeInit = "idle"
  /\ INITIALIZED = FALSE
  /\ no_seccomp = "unset"
  /\ setup = "off"
  /\ stage = 1
  /\ attempt = 0
  /\ setup_done = FALSE
  /\ compositor = "off"
  /\ keyboard = FALSE
  /\ pipewire_0 = "none"
  /\ daemon = "off"
  /\ sinks = [s \in Sinks |-> "off"]
  /\ faults = 0
  /\ trouble = FALSE

-----------------------------------------------------------------------------
Fault    == faults < MaxFaults /\ faults' = faults + 1
GivesUp  == Fault /\ trouble' = TRUE
Recovers == Fault /\ UNCHANGED trouble
Works    == UNCHANGED <<faults, trouble>>

usr_bin == root \in {"partial", "full"}

(* Any command in proot needs a rootfs and the right mode of proot; before *)
(* is_supported has run, the mode is the default.                          *)
proot_works ==
  /\ usr_bin
  /\ device.commands
  /\ device.probe = "no_seccomp" => no_seccomp = "yes"

check_cmd == proot_works /\ "Dependencies" \in applied

is_setup_complete_Fast ==   \* mutant
  usr_bin /\ "User config" \in applied /\ "Bsdtar wrapper" \in applied
is_setup_complete ==
  /\ usr_bin
  /\ "User config" \in applied
  /\ "Bsdtar wrapper" \in applied
  /\ check_cmd

-----------------------------------------------------------------------------
(* MainActivity.onCreate with no saved state: nativeInit, unless this      *)
(* process has called it before.                                           *)
onCreate ==
  /\ nativeInit = "idle"
  /\ alive' = TRUE
  /\ main' = "created"
  /\ INITIALIZED' = TRUE
  /\ nativeInit' = IF INITIALIZED THEN "idle" ELSE "fix"
  /\ UNCHANGED <<diskVars, pipewire, device, setupVars, threadVars, serviceVars, faults, trouble>>

(* onCreate with saved state never calls nativeInit.                       *)
RestoreMain ==
  /\ nativeInit = "idle"
  /\ main = "saved"
  /\ alive' = TRUE
  /\ main' = "created"
  /\ UNCHANGED <<diskVars, pipewire, device, nativeInit, INITIALIZED, setupVars,
                 threadVars, serviceVars, faults, trouble>>

(* Swiped away from the recents.  The foreground service keeps the process.*)
RemoveTask ==
  /\ main # "none"
  /\ main' = "none"
  /\ UNCHANGED <<diskVars, pipewire, device, alive, nativeInit, INITIALIZED, setupVars,
                 threadVars, serviceVars, faults, trouble>>

(* ApplicationContext::build fails: nativeInit returns.                    *)
BuildContextFails ==
  /\ nativeInit = "fix"
  /\ Recovers
  /\ nativeInit' = "idle"
  /\ UNCHANGED <<diskVars, pipewire, device, alive, main, INITIALIZED, setupVars, threadVars,
                 serviceVars>>

(* fix_xkb_symlink replaces an absolute link in two steps, and does nothing *)
(* where it finds no link.                                                 *)
NextOfFix == IF xkb = "absolute" THEN "relink" ELSE "check"

fix_xkb_symlink_Missing ==   \* mutant
  /\ nativeInit = "fix"
  /\ nativeInit' = "check"
  /\ UNCHANGED <<diskVars, pipewire, device, alive, main, INITIALIZED, setupVars,
                 threadVars, serviceVars, faults, trouble>>
fix_xkb_symlink ==
  /\ nativeInit = "fix"
  /\ nativeInit' = NextOfFix
  /\ xkb' = IF xkb = "absolute" THEN "removed" ELSE xkb
  /\ UNCHANGED <<archive, extracted, root, applied, socket, pipewire, device, alive, main,
                 INITIALIZED, setupVars, threadVars, serviceVars, faults, trouble>>

Relink ==
  /\ nativeInit = "relink"
  /\ nativeInit' = "check"
  /\ \/ xkb' = "relative" /\ Works
     \/ xkb' = "lost" /\ Recovers
  /\ UNCHANGED <<archive, extracted, root, applied, socket, pipewire, device, alive, main,
                 INITIALIZED, setupVars, threadVars, serviceVars>>

(* The repairs of every start also write into a rootfs that is not there.  *)
(* Then the check, and the threads.                                        *)
Repaired == IF usr_bin THEN applied \cup AtEveryStart ELSE applied

CheckSetup ==
  /\ nativeInit = "check"
  /\ nativeInit' = "idle"
  /\ applied' = Repaired
  /\ root' = IF root = "none" THEN "stub" ELSE root
  /\ setup' = IF is_setup_complete THEN "off" ELSE "probe"
  /\ setup_done' = is_setup_complete
  /\ compositor' = "prepare"
  /\ sinks' = [s \in Sinks |-> IF pipewire THEN "connecting" ELSE "off"]
  /\ UNCHANGED <<archive, extracted, xkb, socket, pipewire, device, alive, main,
                 INITIALIZED, no_seccomp, stage, attempt, keyboard, pipewire_0, daemon,
                 faults, trouble>>

-----------------------------------------------------------------------------
(* The setup thread.  It leaves these alone:                               *)
SetupFrame == UNCHANGED <<socket, pipewire, device, appVars, threadVars, serviceVars>>

Goto(from, to) == setup = from /\ setup' = to /\ UNCHANGED <<no_seccomp, setup_done>>

(* is_supported asks libproot.so -V, with seccomp and then without.        *)
(* run_setup returns at once if both fail.                                 *)
Supported ==
  /\ setup = "probe"
  /\ device.probe # "unsupported"
  /\ no_seccomp' = IF device.probe = "seccomp" THEN "no" ELSE "yes"
  /\ setup' = "fetch"
  /\ UNCHANGED <<archive, extracted, root, applied, xkb, stage, attempt, setup_done>>
  /\ Works
  /\ SetupFrame

Unsupported_Forgets ==   \* mutant
  /\ setup = "probe"
  /\ device.probe = "unsupported"
  /\ no_seccomp' = "no"
  /\ setup' = "off"
  /\ UNCHANGED <<archive, extracted, root, applied, xkb, stage, attempt, setup_done>>
  /\ Works
  /\ SetupFrame
Unsupported ==
  /\ setup = "probe"
  /\ device.probe = "unsupported"
  /\ no_seccomp' = "no"
  /\ setup' = "off"
  /\ setup_done' = TRUE
  /\ UNCHANGED <<archive, extracted, root, applied, xkb, stage, attempt>>
  /\ Works
  /\ SetupFrame

(* setup_arch_fs.  An archive left by an earlier process is used as it is. *)
ArchPresent_Complete == is_setup_complete   \* mutant
ArchPresent == usr_bin

SkipArchFs ==
  /\ Goto("fetch", "stages")
  /\ ArchPresent
  /\ stage' = 1
  /\ UNCHANGED <<archive, extracted, root, applied, xkb, attempt>>
  /\ Works
  /\ SetupFrame

UseArchive ==
  /\ Goto("fetch", "extract")
  /\ ~ArchPresent
  /\ archive # "none"
  /\ UNCHANGED <<archive, extracted, root, applied, xkb, stage, attempt>>
  /\ Works
  /\ SetupFrame

StartDownload ==
  /\ ~ArchPresent
  /\ archive = "none"
  /\ \/ /\ Goto("fetch", "download")
        /\ archive' = "partial"
        /\ UNCHANGED stage
        /\ Works
     \/ /\ Goto("fetch", "fetch")     \* the call fails: try again
        /\ UNCHANGED <<archive, stage>>
        /\ Recovers
     \/ /\ Goto("fetch", "stages")    \* no file can be made: give up
        /\ UNCHANGED archive
        /\ stage' = 1
        /\ GivesUp
  /\ UNCHANGED <<extracted, root, applied, xkb, attempt>>
  /\ SetupFrame

(* The body of the response, read into the file.                           *)
Download ==
  /\ \/ /\ Goto("download", "extract")
        /\ archive' = "full"
        /\ Works
     \/ /\ Goto("download", "fetch")  \* read or write error
        /\ archive' = "none"
        /\ Recovers
  /\ UNCHANGED <<extracted, root, applied, xkb, stage, attempt>>
  /\ SetupFrame

Extract ==
  /\ \/ /\ Goto("extract", "unpack")
        /\ extracted' = "partial"
        /\ UNCHANGED stage
        /\ Works
     \/ /\ Goto("extract", "stages")  \* the archive cannot be opened
        /\ extracted' = "none"
        /\ stage' = 1
        /\ GivesUp
  /\ UNCHANGED <<archive, root, applied, xkb, attempt>>
  /\ SetupFrame

(* The decoder reports an archive that ends early.  Either all entries are *)
(* unpacked, or everything is thrown away.                                 *)
Unpack_TruncatedOk ==   \* mutant
  /\ Goto("unpack", "replace")
  /\ extracted' = archive
  /\ UNCHANGED <<archive, root, applied, xkb, stage, attempt>>
  /\ Works
  /\ SetupFrame
Unpack ==
  /\ \/ /\ Goto("unpack", "replace")
        /\ archive = "full"
        /\ extracted' = "full"
        /\ UNCHANGED archive
        /\ Works
     \/ /\ Goto("unpack", "fetch")
        /\ archive' = "none"
        /\ extracted' = "none"
        /\ IF archive = "full" THEN Recovers ELSE Works
  /\ UNCHANGED <<root, applied, xkb, stage, attempt>>
  /\ SetupFrame

(* remove_dir_all takes the sockets in the directory with it.  Its error,  *)
(* after which some of the directory is left, is ignored.                  *)
Replace ==
  /\ Goto("replace", "rename")
  /\ \/ /\ root' = "none"
        /\ applied' = {}
        /\ xkb' = "none"
        /\ socket' = "none"
        /\ pipewire_0' = "none"
        /\ Works
     \/ /\ socket' \in {socket, "none"}
        /\ pipewire_0' \in {pipewire_0, "none"}
        /\ UNCHANGED <<root, applied, xkb>>
        /\ Recovers
  /\ UNCHANGED <<archive, extracted, stage, attempt, pipewire, device, appVars, threadVars,
                 daemon, sinks>>

(* The link may come with the tarball or with a package.  The rename fails *)
(* if the directory is still there or the compositor thread has made tmp   *)
(* in it again.                                                            *)
Rename ==
  /\ \/ /\ Goto("rename", "cleanup")
        /\ root = "none"
        /\ root' = extracted
        /\ extracted' = "none"
        /\ xkb' \in {"none", "absolute"}
        /\ UNCHANGED stage
        /\ Works
     \/ /\ Goto("rename", "stages")
        /\ root # "none"
        /\ UNCHANGED <<root, extracted, xkb>>
        /\ stage' = 1
        /\ trouble' = TRUE
        /\ UNCHANGED faults
  /\ UNCHANGED <<archive, applied, attempt>>
  /\ SetupFrame

Cleanup ==
  /\ Goto("cleanup", "stages")
  /\ archive' = "none"
  /\ stage' = 1
  /\ UNCHANGED <<extracted, root, applied, xkb, attempt>>
  /\ Works
  /\ SetupFrame

-----------------------------------------------------------------------------
(* The other stages.  After the last one the compositor may go on.         *)
NextStage ==
  /\ UNCHANGED no_seccomp
  /\ IF stage < Len(Stages)
     THEN setup' = "stages" /\ stage' = stage + 1 /\ UNCHANGED setup_done
     ELSE setup' = "off" /\ UNCHANGED stage /\ setup_done' = TRUE

At(name) == setup = "stages" /\ Stages[stage] = name

(* A stage that just writes files, or finds them written.  Without a       *)
(* rootfs its work is lost to the next extraction.  The machine id is made *)
(* by a command, and nobody looks at its result.                           *)
OrdinaryStages ==
  StageNames \ {"Dependencies", "XKB symlink", "Ttyname fix", "PipeWire config"}

Applying(name) ==
  IF usr_bin /\ (name = "Machine ID" => proot_works) THEN applied \cup {name} ELSE applied

ApplyStage ==
  /\ \E name \in OrdinaryStages :
       /\ At(name)
       /\ \/ applied' = Applying(name) /\ Works
          \/ UNCHANGED applied /\ GivesUp
  /\ NextStage
  /\ UNCHANGED <<archive, extracted, root, xkb, attempt>>
  /\ SetupFrame

(* gcc is not among the PACKAGES: the shim may not build.                  *)
fix_ttyname ==
  /\ At("Ttyname fix")
  /\ \/ proot_works /\ applied' = Applying("Ttyname fix") /\ Works
     \/ UNCHANGED applied /\ (IF proot_works THEN Recovers ELSE Works)
  /\ NextStage
  /\ UNCHANGED <<archive, extracted, root, xkb, attempt>>
  /\ SetupFrame

setup_pipewire_config ==
  /\ At("PipeWire config")
  /\ LET patches == pipewire /\ "Dependencies" \in applied IN
     \/ ~patches /\ UNCHANGED applied /\ Works
     \/ patches /\ applied' = Applying("PipeWire config") /\ Works
     \/ patches /\ UNCHANGED applied /\ GivesUp
  /\ NextStage
  /\ UNCHANGED <<archive, extracted, root, xkb, attempt>>
  /\ SetupFrame

DependenciesInstalled_AnyPackage ==   \* mutant
  /\ At("Dependencies")
  /\ proot_works /\ xkb # "none"
  /\ NextStage
  /\ UNCHANGED <<archive, extracted, root, applied, xkb, attempt>>
  /\ Works
  /\ SetupFrame
DependenciesInstalled ==
  /\ At("Dependencies")
  /\ check_cmd
  /\ NextStage
  /\ UNCHANGED <<archive, extracted, root, applied, xkb, attempt>>
  /\ Works
  /\ SetupFrame

install_dependencies ==
  /\ At("Dependencies")
  /\ ~check_cmd
  /\ Goto("stages", "install")
  /\ attempt' = 1
  /\ UNCHANGED <<archive, extracted, root, applied, xkb, stage>>
  /\ Works
  /\ SetupFrame

(* One call of pacman.  Even one that fails may have installed or upgraded *)
(* the keymaps, and with them the link of the package.                     *)
CanInstall == proot_works /\ {"DNS", "Alpm user"} \subseteq applied

MaybeLinked == xkb' \in {xkb} \cup {x \in {"absolute"} : proot_works}

InstallSucceeds ==
  /\ setup = "install"
  /\ CanInstall
  /\ applied' = applied \cup {"Dependencies"}
  /\ xkb' \in ({xkb} \ {"none"}) \cup {"absolute"}
  /\ attempt' = 0
  /\ NextStage
  /\ UNCHANGED <<archive, extracted, root>>
  /\ Works
  /\ SetupFrame

AttemptsLeft_OneMore == attempt <= MAX_INSTALL_ATTEMPTS   \* mutant
AttemptsLeft == attempt < MAX_INSTALL_ATTEMPTS

InstallFails ==
  /\ setup = "install"
  /\ IF CanInstall THEN Fault ELSE UNCHANGED faults
  /\ MaybeLinked
  /\ \/ /\ AttemptsLeft
        /\ attempt' = attempt + 1
        /\ UNCHANGED <<no_seccomp, setup, stage, setup_done, trouble>>
     \/ /\ ~AttemptsLeft
        /\ attempt' = 0
        /\ trouble' = TRUE
        /\ NextStage
  /\ UNCHANGED <<archive, extracted, root, applied>>
  /\ SetupFrame

(* The stage "XKB symlink" is fix_xkb_symlink once more.                   *)
XkbStage ==
  /\ At("XKB symlink")
  /\ \/ /\ xkb = "absolute"
        /\ Goto("stages", "relink")
        /\ xkb' = "removed"
        /\ UNCHANGED <<stage, applied>>
     \/ /\ xkb # "absolute"
        /\ applied' = Applying("XKB symlink")
        /\ UNCHANGED xkb
        /\ NextStage
  /\ UNCHANGED <<archive, extracted, root, attempt>>
  /\ Works
  /\ SetupFrame

RelinkStage ==
  /\ setup = "relink"
  /\ \/ xkb' = "relative" /\ Works
     \/ xkb' = "lost" /\ GivesUp
  /\ applied' = Applying("XKB symlink")
  /\ NextStage
  /\ UNCHANGED <<archive, extracted, root, attempt>>
  /\ SetupFrame

-----------------------------------------------------------------------------
(* The compositor thread.                                                  *)
CompositorFrame ==
  UNCHANGED <<archive, extracted, applied, xkb, pipewire, device, appVars, setupVars, sinks>>

(* eventfd, EGL or the Wayland display fail: the thread ends.              *)
CompositorFails ==
  /\ compositor = "prepare"
  /\ compositor' = "failed"
  /\ Fault
  /\ UNCHANGED <<root, socket, keyboard, pipewire_0, daemon, trouble>>
  /\ CompositorFrame

prepare_socket_path ==
  /\ compositor = "prepare"
  /\ compositor' = "bind"
  /\ root' = IF root = "none" THEN "stub" ELSE root
  /\ socket' = "none"
  /\ UNCHANGED <<keyboard, pipewire_0, daemon, faults, trouble>>
  /\ CompositorFrame

bind_socket ==
  /\ compositor = "bind"
  /\ \/ root # "none" /\ socket' = "bound" /\ compositor' = "wait"
     \/ root = "none" /\ UNCHANGED socket /\ compositor' = "failed"
  /\ UNCHANGED <<root, keyboard, pipewire_0, daemon, faults, trouble>>
  /\ CompositorFrame

(* start_pipewire removes the socket of an earlier daemon and starts one.  *)
start_pipewire ==
  IF pipewire
  THEN pipewire_0' = "none" /\ daemon' = "starting"
  ELSE UNCHANGED <<pipewire_0, daemon>>

(* The end of the wait: init_keyboard, launch, start_portal_bridge.        *)
run_compositor_loop ==
  /\ compositor = "wait"
  /\ setup_done
  /\ compositor' = "run"
  /\ keyboard' = (xkb = "relative")
  /\ start_pipewire
  /\ UNCHANGED <<root, socket, faults, trouble>>
  /\ CompositorFrame

-----------------------------------------------------------------------------
(* The services.                                                           *)
ServiceFrame ==
  UNCHANGED <<diskVars, pipewire, device, appVars, setupVars, threadVars, trouble>>

DaemonUp ==
  /\ daemon = "starting"
  /\ check_cmd
  /\ daemon' = "up"
  /\ pipewire_0' = "bound"
  /\ UNCHANGED <<sinks, faults>>
  /\ ServiceFrame

(* It crashes, or there was none to run.  Nobody starts it again, and its  *)
(* clients stay as they are.                                               *)
DaemonExits ==
  /\ daemon # "off"
  /\ daemon' = "off"
  /\ pipewire_0' = IF pipewire_0 = "bound" THEN "stale" ELSE pipewire_0
  /\ IF daemon = "starting" /\ ~check_cmd THEN UNCHANGED faults ELSE Fault
  /\ UNCHANGED sinks
  /\ ServiceFrame

(* run_pipewire_loop and run_pipewire_audio_loop: a refused connection is  *)
(* tried again in two seconds.                                             *)
Refused_GivesUp(s) ==   \* mutant
  /\ sinks[s] = "connecting"
  /\ pipewire_0 # "bound"
  /\ sinks' = [sinks EXCEPT ![s] = "hung"]
  /\ UNCHANGED <<pipewire_0, daemon, faults>>
  /\ ServiceFrame
Refused(s) ==
  /\ sinks[s] = "connecting"
  /\ pipewire_0 # "bound"
  /\ UNCHANGED vars

(* The daemon's own checks make a client hang unless the setup has patched *)
(* them away.  The stream, or AAudio, may fail: then the thread ends.      *)
Configured == "PipeWire config" \in applied

Connect(s) ==
  /\ sinks[s] = "connecting"
  /\ pipewire_0 = "bound"
  /\ \/ sinks' = [sinks EXCEPT ![s] = IF Configured THEN "connected" ELSE "hung"]
        /\ UNCHANGED faults
     \/ sinks' = [sinks EXCEPT ![s] = "failed"] /\ Fault
  /\ UNCHANGED <<pipewire_0, daemon>>
  /\ ServiceFrame

-----------------------------------------------------------------------------
(* "Kill All", the low-memory killer, a crash.  Android kills what runs in *)
(* proot with it.  A link about to be made again is never made.            *)
ProcessDeath ==
  /\ alive
  /\ Fault
  /\ alive' = FALSE
  /\ main' \in {"none"} \cup {m \in {"saved"} : main # "none"}
  /\ nativeInit' = "idle"
  /\ INITIALIZED' = FALSE
  /\ no_seccomp' = "unset"
  /\ setup' = "off"
  /\ stage' = 1
  /\ attempt' = 0
  /\ setup_done' = FALSE
  /\ compositor' = "off"
  /\ keyboard' = FALSE
  /\ trouble' = FALSE
  /\ socket' = IF socket = "bound" THEN "stale" ELSE socket
  /\ pipewire_0' = IF pipewire_0 = "bound" THEN "stale" ELSE pipewire_0
  /\ daemon' = "off"
  /\ sinks' = [s \in Sinks |-> "off"]
  /\ xkb' = IF xkb = "removed" THEN "lost" ELSE xkb
  /\ UNCHANGED <<archive, extracted, root, applied, pipewire, device>>

(* The switch of DebugActivity sets the preference and the flag at once.   *)
TogglePipewire ==
  /\ alive
  /\ Fault
  /\ pipewire' = ~pipewire
  /\ UNCHANGED <<diskVars, device, appVars, setupVars, threadVars, serviceVars, trouble>>

-----------------------------------------------------------------------------
NativeInit == BuildContextFails \/ fix_xkb_symlink \/ Relink \/ CheckSetup

setup_arch_fs ==
  \/ SkipArchFs \/ UseArchive \/ StartDownload \/ Download \/ Extract
  \/ Unpack \/ Replace \/ Rename \/ Cleanup

run_setup ==
  \/ Supported \/ Unsupported \/ setup_arch_fs
  \/ ApplyStage \/ fix_ttyname \/ setup_pipewire_config
  \/ DependenciesInstalled \/ install_dependencies \/ InstallSucceeds \/ InstallFails
  \/ XkbStage \/ RelinkStage

Compositor ==
  CompositorFails \/ prepare_socket_path \/ bind_socket \/ run_compositor_loop

Connects == \E s \in Sinks : Refused(s) \/ Connect(s)

Next ==
  \/ onCreate \/ RestoreMain \/ RemoveTask \/ ProcessDeath \/ TogglePipewire
  \/ NativeInit \/ run_setup \/ Compositor
  \/ DaemonUp \/ DaemonExits \/ Connects

(* The threads of a live process run.  A failed call is followed by others *)
(* that work, since the faults are bounded.                                *)
Fairness ==
  /\ WF_vars(NativeInit)
  /\ WF_vars(run_setup)
  /\ WF_vars(Compositor)
  /\ WF_vars(DaemonUp)
  /\ WF_vars(Connects)

Spec == Init /\ [][Next]_vars /\ Fairness

-----------------------------------------------------------------------------
(* What counts as a rootfs (usr/bin exists) came from a complete archive,  *)
(* wherever the process died and whatever it found of an earlier one.      *)
RootfsIsWhole == root # "partial"

(* A rootfs is never removed or replaced: it holds the files of the user.  *)
RootfsKept == [][root = "full" => root' = "full"]_vars

(* When the services start they find what they need, whichever processes   *)
(* of the past made it.                                                    *)
(* The seat has a keyboard as soon as the keymaps are installed: wherever  *)
(* an earlier process died, the absolute link of the package is repaired   *)
(* before the compositor looks, with one exception that the code does not  *)
(* prevent.  fix_xkb_symlink removes the link before it makes it again; a  *)
(* death or a failed call between the two (setup.rs:492) loses it, and     *)
(* every later start finds no link to repair (setup.rs:461).               *)
(* Where the dependencies have ever been installed, commands run in proot: *)
(* in the mode of this process, although the mode is probed by a setup     *)
(* only, a complete rootfs skips the setup, and -V runs no command.        *)
ServicesReady ==
  compositor = "run" =>
    /\ keyboard \/ xkb = "none" \/ xkb = "lost"
    /\ "Dependencies" \in applied => proot_works

(* Whatever earlier processes left behind, and however often it had to     *)
(* retry, a setup no stage of which gave up leaves a rootfs that the next  *)
(* start takes for complete.                                               *)
SetupConverges ==
  compositor = "run" /\ ~trouble /\ device.probe # "unsupported" => is_setup_complete

(* The compositor's wait for the setup ends.                               *)
SetupEnds == compositor = "wait" ~> compositor # "wait"

(* The camera and the audio find the daemon, although they look for it     *)
(* from the start of the process, through the setup and past the socket an *)
(* earlier daemon has left.  Only a daemon nobody configured keeps them    *)
(* hanging: the toggle was off during the setup, and no later start        *)
(* repairs it.                                                             *)
SinksConnect ==
  (daemon = "up" /\ Configured)
    ~> (daemon # "up" \/ \A s \in Sinks : sinks[s] \in {"off", "connected", "failed"})

(* PLAN.md: the socket at {ARCH_FS_ROOT}/tmp/wayland-0 is accessible from  *)
(* proot.  While the launcher is open, apps find the compositor there.     *)
SocketReachable == compositor = "run" => socket = "bound"
=============================================================================
