----------------------------- MODULE StartupProofs -----------------------------
(***************************************************************************)
(* Whatever earlier processes left on the disk and wherever they died, a   *)
(* rootfs is whole and kept, the services start on what they need, and a   *)
(* setup that never gave up is complete: for every number of deaths and    *)
(* failed calls and of attempts of pacman.                                 *)
(*                                                                         *)
(* The argument follows the one process there is: its setup thread runs    *)
(* after nativeInit and before the services, and every claim about the     *)
(* disk is one about where that thread is.                                 *)
(***************************************************************************)
EXTENDS Startup, TLAPS

-----------------------------------------------------------------------------
(* The inductive invariant.                                                *)

(* Until nativeInit ends, neither thread has been started. *)
ThreadsAreFresh ==
  /\ compositor = "off" /\ setup = "off" /\ ~setup_done
  /\ no_seccomp = "unset" /\ ~trouble

InOrder ==
  /\ nativeInit # "idle" \/ ~INITIALIZED => ThreadsAreFresh
  /\ ~INITIALIZED => nativeInit = "idle"
  /\ setup_done => setup = "off"
  /\ compositor = "run" => setup_done

(* The archive is unpacked next to the rootfs, which is replaced only by   *)
(* all of it and only if there is none.                                    *)
Unpacked ==
  /\ root # "partial"
  /\ setup \in {"replace", "rename"} => extracted = "full"
  /\ setup \in {"download", "extract", "unpack", "replace", "rename"} => root # "full"
  /\ setup = "cleanup" => root = "full"
  /\ applied # {} => root = "full"

(* When the compositor looks for the link it is not absolute, nor has it   *)
(* been removed by somebody who is about to make it again.                 *)
InStages == setup \in {"stages", "install", "relink"}

Linked ==
  /\ xkb = "removed" => nativeInit = "relink" \/ setup = "relink"
  /\ nativeInit = "check" \/ setup = "probe" \/ setup_done => xkb # "absolute"
  /\ setup = "install" => stage = 5
  /\ setup = "relink" => stage = 12
  /\ InStages /\ stage > 12 => xkb # "absolute"
  /\ compositor = "run" => keyboard \/ xkb = "none" \/ xkb = "lost"

(* The mode of proot is the one that -V reports from the probe on; and the *)
(* dependencies were installed by a command that ran in proot.             *)
Probed ==
  /\ setup \notin {"off", "probe"} => device.probe # "unsupported"
  /\ device.probe = "no_seccomp" /\ (setup \notin {"off", "probe"} \/ setup_done) =>
       no_seccomp = "yes"
  /\ "Dependencies" \in applied => device.commands

(* A stage that is over has done its work, unless one gave up. *)
Progress ==
  /\ InStages /\ ~trouble =>
       /\ root = "full"
       /\ stage > 5 => "Dependencies" \in applied
       /\ stage > 6 => "User config" \in applied
       /\ stage > 9 => "Bsdtar wrapper" \in applied
  /\ setup_done /\ ~trouble /\ device.probe # "unsupported" => is_setup_complete

Inv == TypeOK /\ InOrder /\ Unpacked /\ Linked /\ Probed /\ Progress

-----------------------------------------------------------------------------
(* The stages by their number.                                             *)

LEMMA StageNumbers ==
  \A i \in 1 .. 19 :
    /\ Stages[i] = "Dependencies" <=> i = 5
    /\ Stages[i] = "User config" <=> i = 6
    /\ Stages[i] = "Bsdtar wrapper" <=> i = 9
    /\ Stages[i] = "XKB symlink" <=> i = 12
<1>1. /\ Stages[1] = "System data" /\ Stages[2] = "Machine ID" /\ Stages[3] = "DNS"
      /\ Stages[4] = "Alpm user" /\ Stages[5] = "Dependencies"
      /\ Stages[6] = "User config" /\ Stages[7] = "Bwrap shim"
      /\ Stages[8] = "Flatpak-spawn shim" /\ Stages[9] = "Bsdtar wrapper"
      /\ Stages[10] = "Firefox config"
  BY DEF Stages
<1>2. /\ Stages[11] = "Electron config" /\ Stages[12] = "XKB symlink"
      /\ Stages[13] = "Ttyname fix" /\ Stages[14] = "Storage mountpoints"
      /\ Stages[15] = "PipeWire config" /\ Stages[16] = "D-Bus config"
      /\ Stages[17] = "Flatpak repo" /\ Stages[18] = "XDG portal"
      /\ Stages[19] = "Hybris Vulkan"
  BY DEF Stages
<1>3. \A i \in 1 .. 19 :
         i = 1 \/ i = 2 \/ i = 3 \/ i = 4 \/ i = 5 \/ i = 6 \/ i = 7
        \/ i = 8 \/ i = 9 \/ i = 10 \/ i = 11 \/ i = 12 \/ i = 13
        \/ i = 14 \/ i = 15 \/ i = 16 \/ i = 17 \/ i = 18 \/ i = 19
  OBVIOUS
<1> QED  BY <1>1, <1>2, <1>3

LEMMA StageCount == Len(Stages) = 19 /\ \A i \in 1 .. 19 : Stages[i] \in StageNames
<1>1. Len(Stages) = 19
  BY DEF Stages
<1>2. DOMAIN Stages = 1 .. 19
  BY DEF Stages
<1> QED  BY <1>1, <1>2 DEF StageNames

(* What the rest of the proof uses of the types. *)
LEMMA Types ==
  ASSUME Inv
  PROVE  /\ stage \in 1 .. 19
         /\ root \in {"none", "stub", "full"}
         /\ xkb \in Links
         /\ applied \subseteq StageNames
  BY StageCount DEF Inv, TypeOK, Unpacked

LEMMA UnpackedNext ==
  ASSUME Inv, Next
  PROVE  Unpacked'
<1> USE Types DEF Inv, Works, Recovers, GivesUp, diskVars, appVars, setupVars, threadVars,
              serviceVars, Unpacked
<1>1. CASE onCreate \/ RestoreMain \/ RemoveTask \/ TogglePipewire \/ ProcessDeath
  BY <1>1 DEF onCreate, RestoreMain, RemoveTask, TogglePipewire, ProcessDeath
<1>2. CASE BuildContextFails \/ fix_xkb_symlink \/ Relink
  BY <1>2 DEF BuildContextFails, fix_xkb_symlink, Relink
<1>3. CASE CheckSetup
  <2>1. setup' \in {"off", "probe"}
    BY <1>3 DEF CheckSetup
  <2> QED  BY <1>3, <2>1 DEF CheckSetup, Repaired, usr_bin
<1>4. CASE Supported \/ Unsupported
  BY <1>4 DEF Supported, Unsupported, SetupFrame
<1>5. CASE SkipArchFs \/ UseArchive \/ StartDownload \/ Download \/ Extract \/ Cleanup
  BY <1>5 DEF SkipArchFs, UseArchive, StartDownload, Download, Extract, Cleanup, Goto,
              ArchPresent, usr_bin, SetupFrame
<1>6. CASE Unpack \/ Replace
  BY <1>6 DEF Unpack, Replace, Goto
<1>7. CASE Rename
  BY <1>7 DEF Rename, Goto
<1>8. ASSUME UNCHANGED <<root, extracted>>, setup' \in {"off", "stages", "install", "relink"},
             applied' = applied \/ root = "full"
      PROVE  Unpacked'
  BY <1>8
<1>9. CASE ApplyStage \/ fix_ttyname \/ setup_pipewire_config
  BY <1>8, <1>9 DEF ApplyStage, fix_ttyname, setup_pipewire_config, NextStage, Applying, usr_bin
<1>10. CASE DependenciesInstalled \/ install_dependencies \/ InstallFails
  BY <1>8, <1>10 DEF DependenciesInstalled, install_dependencies, InstallFails, NextStage,
                     At, Goto
<1>11. CASE InstallSucceeds
  BY <1>8, <1>11 DEF InstallSucceeds, CanInstall, proot_works, usr_bin, NextStage
<1>12. CASE XkbStage \/ RelinkStage
  BY <1>8, <1>12 DEF XkbStage, RelinkStage, NextStage, Applying, usr_bin, Goto
<1>13. CASE Compositor
  BY <1>13 DEF Compositor, CompositorFails, prepare_socket_path, bind_socket,
               run_compositor_loop, CompositorFrame
<1>14. CASE DaemonUp \/ DaemonExits \/ Connects
  BY <1>14 DEF DaemonUp, DaemonExits, Connects, Refused, Connect, ServiceFrame, vars
<1> QED
  BY <1>1, <1>2, <1>3, <1>4, <1>5, <1>6, <1>7, <1>9, <1>10, <1>11, <1>12, <1>13, <1>14
  DEF Next, NativeInit, run_setup, setup_arch_fs

LEMMA LinkedNext ==
  ASSUME Inv, Next
  PROVE  Linked'
<1> USE Types DEF Inv, Works, Recovers, GivesUp, diskVars, appVars, setupVars, threadVars,
              serviceVars, Linked, InStages, InOrder, ThreadsAreFresh
<1>1. CASE onCreate \/ RestoreMain \/ RemoveTask \/ TogglePipewire \/ ProcessDeath
  BY <1>1 DEF onCreate, RestoreMain, RemoveTask, TogglePipewire, ProcessDeath
<1>2. CASE BuildContextFails \/ fix_xkb_symlink \/ Relink
  BY <1>2 DEF BuildContextFails, fix_xkb_symlink, NextOfFix, Relink
<1>3. CASE CheckSetup
  <2>1. setup' \in {"off", "probe"} /\ compositor' = "prepare" /\ nativeInit' = "idle"
        /\ nativeInit = "check" /\ xkb' = xkb
    BY <1>3 DEF CheckSetup
  <2> QED  BY <2>1
<1>4. CASE Supported \/ Unsupported
  BY <1>4 DEF Supported, Unsupported, SetupFrame
<1>5. CASE setup_arch_fs
  BY <1>5 DEF setup_arch_fs, SkipArchFs, UseArchive, StartDownload, Download, Extract, Unpack,
              Replace, Rename, Cleanup, Goto, SetupFrame
<1>6. ASSUME UNCHANGED <<xkb, nativeInit, compositor, keyboard>>, compositor # "run",
             nativeInit = "idle", xkb # "removed",
             NextStage, stage \in 12 .. 19 => xkb # "absolute"
      PROVE  Linked'
  BY <1>6, StageCount DEF NextStage
<1>7. /\ InStages => nativeInit = "idle" /\ compositor # "run"
      /\ xkb = "removed" => nativeInit = "relink" \/ setup = "relink"
  OBVIOUS
<1>8. CASE ApplyStage \/ fix_ttyname \/ setup_pipewire_config
  <2>1. setup = "stages" /\ stage # 12 /\ NextStage
    BY <1>8, StageNumbers DEF ApplyStage, fix_ttyname, setup_pipewire_config, At, OrdinaryStages
  <2>2. UNCHANGED <<xkb, nativeInit, compositor, keyboard>>
    BY <1>8 DEF ApplyStage, fix_ttyname, setup_pipewire_config, SetupFrame
  <2> QED  BY <1>6, <1>7, <2>1, <2>2
<1>9. CASE DependenciesInstalled \/ install_dependencies
  <2>1. setup = "stages" /\ stage = 5
    BY <1>9, StageNumbers DEF DependenciesInstalled, install_dependencies, At
  <2>2. UNCHANGED <<xkb, nativeInit, compositor, keyboard>>
    BY <1>9 DEF DependenciesInstalled, install_dependencies, SetupFrame
  <2>3. CASE NextStage
    BY <1>6, <1>7, <2>1, <2>2, <2>3
  <2>4. CASE setup' = "install" /\ UNCHANGED <<stage, setup_done>>
    BY <1>7, <2>1, <2>2, <2>4
  <2> QED  BY <1>9, <2>3, <2>4 DEF DependenciesInstalled, install_dependencies, Goto
<1>10. CASE InstallSucceeds \/ InstallFails
  <2>1. /\ setup = "install" /\ stage = 5 /\ InStages /\ xkb # "removed"
        /\ UNCHANGED <<nativeInit, compositor, keyboard>>
    BY <1>7, <1>10 DEF InstallSucceeds, InstallFails, SetupFrame
  <2>2. xkb' # "removed"
    BY <1>10, <2>1 DEF InstallSucceeds, InstallFails, MaybeLinked
  <2>3. \/ setup' = "install" /\ stage' = stage /\ setup_done' = setup_done
        \/ NextStage
    BY <1>10, <2>1 DEF InstallSucceeds, InstallFails
  <2> QED  BY <1>7, <2>1, <2>2, <2>3, StageCount DEF NextStage
<1>11. CASE XkbStage \/ RelinkStage
  <2>1. InStages /\ stage = 12 /\ UNCHANGED <<nativeInit, compositor, keyboard>>
    BY <1>11, StageNumbers DEF XkbStage, RelinkStage, At, Goto, SetupFrame
  <2>2. \/ setup' = "relink" /\ xkb' = "removed" /\ stage' = stage /\ setup_done' = setup_done
        \/ xkb' \notin {"absolute", "removed"} /\ NextStage
    <3>1. CASE XkbStage
      BY <1>7, <2>1, <3>1 DEF XkbStage, At, Goto
    <3>2. CASE RelinkStage
      BY <3>2 DEF RelinkStage
    <3> QED  BY <1>11, <3>1, <3>2
  <2> QED  BY <1>7, <2>1, <2>2, StageCount DEF NextStage
<1>12. CASE CompositorFails \/ prepare_socket_path \/ bind_socket
  BY <1>12 DEF CompositorFails, prepare_socket_path, bind_socket, CompositorFrame
<1>13. CASE run_compositor_loop
  <2>1. setup = "off" /\ nativeInit = "idle" /\ xkb \notin {"absolute", "removed"}
    BY <1>7, <1>13 DEF run_compositor_loop
  <2>2. xkb \in {"none", "relative", "lost"}
    BY <2>1 DEF Links
  <2> QED  BY <1>13, <2>1, <2>2 DEF run_compositor_loop, CompositorFrame
<1>14. CASE DaemonUp \/ DaemonExits \/ Connects
  BY <1>14 DEF DaemonUp, DaemonExits, Connects, Refused, Connect, ServiceFrame, vars
<1> QED
  BY <1>1, <1>2, <1>3, <1>4, <1>5, <1>8, <1>9, <1>10, <1>11, <1>12, <1>13, <1>14
  DEF Next, NativeInit, run_setup, Compositor

LEMMA ProbedNext ==
  ASSUME Inv, Next
  PROVE  Probed'
<1> USE DEF Inv, diskVars, appVars, setupVars, threadVars, serviceVars, Probed, InOrder,
            ThreadsAreFresh
<1>1. CASE onCreate \/ RestoreMain \/ RemoveTask \/ TogglePipewire \/ ProcessDeath
  BY <1>1 DEF onCreate, RestoreMain, RemoveTask, TogglePipewire, ProcessDeath
<1>2. CASE BuildContextFails \/ fix_xkb_symlink \/ Relink
  BY <1>2 DEF BuildContextFails, fix_xkb_symlink, Relink
<1>3. CASE CheckSetup
  <2>1. setup' \in {"off", "probe"} /\ UNCHANGED <<device, no_seccomp>>
    BY <1>3 DEF CheckSetup
  <2>2. setup_done' => is_setup_complete
    BY <1>3 DEF CheckSetup
  <2>3. "Dependencies" \in applied' => "Dependencies" \in applied
    BY <1>3 DEF CheckSetup, Repaired, AtEveryStart
  <2> QED  BY <2>1, <2>2, <2>3 DEF is_setup_complete, check_cmd, proot_works
<1>4. CASE Supported \/ Unsupported
  BY <1>4 DEF Supported, Unsupported, SetupFrame
<1>5. CASE setup_arch_fs
  BY <1>5 DEF setup_arch_fs, SkipArchFs, UseArchive, StartDownload, Download, Extract, Unpack,
              Replace, Rename, Cleanup, Goto, SetupFrame
<1>6. CASE ApplyStage \/ fix_ttyname \/ setup_pipewire_config
  <2>1. "Dependencies" \in applied' => "Dependencies" \in applied
    <3>1. ASSUME NEW name, name # "Dependencies", applied' \in {applied, Applying(name)}
          PROVE  "Dependencies" \in applied' => "Dependencies" \in applied
      BY <3>1 DEF Applying
    <3>2. CASE ApplyStage
      BY <3>1, <3>2 DEF ApplyStage, OrdinaryStages
    <3>3. CASE fix_ttyname \/ setup_pipewire_config
      BY <3>1, <3>3 DEF fix_ttyname, setup_pipewire_config
    <3> QED  BY <1>6, <3>2, <3>3
  <2> QED  BY <1>6, <2>1 DEF ApplyStage, fix_ttyname, setup_pipewire_config, NextStage, At, SetupFrame
<1>7. CASE DependenciesInstalled \/ install_dependencies \/ InstallSucceeds \/ InstallFails
  <2>1. CASE InstallSucceeds
    BY <2>1 DEF InstallSucceeds, CanInstall, proot_works, NextStage, SetupFrame
  <2>2. CASE DependenciesInstalled \/ install_dependencies \/ InstallFails
    BY <2>2 DEF DependenciesInstalled, install_dependencies, InstallFails, NextStage, At, Goto,
                SetupFrame
  <2> QED  BY <1>7, <2>1, <2>2
<1>8. CASE XkbStage \/ RelinkStage
  BY <1>8 DEF XkbStage, RelinkStage, Applying, NextStage, At, Goto, SetupFrame
<1>9. CASE Compositor
  BY <1>9 DEF Compositor, CompositorFails, prepare_socket_path, bind_socket,
              run_compositor_loop, CompositorFrame
<1>10. CASE DaemonUp \/ DaemonExits \/ Connects
  BY <1>10 DEF DaemonUp, DaemonExits, Connects, Refused, Connect, ServiceFrame, vars
<1> QED
  BY <1>1, <1>2, <1>3, <1>4, <1>5, <1>6, <1>7, <1>8, <1>9, <1>10
  DEF Next, NativeInit, run_setup

LEMMA InOrderNext ==
  ASSUME Inv, Next
  PROVE  InOrder'
<1> USE DEF Inv, diskVars, appVars, setupVars, threadVars, serviceVars, InOrder,
            ThreadsAreFresh, Recovers, Works, GivesUp
<1>1. CASE onCreate \/ RestoreMain \/ RemoveTask \/ TogglePipewire \/ ProcessDeath
  BY <1>1 DEF onCreate, RestoreMain, RemoveTask, TogglePipewire, ProcessDeath
<1>2. CASE BuildContextFails \/ fix_xkb_symlink \/ Relink
  BY <1>2 DEF BuildContextFails, fix_xkb_symlink, Relink
<1>3. CASE CheckSetup
  <2>1. /\ nativeInit = "check" /\ nativeInit' = "idle" /\ compositor' = "prepare"
        /\ INITIALIZED' = INITIALIZED
        /\ setup_done' => setup' = "off"
    BY <1>3 DEF CheckSetup
  <2> QED  BY <2>1
<1>4. CASE Supported \/ Unsupported
  BY <1>4 DEF Supported, Unsupported, SetupFrame
<1>5. CASE setup_arch_fs
  BY <1>5 DEF setup_arch_fs, SkipArchFs, UseArchive, StartDownload, Download, Extract, Unpack,
              Replace, Rename, Cleanup, Goto, SetupFrame
<1>6. CASE ApplyStage \/ fix_ttyname \/ setup_pipewire_config
  BY <1>6 DEF ApplyStage, fix_ttyname, setup_pipewire_config, NextStage, At, SetupFrame
<1>7. CASE DependenciesInstalled \/ install_dependencies \/ InstallSucceeds \/ InstallFails
  BY <1>7 DEF DependenciesInstalled, install_dependencies, InstallSucceeds, InstallFails,
              NextStage, At, Goto, SetupFrame
<1>8. CASE XkbStage \/ RelinkStage
  BY <1>8 DEF XkbStage, RelinkStage, NextStage, At, Goto, SetupFrame
<1>9. CASE Compositor
  BY <1>9 DEF Compositor, CompositorFails, prepare_socket_path, bind_socket,
              run_compositor_loop, CompositorFrame
<1>10. CASE DaemonUp \/ DaemonExits \/ Connects
  BY <1>10 DEF DaemonUp, DaemonExits, Connects, Refused, Connect, ServiceFrame, vars
<1> QED
  BY <1>1, <1>2, <1>3, <1>4, <1>5, <1>6, <1>7, <1>8, <1>9, <1>10
  DEF Next, NativeInit, run_setup

LEMMA ProgressNext ==
  ASSUME Inv, Next
  PROVE  Progress'
<1> USE Types DEF Inv, Works, Recovers, GivesUp, diskVars, appVars, setupVars, threadVars,
              serviceVars, InOrder, ThreadsAreFresh
<1> DEFINE Complete == /\ root = "full" /\ {"Dependencies", "User config", "Bsdtar wrapper"} \subseteq applied
                       /\ device.commands
                       /\ device.probe = "no_seccomp" => no_seccomp = "yes"
<1>1. (is_setup_complete <=> Complete) /\ (Complete' => is_setup_complete')
  BY DEF is_setup_complete, check_cmd, proot_works, usr_bin
<1>2. Progress' <=>
        /\ InStages' /\ ~trouble' =>
             /\ root' = "full"
             /\ stage' > 5 => "Dependencies" \in applied'
             /\ stage' > 6 => "User config" \in applied'
             /\ stage' > 9 => "Bsdtar wrapper" \in applied'
        /\ setup_done' /\ ~trouble' /\ device'.probe # "unsupported" => is_setup_complete'
  BY DEF Progress
<1> HIDE DEF Complete
<1>3. ASSUME UNCHANGED <<setup, stage, setup_done, device, no_seccomp, trouble>>,
             applied \subseteq applied', root = "full" => root' = "full"
      PROVE  Progress'
  <2>1. Complete => Complete'
    BY <1>3 DEF Complete
  <2> QED  BY <1>1, <1>2, <1>3, <2>1 DEF Progress, InStages
<1>4. ASSUME ~InStages', setup_done' = setup_done \/ device'.probe = "unsupported", setup # "off",
             setup \in {"probe", "fetch", "download", "extract", "unpack", "replace", "rename"}
      PROVE  Progress'
  BY <1>2, <1>4
<1>5. CASE onCreate \/ RestoreMain \/ RemoveTask \/ TogglePipewire
  BY <1>3, <1>5 DEF onCreate, RestoreMain, RemoveTask, TogglePipewire
<1>6. CASE ProcessDeath
  BY <1>2, <1>6 DEF ProcessDeath, InStages
<1>7. CASE BuildContextFails \/ fix_xkb_symlink \/ Relink
  BY <1>3, <1>7 DEF BuildContextFails, fix_xkb_symlink, Relink
<1>8. CASE CheckSetup
  <2>1. /\ setup' \in {"off", "probe"} /\ setup_done' = is_setup_complete
        /\ applied \subseteq applied' /\ UNCHANGED <<device, no_seccomp>>
        /\ root = "full" => root' = "full"
    BY <1>8 DEF CheckSetup, Repaired
  <2>2. Complete => Complete'
    BY <2>1 DEF Complete
  <2> QED  BY <1>1, <1>2, <2>1, <2>2 DEF InStages
<1>9. CASE Supported \/ Unsupported
  BY <1>4, <1>9 DEF Supported, Unsupported, SetupFrame, InStages
<1>10. CASE UseArchive \/ Download \/ Unpack \/ Replace
  BY <1>4, <1>10 DEF UseArchive, Download, Unpack, Replace, Goto, InStages
<1>11. CASE SkipArchFs \/ StartDownload \/ Extract \/ Rename \/ Cleanup
  <2>1. setup \in {"fetch", "extract", "rename", "cleanup"} /\ setup_done' = setup_done
    BY <1>11 DEF SkipArchFs, StartDownload, Extract, Rename, Cleanup, Goto
  <2>2. InStages' /\ ~trouble' => stage' = 1 /\ root' = "full"
    BY <1>11 DEF SkipArchFs, StartDownload, Extract, Rename, Cleanup, Goto, ArchPresent, usr_bin,
                 Unpacked, InStages
  <2>3. ~setup_done'
    BY <2>1
  <2>4. stage' = 1 => ~(stage' > 5) /\ ~(stage' > 6) /\ ~(stage' > 9)
    OBVIOUS
  <2> QED  BY <1>2, <2>2, <2>3, <2>4
<1>12. ASSUME InStages, NextStage, UNCHANGED <<root, device>>, applied \subseteq applied',
              ~trouble' =>
                /\ ~trouble
                /\ stage = 5 => "Dependencies" \in applied'
                /\ stage = 6 => "User config" \in applied'
                /\ stage = 9 => "Bsdtar wrapper" \in applied'
       PROVE  Progress'
  <2>1. setup # "off" /\ ~setup_done
    BY <1>12 DEF InStages
  <2>2. CASE stage < 19
    <3>1. stage' = stage + 1 /\ ~setup_done'
      BY <1>12, <2>1, <2>2, StageCount DEF NextStage
    <3>2. /\ stage' > 5 => stage = 5 \/ stage > 5
          /\ stage' > 6 => stage = 6 \/ stage > 6
          /\ stage' > 9 => stage = 9 \/ stage > 9
      BY <3>1
    <3>3. ~trouble' =>
            /\ root = "full"
            /\ stage > 5 => "Dependencies" \in applied
            /\ stage > 6 => "User config" \in applied
            /\ stage > 9 => "Bsdtar wrapper" \in applied
      BY <1>12 DEF Progress
    <3> QED  BY <1>2, <1>12, <3>1, <3>2, <3>3
  <2>3. CASE stage = 19
    <3>1. setup' = "off" /\ no_seccomp' = no_seccomp
      BY <1>12, <2>3, StageCount DEF NextStage
    <3>2. ASSUME ~trouble', device.probe # "unsupported"  PROVE Complete'
      <4>1. /\ root = "full"
            /\ "Dependencies" \in applied /\ "User config" \in applied
            /\ "Bsdtar wrapper" \in applied
        <5>1. InStages /\ ~trouble /\ stage > 5 /\ stage > 6 /\ stage > 9
          BY <1>12, <2>3, <3>2
        <5> QED  BY <5>1 DEF Progress
      <4>2. device.commands /\ (device.probe = "no_seccomp" => no_seccomp = "yes")
        BY <1>12, <3>2, <4>1 DEF Progress, Probed, InStages
      <4> QED  BY <1>12, <3>1, <4>1, <4>2 DEF Complete
    <3> QED  BY <1>1, <1>2, <1>12, <3>1, <3>2 DEF InStages
  <2> QED  BY <2>2, <2>3
<1>13. CASE ApplyStage
  <2>1. PICK name \in OrdinaryStages :
          /\ At(name)
          /\ \/ applied' = Applying(name) /\ trouble' = trouble
             \/ applied' = applied /\ trouble'
    BY <1>13 DEF ApplyStage
  <2>2. InStages /\ NextStage /\ UNCHANGED <<root, device>> /\ applied \subseteq applied'
    BY <1>13, <2>1 DEF ApplyStage, At, InStages, SetupFrame, Applying
  <2>3. ~trouble' => /\ ~trouble
                     /\ Stages[stage] # "Machine ID" => Stages[stage] \in applied'
    BY <2>1, <2>2 DEF At, Applying, usr_bin, Progress
  <2>4. stage # 5
    BY <2>1, StageNumbers DEF At, OrdinaryStages
  <2>5. /\ stage = 6 => Stages[stage] = "User config"
        /\ stage = 9 => Stages[stage] = "Bsdtar wrapper"
    BY StageNumbers
  <2> QED  BY <1>12, <2>2, <2>3, <2>4, <2>5
<1>14. CASE fix_ttyname \/ setup_pipewire_config
  <2>1. /\ InStages /\ NextStage /\ UNCHANGED <<root, device>> /\ applied \subseteq applied'
        /\ ~trouble' => ~trouble
    <3>1. CASE fix_ttyname
      BY <3>1 DEF fix_ttyname, At, InStages, SetupFrame, Applying
    <3>2. CASE setup_pipewire_config
      <4>1. InStages /\ NextStage /\ UNCHANGED <<root, device>>
        BY <3>2 DEF setup_pipewire_config, At, InStages, SetupFrame
      <4>2. applied \subseteq applied' /\ (trouble' = trouble \/ trouble' = TRUE)
        BY <3>2 DEF setup_pipewire_config, Applying
      <4> QED  BY <4>1, <4>2
    <3> QED  BY <1>14, <3>1, <3>2
  <2>2. stage # 5 /\ stage # 6 /\ stage # 9
    BY <1>14, StageNumbers DEF fix_ttyname, setup_pipewire_config, At
  <2> QED  BY <1>12, <2>1, <2>2
<1>15. CASE DependenciesInstalled
  <2>1. stage = 5
    BY <1>15, StageNumbers DEF DependenciesInstalled, At
  <2> QED  BY <1>12, <1>15, <2>1 DEF DependenciesInstalled, At, InStages, SetupFrame, check_cmd
<1>16. CASE install_dependencies
  BY <1>2, <1>16 DEF install_dependencies, At, InStages, Goto, SetupFrame, Progress
<1>17. CASE InstallSucceeds
  <2>1. stage = 5
    BY <1>17 DEF InstallSucceeds, Linked
  <2> QED  BY <1>12, <1>17, <2>1 DEF InstallSucceeds, InStages, SetupFrame
<1>18. CASE InstallFails
  <2>1. CASE AttemptsLeft /\ UNCHANGED <<no_seccomp, setup, stage, setup_done, trouble>>
    BY <1>3, <1>18, <2>1 DEF InstallFails, SetupFrame
  <2>2. CASE trouble' /\ NextStage
    BY <1>12, <1>18, <2>2 DEF InstallFails, InStages, SetupFrame
  <2> QED  BY <1>18, <2>1, <2>2 DEF InstallFails
<1>19. CASE XkbStage \/ RelinkStage
  <2>1. InStages /\ stage = 12
    BY <1>19, StageNumbers DEF XkbStage, RelinkStage, At, InStages, Linked
  <2>2. UNCHANGED <<root, device>> /\ (~trouble' => ~trouble)
    <3>1. CASE XkbStage
      BY <3>1 DEF XkbStage, SetupFrame
    <3>2. CASE RelinkStage
      <4>1. UNCHANGED <<root, device>>
        BY <3>2 DEF RelinkStage, SetupFrame
      <4>2. trouble' = trouble \/ trouble' = TRUE
        BY <3>2 DEF RelinkStage
      <4> QED  BY <4>1, <4>2
    <3> QED  BY <1>19, <3>1, <3>2
  <2>3. applied \subseteq applied'
    BY <1>19 DEF XkbStage, RelinkStage, Applying
  <2>4. CASE NextStage
    BY <1>12, <2>1, <2>2, <2>3, <2>4
  <2>5. CASE setup' = "relink" /\ UNCHANGED <<stage, setup_done>>
    BY <1>2, <2>1, <2>2, <2>3, <2>5 DEF InStages, Progress
  <2> QED  BY <1>19, <2>4, <2>5 DEF XkbStage, RelinkStage, Goto
<1>20. CASE Compositor
  BY <1>3, <1>20 DEF Compositor, CompositorFails, prepare_socket_path, bind_socket,
                     run_compositor_loop, CompositorFrame
<1>21. CASE DaemonUp \/ DaemonExits \/ Connects
  BY <1>3, <1>21 DEF DaemonUp, DaemonExits, Connects, Refused, Connect, ServiceFrame, vars
<1> QED
  BY <1>5, <1>6, <1>7, <1>8, <1>9, <1>10, <1>11, <1>13, <1>14, <1>15, <1>16, <1>17, <1>18,
     <1>19, <1>20, <1>21
  DEF Next, NativeInit, run_setup, setup_arch_fs

LEMMA NamesOfStages ==
  /\ AtEveryStart \cup {"Dependencies", "XKB symlink", "Ttyname fix", "PipeWire config"}
       \subseteq StageNames
  /\ OrdinaryStages \subseteq StageNames
<1>1. /\ Stages[5] = "Dependencies" /\ Stages[7] = "Bwrap shim"
      /\ Stages[8] = "Flatpak-spawn shim" /\ Stages[10] = "Firefox config"
      /\ Stages[11] = "Electron config" /\ Stages[12] = "XKB symlink"
      /\ Stages[13] = "Ttyname fix" /\ Stages[15] = "PipeWire config"
      /\ Stages[16] = "D-Bus config" /\ Stages[18] = "XDG portal"
      /\ Stages[19] = "Hybris Vulkan"
  BY DEF Stages
<1>2. /\ Stages[5] \in StageNames /\ Stages[7] \in StageNames /\ Stages[8] \in StageNames
      /\ Stages[10] \in StageNames /\ Stages[11] \in StageNames /\ Stages[12] \in StageNames
      /\ Stages[13] \in StageNames /\ Stages[15] \in StageNames /\ Stages[16] \in StageNames
      /\ Stages[18] \in StageNames /\ Stages[19] \in StageNames
  BY StageCount
<1>3. AtEveryStart \subseteq StageNames
  BY <1>1, <1>2 DEF AtEveryStart
<1>4. {"Dependencies", "XKB symlink", "Ttyname fix", "PipeWire config"} \subseteq StageNames
  BY <1>1, <1>2
<1> QED  BY <1>3, <1>4 DEF OrdinaryStages

(* The types by their kind. *)
PlacesOK ==
  /\ archive \in {"none", "partial", "full"}
  /\ extracted \in {"none", "partial", "full"}
  /\ root \in {"none", "stub", "partial", "full"}
  /\ xkb \in Links
  /\ socket \in {"none", "stale", "bound"}
  /\ device \in Devices
  /\ main \in {"none", "created", "saved"}
  /\ nativeInit \in {"idle", "fix", "relink", "check"}
  /\ no_seccomp \in {"unset", "yes", "no"}
  /\ setup \in {"off", "probe", "fetch", "download", "extract", "unpack", "replace",
                "rename", "cleanup", "stages", "install", "relink"}
  /\ compositor \in {"off", "prepare", "bind", "wait", "run", "failed"}
  /\ pipewire_0 \in {"none", "stale", "bound"}
  /\ daemon \in {"off", "starting", "up"}

FlagsOK ==
  /\ pipewire \in BOOLEAN
  /\ alive \in BOOLEAN
  /\ INITIALIZED \in BOOLEAN
  /\ setup_done \in BOOLEAN
  /\ keyboard \in BOOLEAN
  /\ trouble \in BOOLEAN

CountersOK ==
  /\ stage \in 1 .. 19
  /\ attempt \in 0 .. MAX_INSTALL_ATTEMPTS
  /\ faults \in 0 .. MaxFaults

SetsOK ==
  /\ applied \subseteq StageNames
  /\ sinks \in [Sinks -> {"off", "connecting", "connected", "hung", "failed"}]

LEMMA TypeParts == TypeOK <=> PlacesOK /\ FlagsOK /\ CountersOK /\ SetsOK
<1>1. 1 .. Len(Stages) = 1 .. 19
  BY StageCount
<1> QED  BY <1>1 DEF TypeOK, PlacesOK, FlagsOK, CountersOK, SetsOK

LEMMA PlacesOKNext ==
  ASSUME PlacesOK, Unpacked, Next
  PROVE  PlacesOK'
<1> USE DEF PlacesOK, Links, Works, Recovers, GivesUp, diskVars, appVars, setupVars, threadVars, serviceVars
<1>1. CASE onCreate \/ RestoreMain \/ RemoveTask \/ TogglePipewire
  BY <1>1 DEF onCreate, RestoreMain, RemoveTask, TogglePipewire
<1>2. CASE ProcessDeath
  BY <1>2 DEF ProcessDeath
<1>3. CASE BuildContextFails \/ fix_xkb_symlink \/ Relink
  BY <1>3 DEF BuildContextFails, fix_xkb_symlink, NextOfFix, Relink
<1>4. CASE CheckSetup
  BY <1>4 DEF CheckSetup
<1>5. CASE Supported \/ Unsupported
  BY <1>5 DEF Supported, Unsupported, SetupFrame
<1>6. CASE SkipArchFs \/ UseArchive \/ StartDownload \/ Download
  BY <1>6 DEF SkipArchFs, UseArchive, StartDownload, Download, Goto, SetupFrame
<1>7. CASE Extract \/ Unpack
  BY <1>7 DEF Extract, Unpack, Goto, SetupFrame
<1>8. CASE Replace
  BY <1>8 DEF Replace, Goto
<1>9. CASE Rename \/ Cleanup
  BY <1>9 DEF Rename, Cleanup, Goto, SetupFrame, Unpacked
<1>10. ASSUME NextStage
       PROVE  no_seccomp' = no_seccomp /\ setup' \in {"stages", "off"}
  BY <1>10 DEF NextStage
<1>12. CASE ApplyStage
  BY <1>10, <1>12 DEF ApplyStage, SetupFrame
<1>13. CASE fix_ttyname \/ setup_pipewire_config
  BY <1>10, <1>13 DEF fix_ttyname, setup_pipewire_config, SetupFrame
<1>14. CASE DependenciesInstalled \/ install_dependencies
  BY <1>10, <1>14 DEF DependenciesInstalled, install_dependencies, Goto, SetupFrame
<1>15. CASE InstallSucceeds
  BY <1>10, <1>15 DEF InstallSucceeds, SetupFrame
<1>16. CASE InstallFails
  BY <1>10, <1>16 DEF InstallFails, AttemptsLeft, MaybeLinked, SetupFrame
<1>17. CASE XkbStage \/ RelinkStage
  BY <1>10, <1>17 DEF XkbStage, RelinkStage, Goto, SetupFrame
<1>18. CASE Compositor
  BY <1>18 DEF Compositor, CompositorFails, prepare_socket_path, bind_socket,
               run_compositor_loop, start_pipewire, CompositorFrame
<1>19. CASE DaemonUp \/ DaemonExits
  BY <1>19 DEF DaemonUp, DaemonExits, ServiceFrame
<1>20. CASE Connects
  BY <1>20 DEF Connects, Refused, Connect, ServiceFrame, vars
<1> QED
  BY <1>1, <1>2, <1>3, <1>4, <1>5, <1>6, <1>7, <1>8, <1>9, <1>12, <1>13, <1>14, <1>15, <1>16,
     <1>17, <1>18, <1>19, <1>20
  DEF Next, NativeInit, run_setup, setup_arch_fs

LEMMA FlagsOKNext ==
  ASSUME FlagsOK, Next
  PROVE  FlagsOK'
<1> USE DEF FlagsOK, Works, Recovers, GivesUp, diskVars, appVars, setupVars, threadVars, serviceVars
<1>1. CASE onCreate \/ RestoreMain \/ RemoveTask \/ TogglePipewire
  BY <1>1 DEF onCreate, RestoreMain, RemoveTask, TogglePipewire
<1>2. CASE ProcessDeath
  BY <1>2 DEF ProcessDeath
<1>3. CASE BuildContextFails \/ fix_xkb_symlink \/ Relink
  BY <1>3 DEF BuildContextFails, fix_xkb_symlink, NextOfFix, Relink
<1>4. CASE CheckSetup
  <2>1. is_setup_complete \in BOOLEAN
    BY DEF is_setup_complete
  <2> QED  BY <1>4, <2>1 DEF CheckSetup
<1>5. CASE Supported \/ Unsupported
  BY <1>5 DEF Supported, Unsupported, SetupFrame
<1>6. CASE SkipArchFs \/ UseArchive \/ StartDownload \/ Download
  BY <1>6 DEF SkipArchFs, UseArchive, StartDownload, Download, Goto, SetupFrame
<1>7. CASE Extract \/ Unpack
  BY <1>7 DEF Extract, Unpack, Goto, SetupFrame
<1>8. CASE Replace
  BY <1>8 DEF Replace, Goto
<1>9. CASE Rename \/ Cleanup
  BY <1>9 DEF Rename, Cleanup, Goto, SetupFrame
<1>10. ASSUME NextStage
       PROVE  setup_done' \in BOOLEAN
  BY <1>10 DEF NextStage
<1>12. CASE ApplyStage
  BY <1>10, <1>12 DEF ApplyStage, SetupFrame
<1>13. CASE fix_ttyname \/ setup_pipewire_config
  BY <1>10, <1>13 DEF fix_ttyname, setup_pipewire_config, SetupFrame
<1>14. CASE DependenciesInstalled \/ install_dependencies
  BY <1>10, <1>14 DEF DependenciesInstalled, install_dependencies, Goto, SetupFrame
<1>15. CASE InstallSucceeds
  BY <1>10, <1>15 DEF InstallSucceeds, SetupFrame
<1>16. CASE InstallFails
  BY <1>10, <1>16 DEF InstallFails, AttemptsLeft, MaybeLinked, SetupFrame
<1>17. CASE XkbStage \/ RelinkStage
  BY <1>10, <1>17 DEF XkbStage, RelinkStage, Goto, SetupFrame
<1>18. CASE Compositor
  BY <1>18 DEF Compositor, CompositorFails, prepare_socket_path, bind_socket,
               run_compositor_loop, start_pipewire, CompositorFrame
<1>19. CASE DaemonUp \/ DaemonExits
  BY <1>19 DEF DaemonUp, DaemonExits, ServiceFrame
<1>20. CASE Connects
  BY <1>20 DEF Connects, Refused, Connect, ServiceFrame, vars
<1> QED
  BY <1>1, <1>2, <1>3, <1>4, <1>5, <1>6, <1>7, <1>8, <1>9, <1>12, <1>13, <1>14, <1>15, <1>16,
     <1>17, <1>18, <1>19, <1>20
  DEF Next, NativeInit, run_setup, setup_arch_fs

LEMMA CountersOKNext ==
  ASSUME CountersOK, Next
  PROVE  CountersOK'
<1> USE DEF CountersOK, diskVars, appVars, setupVars, threadVars, serviceVars
<1>0. /\ MAX_INSTALL_ATTEMPTS \in Nat /\ MAX_INSTALL_ATTEMPTS > 0 /\ MaxFaults \in Nat
      /\ Fault => faults' \in 0 .. MaxFaults
      /\ Recovers \/ GivesUp => Fault
      /\ Works => faults' = faults
  BY AttemptsAssumption, FaultsAssumption DEF Fault, Recovers, GivesUp, Works
<1>1. CASE onCreate \/ RestoreMain \/ RemoveTask \/ TogglePipewire
  BY <1>0, <1>1 DEF onCreate, RestoreMain, RemoveTask, TogglePipewire
<1>2. CASE ProcessDeath
  BY <1>0, <1>2 DEF ProcessDeath
<1>3. CASE BuildContextFails \/ fix_xkb_symlink \/ Relink
  BY <1>0, <1>3 DEF BuildContextFails, fix_xkb_symlink, NextOfFix, Relink
<1>4. CASE CheckSetup
  BY <1>0, <1>4 DEF CheckSetup
<1>5. CASE Supported \/ Unsupported
  BY <1>0, <1>5 DEF Supported, Unsupported, SetupFrame
<1>6. CASE SkipArchFs \/ UseArchive \/ StartDownload \/ Download
  BY <1>0, <1>6 DEF SkipArchFs, UseArchive, StartDownload, Download, Goto, SetupFrame
<1>7. CASE Extract \/ Unpack
  BY <1>0, <1>7 DEF Extract, Unpack, Goto, SetupFrame
<1>8. CASE Replace
  BY <1>0, <1>8 DEF Replace, Goto
<1>9. CASE Rename \/ Cleanup
  BY <1>0, <1>9 DEF Rename, Cleanup, Goto, SetupFrame
<1>10. ASSUME NextStage
       PROVE  stage' \in 1 .. 19
  BY <1>0, <1>10, StageCount DEF NextStage
<1>12. CASE ApplyStage
  BY <1>0, <1>10, <1>12 DEF ApplyStage, SetupFrame
<1>13. CASE fix_ttyname \/ setup_pipewire_config
  BY <1>0, <1>10, <1>13 DEF fix_ttyname, setup_pipewire_config, SetupFrame
<1>14. CASE DependenciesInstalled \/ install_dependencies
  BY <1>0, <1>10, <1>14 DEF DependenciesInstalled, install_dependencies, Goto, SetupFrame
<1>15. CASE InstallSucceeds
  BY <1>0, <1>10, <1>15 DEF InstallSucceeds, SetupFrame
<1>16. CASE InstallFails
  BY <1>0, <1>10, <1>16 DEF InstallFails, AttemptsLeft, MaybeLinked, SetupFrame
<1>17. CASE XkbStage \/ RelinkStage
  BY <1>0, <1>10, <1>17 DEF XkbStage, RelinkStage, Goto, SetupFrame
<1>18. CASE Compositor
  BY <1>0, <1>18 DEF Compositor, CompositorFails, prepare_socket_path, bind_socket,
               run_compositor_loop, start_pipewire, CompositorFrame
<1>19. CASE DaemonUp \/ DaemonExits
  BY <1>0, <1>19 DEF DaemonUp, DaemonExits, ServiceFrame
<1>20. CASE Connects
  BY <1>0, <1>20 DEF Connects, Refused, Connect, ServiceFrame, vars
<1> QED
  BY <1>0, <1>1, <1>2, <1>3, <1>4, <1>5, <1>6, <1>7, <1>8, <1>9, <1>12, <1>13, <1>14, <1>15, <1>16,
     <1>17, <1>18, <1>19, <1>20
  DEF Next, NativeInit, run_setup, setup_arch_fs

LEMMA SetsOKNext ==
  ASSUME SetsOK, Next
  PROVE  SetsOK'
<1> USE NamesOfStages DEF SetsOK, diskVars, appVars, setupVars, threadVars, serviceVars
<1>1. CASE onCreate \/ RestoreMain \/ RemoveTask \/ TogglePipewire
  BY <1>1 DEF onCreate, RestoreMain, RemoveTask, TogglePipewire
<1>2. CASE ProcessDeath
  BY <1>2 DEF ProcessDeath
<1>3. CASE BuildContextFails \/ fix_xkb_symlink \/ Relink
  BY <1>3 DEF BuildContextFails, fix_xkb_symlink, NextOfFix, Relink
<1>4. CASE CheckSetup
  <2>1. Repaired \subseteq StageNames
    BY DEF Repaired
  <2> QED  BY <1>4, <2>1 DEF CheckSetup
<1>5. CASE Supported \/ Unsupported
  BY <1>5 DEF Supported, Unsupported, SetupFrame
<1>6. CASE SkipArchFs \/ UseArchive \/ StartDownload \/ Download
  BY <1>6 DEF SkipArchFs, UseArchive, StartDownload, Download, Goto, SetupFrame
<1>7. CASE Extract \/ Unpack
  BY <1>7 DEF Extract, Unpack, Goto, SetupFrame
<1>8. CASE Replace
  BY <1>8 DEF Replace, Goto
<1>9. CASE Rename \/ Cleanup
  BY <1>9 DEF Rename, Cleanup, Goto, SetupFrame
<1>11. \A name \in StageNames : Applying(name) \subseteq StageNames
  BY DEF Applying
<1>12. CASE ApplyStage
  BY <1>12, <1>11 DEF ApplyStage, SetupFrame
<1>13. CASE fix_ttyname \/ setup_pipewire_config
  BY <1>13, <1>11 DEF fix_ttyname, setup_pipewire_config, SetupFrame
<1>14. CASE DependenciesInstalled \/ install_dependencies
  BY <1>14 DEF DependenciesInstalled, install_dependencies, Goto, SetupFrame
<1>15. CASE InstallSucceeds
  BY <1>15 DEF InstallSucceeds, SetupFrame
<1>16. CASE InstallFails
  BY <1>16 DEF InstallFails, AttemptsLeft, MaybeLinked, SetupFrame
<1>17. CASE XkbStage \/ RelinkStage
  BY <1>17, <1>11 DEF XkbStage, RelinkStage, Goto, SetupFrame
<1>18. CASE Compositor
  BY <1>18 DEF Compositor, CompositorFails, prepare_socket_path, bind_socket,
               run_compositor_loop, start_pipewire, CompositorFrame
<1>19. CASE DaemonUp \/ DaemonExits
  BY <1>19 DEF DaemonUp, DaemonExits, ServiceFrame
<1>20. CASE Connects
  BY <1>20 DEF Connects, Refused, Connect, ServiceFrame, vars
<1> QED
  BY <1>1, <1>2, <1>3, <1>4, <1>5, <1>6, <1>7, <1>8, <1>9, <1>12, <1>13, <1>14, <1>15, <1>16,
     <1>17, <1>18, <1>19, <1>20
  DEF Next, NativeInit, run_setup, setup_arch_fs

LEMMA TypeNext ==
  ASSUME Inv, Next
  PROVE  TypeOK'
<1>1. PlacesOK /\ FlagsOK /\ CountersOK /\ SetsOK /\ Unpacked
  BY TypeParts DEF Inv
<1>2. PlacesOK' /\ FlagsOK' /\ CountersOK' /\ SetsOK'
  BY <1>1, PlacesOKNext, FlagsOKNext, CountersOKNext, SetsOKNext
<1>3. TypeOK' <=> (PlacesOK /\ FlagsOK /\ CountersOK /\ SetsOK)'
  BY TypeParts, PTL
<1> QED  BY <1>2, <1>3

-----------------------------------------------------------------------------
(* The invariant holds.                                                    *)

LEMMA InitInv == Init => Inv
<1> SUFFICES ASSUME Init  PROVE Inv
  OBVIOUS
<1>1. TypeOK
  <2>1. PlacesOK /\ FlagsOK /\ SetsOK
    BY DEF Init, PlacesOK, FlagsOK, SetsOK, Links
  <2>2. CountersOK
    BY AttemptsAssumption, FaultsAssumption DEF Init, CountersOK
  <2> QED  BY <2>1, <2>2, TypeParts
<1>2. InOrder /\ Unpacked /\ Linked /\ Probed /\ Progress
  BY DEF Init, InOrder, ThreadsAreFresh, Unpacked, Linked, InStages, Probed, Progress
<1> QED  BY <1>1, <1>2 DEF Inv

LEMMA StepInv == Inv /\ [Next]_vars => Inv'
<1> SUFFICES ASSUME Inv, [Next]_vars  PROVE Inv'
  OBVIOUS
<1>1. CASE Next
  BY <1>1, TypeNext, InOrderNext, UnpackedNext, LinkedNext, ProbedNext, ProgressNext DEF Inv
<1>2. CASE UNCHANGED vars
  <2> USE <1>2 DEF vars, diskVars, appVars, setupVars, threadVars, serviceVars, Inv
  <2>1. TypeOK'
    BY DEF TypeOK
  <2>2. InOrder' /\ Unpacked'
    BY DEF InOrder, ThreadsAreFresh, Unpacked
  <2>3. Linked' /\ Probed'
    BY DEF Linked, InStages, Probed
  <2>4. Progress'
    BY DEF Progress, InStages, is_setup_complete, check_cmd, proot_works, usr_bin
  <2> QED  BY <2>1, <2>2, <2>3, <2>4
<1> QED  BY <1>1, <1>2

LEMMA SpecInv == Spec => []Inv
  BY InitInv, StepInv, PTL DEF Spec

-----------------------------------------------------------------------------
(* Every variable keeps its type; the counters of attempts and faults stay *)
(* in their bounds, whichever of them ends a stage or a process.           *)
THEOREM StartupTypes == Spec => []TypeOK
<1>1. Inv => TypeOK
  BY DEF Inv
<1> QED  BY <1>1, SpecInv, PTL

(* What counts as a rootfs came from a complete archive: setup_arch_fs     *)
(* renames only what it has unpacked to the end.                           *)
THEOREM RootfsWhole == Spec => []RootfsIsWhole
<1>1. Inv => RootfsIsWhole
  BY DEF Inv, Unpacked, RootfsIsWhole
<1> QED  BY <1>1, SpecInv, PTL

(* A rootfs with the user's files stays: setup_arch_fs removes the         *)
(* directory only where it found no usr/bin, and nobody else makes one     *)
(* before the rename.                                                      *)
THEOREM RootfsStays == Spec => RootfsKept
<1>1. Inv /\ [Next]_vars => [root = "full" => root' = "full"]_vars
  <2> SUFFICES ASSUME Inv, Next, root = "full"  PROVE root' = "full"
    BY DEF vars
  <2> USE DEF Inv, Unpacked, diskVars
  <2>1. CASE onCreate \/ RestoreMain \/ RemoveTask \/ TogglePipewire \/ ProcessDeath
    BY <2>1 DEF onCreate, RestoreMain, RemoveTask, TogglePipewire, ProcessDeath
  <2>2. CASE NativeInit
    BY <2>2 DEF NativeInit, BuildContextFails, fix_xkb_symlink, Relink, CheckSetup
  <2>3. CASE setup_arch_fs
    BY <2>3 DEF setup_arch_fs, SkipArchFs, UseArchive, StartDownload, Download, Extract, Unpack,
                Replace, Rename, Cleanup, Goto
  <2>4. CASE run_setup /\ ~setup_arch_fs
    BY <2>4 DEF run_setup, Supported, Unsupported, ApplyStage, fix_ttyname,
                setup_pipewire_config, DependenciesInstalled, install_dependencies,
                InstallSucceeds, InstallFails, XkbStage, RelinkStage
  <2>5. CASE Compositor
    BY <2>5 DEF Compositor, CompositorFails, prepare_socket_path, bind_socket,
                run_compositor_loop
  <2>6. CASE DaemonUp \/ DaemonExits \/ Connects
    BY <2>6 DEF DaemonUp, DaemonExits, Connects, Refused, Connect, ServiceFrame, vars
  <2> QED  BY <2>1, <2>2, <2>3, <2>4, <2>5, <2>6 DEF Next
<1> QED  BY <1>1, SpecInv, PTL DEF Spec, RootfsKept

(* Once the keymaps are installed the services start with a keyboard,      *)
(* except where a death or a failed call has hit the very replacement of   *)
(* their link: no other history of starts and setups costs it.  Where the  *)
(* dependencies were ever installed, commands run in the mode this process *)
(* uses, probed or not.                                                    *)
THEOREM ServicesFindAll == Spec => []ServicesReady
<1>1. Inv => ServicesReady
  <2> SUFFICES ASSUME Inv, compositor = "run"  PROVE ServicesReady
    BY DEF ServicesReady
  <2>1. setup_done /\ (keyboard \/ xkb = "none" \/ xkb = "lost")
    BY DEF Inv, InOrder, Linked
  <2>2. ASSUME "Dependencies" \in applied  PROVE proot_works
    BY <2>1, <2>2 DEF Inv, Unpacked, Probed, proot_works, usr_bin
  <2> QED  BY <2>1, <2>2 DEF ServicesReady
<1> QED  BY <1>1, SpecInv, PTL

(* A setup none of whose stages gave up has made what is_setup_complete    *)
(* looks for, however many processes and attempts it took.                 *)
THEOREM SetupIsComplete == Spec => []SetupConverges
<1>1. Inv => SetupConverges
  BY DEF Inv, InOrder, Progress, SetupConverges
<1> QED  BY <1>1, SpecInv, PTL

=============================================================================
