------------------------------ MODULE Session ------------------------------
(* The start of the interactive session: StartInteractiveSession calls its  *)
(* components in a fixed order, each operation returns false when what it   *)
(* looks at is not there yet, and every false stops the kernel (KASSERT),   *)
(* but for the presentation of the desktop, which is then skipped.  An      *)
(* operation is <<name, what it looks at, what it makes ready>>; strings,   *)
(* colours and labels are left out.                                         *)
EXTENDS Naturals, Sequences, SequencesExt

CONSTANT Scarce     \* operations for which memory or a table slot may be missing

VARIABLES
    k,          \* the operation that is next
    ready,      \* what has been made ready
    active,     \* desktops whose Active is set
    halted      \* KernelPanic

vars == <<k, ready, active, halted>>

----------------------------------------------------------------------------
\* The components, in the files named after them.
Smss == << <<"SmssCreateSession", {}, {"session"}>> >>

Csrss == << <<"CreateWin32Session", {}, {"runtime"}>>,
            <<"StartConsoleRuntime", {"runtime"}, {"console"}>> >>

Win32k == << <<"AttachSession", {"win32k", "runtime"}, {"graphics"}>> >>

Winsta == << <<"CreateInteractiveWindowStation", {}, {"station"}>>,
             <<"CreateSecureDesktop", {"station"}, {"secure desktop"}>>,
             <<"CreateShellDesktop", {"station"}, {"shell desktop"}>> >>

Winlogon == << <<"CreateLogonSession", {"secure desktop"}, {"credentials"}>>,
               <<"AcceptAutoLogon", {"credentials"}, {"logon"}>>,
               <<"AllowUserinit", {"logon"}, {"userinit"}>> >>

Profile == << <<"LoadUserProfile", {}, {"profile"}>>,
              <<"ApplyEnvironment", {"profile"}, {"environment"}>> >>

Userinit == << <<"PrepareInteractiveUser", {"environment"}, {"empty queue"}>> >>

Dwm == << <<"Start", {"graphics"}, {"compositor"}>> >>

Displaycfg == << <<"QueryPrimaryMode", {"framebuffer"}, {"mode"}>>,
                 <<"AttachSessionTarget", {"session", "mode"}, {"target"}>>,
                 <<"ApplyDesktopMetrics", {"target"}, {"metrics"}>> >>

Appmodel == << <<"RegisterShellApp", {"session"}, {"app"}>>,
               <<"ActivateShellApp", {"app"}, {}>> >>

LaunchShell == << <<"CreateUserPml4", {"app"}, {"address space"}>>,
                  <<"CreateProcess", {"address space"}, {"process"}>>,
                  <<"LoadNtdll", {"process"}, {"ntdll"}>>,
                  <<"LoadShell", {"ntdll"}, {"image"}>>,
                  <<"MapStack", {"address space"}, {"stack"}>>,
                  <<"CreateUserThread", {"image", "stack"}, {"thread"}>> >>

Explorer == << <<"RegisterShell", {"process", "thread"}, {"shell"}>> >>

Uxtheme == << <<"LoadDefaultTheme", {}, {"theme"}>> >>

Shellhost == << <<"CreateShellSurface", {"session", "shell desktop"}, {"surface"}>>,
                <<"BindExplorer", {"shell", "surface"}, {"bound"}>>,
                <<"ComposeDesktop", {"surface", "bound"}, {}>> >>

Windowmgr == << <<"CreateDesktopScene", {"session", "shell desktop"}, {"scene"}>>,
                <<"AttachShellSurface", {"scene", "bound"}, {"z-order"}>>,
                <<"SetForegroundWindow", {"z-order"}, {}>> >>

Desktopmodel == << <<"BuildXpRedesignLayout", {"z-order"}, {"layout"}>> >>

Present == << <<"PresentShellDesktop",
                {"compositor", "z-order", "metrics", "layout", "shell desktop"},
                {"desktop"}>> >>

Inputhost == << <<"AttachDesktop", {"session", "shell desktop"}, {"input"}>>,
                <<"FocusShellSurface", {"input", "bound"}, {"focus"}>>,
                <<"ShowCursor", {"focus"}, {"cursor"}>> >>

Shellinput == << <<"AttachLayout", {"focus", "layout"}, {"hit test"}>>,
                 <<"PrimeDefaultHitTarget", {"hit test"}, {}>>,
                 <<"ClickPointer", {"hit test", "layout"}, {"target hit"}>> >>

Shellact == << <<"CreateActivationState", {"layout"}, {"activation"}>>,
               <<"ApplyPointerTarget", {"activation", "hit test"}, {}>>,
               <<"PublishTaskbarState", {"activation"}, {"taskbar state"}>> >>

Shella11y == << <<"CreateAccessibilityState", {"activation"}, {"cues"}>>,
                <<"PublishFocusCues", {"cues"}, {}>> >>

Shellstart == << <<"BuildStartMenu", {"layout", "activation"}, {"menu"}>>,
                 <<"PublishStartMenu", {"menu"}, {"menu published"}>> >>

Shellplaces == << <<"BuildPlaceState", {"layout", "menu published"}, {"places"}>>,
                  <<"PublishPlaceState", {"places"}, {"places published"}>> >>

Shellpower == << <<"BuildPowerState", {"menu published"}, {"power"}>>,
                 <<"PublishPowerState", {"power"}, {"power published"}>> >>

Shellcommands == << <<"BuildCommandState", {"menu published"}, {"commands"}>>,
                    <<"PublishCommandState", {"commands"}, {"commands published"}>> >>

Shelltaskbar == << <<"BuildTaskbar", {"layout", "taskbar state"}, {"taskbar"}>>,
                   <<"PublishTaskbar", {"taskbar"}, {"taskbar published"}>> >>

Shelltray == << <<"CreateTrayState", {"taskbar state"}, {"tray"}>>,
                <<"PublishTrayState", {"tray"}, {"tray published"}>> >>

Shellnotify == << <<"CreateNotificationQueue", {"tray published"}, {"center"}>>,
                  <<"PublishWelcomeNotification", {"center"}, {"welcome"}>> >>

StartShellThread == << <<"StartShellThread", {"shell"}, {"running"}>> >>

\* The order of the calls.
UpToExplorer == Smss \o Csrss \o Win32k \o Winsta \o Winlogon \o Profile \o Userinit
                \o Dwm \o Displaycfg \o Appmodel \o LaunchShell \o Explorer

ShellModels == Inputhost \o Shellinput \o Shellact \o Shella11y \o Shellstart
               \o Shellplaces \o Shellpower \o Shellcommands \o Shelltaskbar
               \o Shelltray \o Shellnotify

\* Mutant: the desktop is presented as soon as there is a window manager.
EarlyPresent == UpToExplorer \o Uxtheme \o Shellhost \o Windowmgr \o Present
                \o Desktopmodel \o ShellModels \o StartShellThread

StartInteractiveSession == UpToExplorer \o Uxtheme \o Shellhost \o Windowmgr
                           \o Desktopmodel \o Present \o ShellModels
                           \o StartShellThread

----------------------------------------------------------------------------
Op == StartInteractiveSession[k]

\* With or without a framebuffer; WIN32K::Init has run.
Init == /\ k = 1 /\ active = {} /\ halted = FALSE
        /\ ready \in {{"win32k"}, {"win32k", "framebuffer"}}

SwitchDesktop ==
    active \cup (CASE Op[1] = "CreateLogonSession"  -> {"secure desktop"}
                   [] Op[1] = "PresentShellDesktop" -> {"shell desktop"}
                   [] OTHER -> {})

Running == ~halted /\ k <= Len(StartInteractiveSession)

Calls == Op[2] \subseteq ready

Call == /\ Running
        /\ Calls \/ Op[1] = "PresentShellDesktop"
        /\ k' = k + 1 /\ UNCHANGED halted
        /\ ready' = IF Calls THEN ready \cup Op[3] ELSE ready
        /\ active' = IF Calls THEN SwitchDesktop ELSE active

KernelPanic == /\ Running /\ Op[1] # "PresentShellDesktop"
               /\ ~Calls \/ Op[1] \in Scarce
               /\ halted' = TRUE /\ UNCHANGED <<k, ready, active>>

Next == Call \/ KernelPanic

Spec == Init /\ [][Next]_vars

----------------------------------------------------------------------------
(* The session comes up: only a missing framebuffer, missing memory or a    *)
(* full table stops it, never an operation called before what it looks at,  *)
(* and when the shell runs its desktop is on the screen.                    *)
SessionComesUp ==
    /\ halted => Op[1] \in Scarce \/ "framebuffer" \notin ready
    /\ "running" \in ready => {"desktop", "welcome", "target hit"} \subseteq ready

(* One desktop is active at a time; SwitchDesktop leaves the one before.    *)
OneDesktopActive == \A a, b \in active : a = b
=============================================================================
