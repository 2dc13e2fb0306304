------------------------------- MODULE Desktop -------------------------------
(***************************************************************************)
(* The settings program and the desktop tools program over one config.ini. *)
(*                                                                         *)
(* Each runs against everything the other programs can do to the file:     *)
(* OthersWrite and OthersSwitch are what one of them sees of the rest.  A  *)
(* behaviour follows the settings window on a tour of some of its pages,   *)
(* the clipboard page or the handwriting page, which share nothing but     *)
(* config.ini and the end of their window: together their states would     *)
(* only multiply.                                                          *)
(***************************************************************************)
EXTENDS SettingsWindow, DesktopTools

CONSTANTS
    Configs, Vaults,         \* the files and the credentials found at the start
    Tours                    \* Tours[t] is a set of pages of the settings window

\* Secret Service has an item or none for each provider, filed under its name. What
\* earlier versions filed under the local backend is never read and left out.
ASSUME VaultsAssumption ==
    \A vault \in Vaults : \A f \in Features :
        /\ DOMAIN vault[f] = Values[Feature[f].provider]
        /\ \A p \in DOMAIN vault[f] : vault[f][p] \in Filable(f, p)

ASSUME ToursAssumption == DOMAIN Tours \cap {"clipboard", "handwriting"} = {}

VARIABLE follows             \* what this behaviour follows

vars == <<config, windowVars, toolsVars, follows>>

\* main() of the settings program, on its first page.
WindowInit ==
    /\ config \in Configs
    /\ secrets \in Vaults
    /\ \E down \in SUBSET Features : model = Hydrate(Load(config), secrets, down)
    /\ dirty = FALSE
    /\ page = "Appearance"
    /\ editors = Editors(model, page)
    /\ rebuild = FALSE
    /\ preview = None
    /\ base = model
    /\ written = None
    /\ meddled = FALSE

WindowClosed ==
    /\ secrets = None /\ model = None /\ dirty = FALSE /\ page = None
    /\ editors = None /\ rebuild = FALSE /\ preview = None /\ base = None
    /\ written = None /\ meddled = FALSE

\* main() of the tools program.
ToolsInit ==
    /\ history = <<>>
    /\ owner = None
    /\ poll = NoPoll
    /\ checked = On
    /\ discarded = FALSE
    /\ list = <<>>
    /\ strokes = 0 /\ drawing = FALSE /\ debounce = FALSE /\ pass = None
    /\ restart = FALSE /\ stale = FALSE /\ shown = None
    /\ shut = FALSE

Init ==
    \/ follows \in DOMAIN Tours /\ WindowInit /\ ToolsInit
    \/ follows = "clipboard" /\ config \in Configs /\ WindowClosed /\ ToolsInit
    \/ follows = "handwriting" /\ config = Missing /\ WindowClosed /\ ToolsInit

Next ==
    \/ follows \in DOMAIN Tours /\ WindowNext(Tours[follows]) /\ UNCHANGED <<toolsVars, follows>>
    \/ follows = "clipboard" /\ ClipboardNext /\ UNCHANGED <<windowVars, follows>>
    \/ follows = "handwriting" /\ HandwritingNext /\ UNCHANGED <<windowVars, follows>>

Spec == Init /\ [][Next]_vars
=============================================================================
