----------------------------- MODULE Navigation -----------------------------
(***************************************************************************)
(* The web client's navigation: which page the shell shows, what the       *)
(* address bar says, and the browser's history between them.               *)
(*                                                                         *)
(* Three parties keep a copy of where the user is: the shell's state       *)
(* (useAppShellState), the state of the list, of the project page and of   *)
(* the dashboard (useDiscoverState, useProjectPageState,                   *)
(* useDashboardSection), and the entries of the browser's history.  A      *)
(* click changes the state and pushes an address; Back and Forward change  *)
(* the address and tell the listeners of popstate; an effect of the list   *)
(* rewrites the address in place.  React renders, and runs the effects of, *)
(* a click before the next event; of popstate, between two listeners.      *)
(*                                                                         *)
(* A parameter that is absent is written as the value that is read for it: *)
(* the tab "description", the section Overview, no version.  The `type`    *)
(* parameter always repeats the list of the path, and is left out.  Of the *)
(* search only the filter by game version is kept, whose parameter is also *)
(* that of the project page's selected release; the others travel as it    *)
(* does.                                                                   *)
(***************************************************************************)
EXTENDS Naturals, Sequences

CONSTANTS
  Types,          \* project types, each with its list
  DefaultType,    \* "mod"
  Projects,
  TypeOf(_),      \* the type of a project
  Users, Organizations, Collections,
  Targets,        \* what a dashboard edit page edits
  StaticViews,    \* the static pages of the instance; "home" and "dashboard" are
  Versions,       \* values of the `version` parameter
  Sections,       \* the dashboard's sections
  Overview,       \* the section an empty fragment means
  None,
  MaxHistory      \* the longest history followed

ASSUME ShapeAssumption ==
  /\ DefaultType \in Types
  /\ \A p \in Projects : TypeOf(p) \in Types
  /\ {"home", "dashboard"} \subseteq StaticViews
  /\ Overview \in Sections
  /\ MaxHistory \in Nat \ {0}

\* What is selected is told from nothing; the list and a user's page have no
\* static address (staticViewFromPathname).
ASSUME SelectionAssumption ==
  /\ None \notin Projects \cup Users \cup Organizations \cup Collections \cup Targets
  /\ StaticViews \cap {"discover", "profile"} = {}

VARIABLES
  shell,       \* what useAppShellState holds
  search,      \* the list's filter, held while other pages are shown
  pane,        \* the project page's tab and release
  section,     \* the dashboard's section
  history,     \* the entries: an address, and the page last shown there
  pos,         \* the current entry
  rerendered   \* the shell was rendered again since the document was loaded

navVars == <<shell, search, pane, section, history, pos, rerendered>>

-----------------------------------------------------------------------------
(* Addresses. *)

Place(kind, id) == [kind |-> kind, id |-> id]

Address(path) ==
  [path |-> path, project |-> None, tab |-> "description",
   version |-> None, section |-> Overview]

Here == history[pos].url

\* The writers start from the current address and change these parts of it.
ClearProjectSearchParams(url) ==
  [url EXCEPT !.project = None, !.tab = "description"]

WriteStaticView(url, view) ==
  [ClearProjectSearchParams(url) EXCEPT !.path = Place("static", view), !.section = Overview]

WriteProjectList(url, type) ==
  [ClearProjectSearchParams(url) EXCEPT !.path = Place("list", type)]

WriteDashboardEdit(url, target) ==
  [ClearProjectSearchParams(url) EXCEPT !.path = Place("edit", target), !.section = Overview]

WriteProjectTab(url, tab) ==
  [url EXCEPT !.tab = tab, !.version = IF tab = "versions" THEN @ ELSE None]

WriteSelectedVersion(url, version) ==
  [url EXCEPT !.tab = "versions", !.version = version]

WriteDiscover(url, type, version) ==
  [WriteProjectList(url, type) EXCEPT !.version = version]

\* What a reader of an address makes of it.
ItemAt(url, kind) == IF url.path.kind = kind THEN url.path.id ELSE None

ViewOf(path) ==
  CASE path.kind = "static"       -> path.id
    [] path.kind = "edit"         -> "dashboard"
    [] path.kind = "collection"   -> "collections"
    [] path.kind = "organization" -> "organization"
    [] path.kind = "user"         -> "profile"
    [] path.kind = "list"         -> "discover"

TypeAt(url) == IF url.path.kind = "list" THEN url.path.id ELSE DefaultType

ShellAt(url) ==
  [project      |-> url.project,
   username     |-> ItemAt(url, "user"),
   organization |-> ItemAt(url, "organization"),
   collection   |-> ItemAt(url, "collection"),
   edit         |-> ItemAt(url, "edit"),
   view         |-> IF url.project # None THEN "discover" ELSE ViewOf(url.path),
   type         |-> TypeAt(url)]

SearchAt(url) == url.version

PaneAt(url) == [tab |-> url.tab, version |-> url.version]

-----------------------------------------------------------------------------
(* The page shown. *)

\* The list is shown, follows the address and writes it.
Synced(s) == s.view = "discover" /\ s.project = None

\* What is selected counts only in its own view: a state may hold several
\* selections.
Page(s) ==
  CASE s.view = "home" /\ s.project = None -> Place("static", "home")
    [] s.project # None -> Place("project", s.project)
    [] s.project = None /\ s.view = "collections" /\ s.collection # None ->
         Place("collection", s.collection)
    [] s.project = None /\ s.view = "dashboard" /\ s.edit # None -> Place("edit", s.edit)
    [] s.project = None /\ s.view = "organization" /\ s.organization # None ->
         Place("organization", s.organization)
    [] s.project = None /\ s.view = "profile" /\ s.username # None -> Place("user", s.username)
    [] Synced(s) \/ (s.project = None /\ s.view = "profile" /\ s.username = None) ->
         Place("list", s.type)
    [] OTHER -> Place("static", s.view)

OnWorkspace(s) == Page(s) = Place("static", "dashboard")

-----------------------------------------------------------------------------
(* What every event ends with. *)

\* Variant of WrittenBack: the effect forgets to write the versions.
KeepsVersion(url, s, v) == IF Synced(s) THEN WriteProjectList(url, s.type) ELSE url

\* The list's effect, which rewrites the current entry.
WrittenBack(url, s, v) == IF Synced(s) THEN WriteDiscover(url, s.type, v) ELSE url

\* Variant of PaneOf: the project page reads the address only when it appears.
ReadOnce(s, url) ==
  IF s.project = None THEN PaneAt(Address(Place("static", "home")))
  ELSE IF shell.project = None THEN PaneAt(url)
  ELSE pane

\* The project page and the dashboard read the address when they appear, and
\* when the page is that of another project; what they hold is dropped with them.
PaneOf(s, url) ==
  IF s.project = None THEN PaneAt(Address(Place("static", "home")))
  ELSE IF shell.project # s.project THEN PaneAt(url)
  ELSE pane

SectionOf(s, url) ==
  IF ~OnWorkspace(s) THEN Overview
  ELSE IF ~OnWorkspace(shell) THEN url.section
  ELSE section

\* pushState: what was ahead is gone.
PushEntry(url, s) ==
  /\ pos < MaxHistory
  /\ history' = Append(SubSeq(history, 1, pos), [url |-> url, shown |-> Page(s)])
  /\ pos' = pos + 1

\* A handler set the shell to s and the filter to v, and pushed url.
Go(s, v, url) ==
  /\ PushEntry(WrittenBack(url, s, v), s)
  /\ shell' = s
  /\ search' = v
  /\ pane' = PaneOf(s, url)
  /\ section' = SectionOf(s, url)
  /\ rerendered' = TRUE

\* Variant of ResetSelection: setSelectedProject(null) is forgotten.
KeepsProject(view) ==
  [project |-> shell.project, username |-> None, organization |-> None,
   collection |-> None, edit |-> None, view |-> view, type |-> shell.type]

ResetSelection(view) ==
  [project |-> None, username |-> None, organization |-> None,
   collection |-> None, edit |-> None, view |-> view, type |-> shell.type]

-----------------------------------------------------------------------------
(* Buttons. *)

OpenStatic(view) ==
  Go(ResetSelection(view), search, WriteStaticView(Here, view))

OpenDashboardEdit(target) ==
  /\ OnWorkspace(shell)
  /\ Go([ResetSelection("dashboard") EXCEPT !.edit = target], search,
        WriteDashboardEdit(Here, target))

\* The home page's Explore keeps the filter of the list last shown.
OpenDiscover ==
  /\ Page(shell) = Place("static", "home")
  /\ Go([ResetSelection("discover") EXCEPT !.type = DefaultType], search,
        WriteProjectList(Here, DefaultType))

CloseProject ==
  /\ shell.project # None
  /\ Go(ResetSelection("discover"), search, WriteProjectList(Here, shell.type))

ChangeProjectType(type) ==
  /\ Page(shell).kind \in {"list", "project"}
  /\ type # shell.type
  /\ Go([ResetSelection("discover") EXCEPT !.type = type], None,
        WriteProjectList(Here, type))

\* A tag by version sets the filter; any other tag, or none of it, clears it.
SearchByTag(type, version) ==
  Go([ResetSelection("discover") EXCEPT !.type = type], version,
     WriteProjectList(Here, type))

\* The search form of the list: no entry is added.
EditSearch(version) ==
  /\ Synced(shell)
  /\ search' = version
  /\ history' = [history EXCEPT ![pos].url = WrittenBack(@, shell, version)]
  /\ rerendered' = TRUE
  /\ UNCHANGED <<shell, pane, section, pos>>

SelectTab(tab) ==
  /\ shell.project # None
  /\ pane' = [tab |-> tab, version |-> IF tab = "versions" THEN pane.version ELSE None]
  /\ PushEntry(WriteProjectTab(Here, tab), shell)
  /\ UNCHANGED <<shell, search, section, rerendered>>

SelectVersion(version) ==
  /\ shell.project # None
  /\ pane' = [tab |-> "versions", version |-> version]
  /\ PushEntry(WriteSelectedVersion(Here, version), shell)
  /\ UNCHANGED <<shell, search, section, rerendered>>

SelectSection(x) ==
  /\ OnWorkspace(shell)
  /\ section' = x
  /\ PushEntry([Here EXCEPT !.section = x], shell)
  /\ UNCHANGED <<shell, search, pane, rerendered>>

-----------------------------------------------------------------------------
(* Links.  The shell takes every click on a link of the client before the  *)
(* link's own handler, and stops it there.                                 *)

ListLinks ==
  {[Address(Place("list", t)) EXCEPT !.version = v] : t \in Types, v \in Versions \cup {None}}

StaticLinks ==
  {Address(Place("static", view)) : view \in StaticViews}
    \cup {[Address(Place("static", "dashboard")) EXCEPT !.section = x] : x \in Sections}

ItemLinks ==
  {Address(Place("user", u)) : u \in Users}
    \cup {Address(Place("organization", o)) : o \in Organizations}
    \cup {Address(Place("collection", c)) : c \in Collections}
    \cup {Address(Place("edit", e)) : e \in Targets}

ProjectPath(p) == [Address(Place("list", TypeOf(p))) EXCEPT !.project = p]

\* A project, or a release of it that another project's release depends on.
ProjectLinks ==
  {ProjectPath(p) : p \in Projects}
    \cup {WriteSelectedVersion(ProjectPath(p), v) : p \in Projects, v \in Versions}

\* A release's own link, on its project's page: versionHref.
VersionLinks ==
  IF shell.project # None THEN {WriteSelectedVersion(Here, v) : v \in Versions} ELSE {}

Links == ListLinks \cup StaticLinks \cup ItemLinks \cup ProjectLinks

\* The order of the tests is that of navigateToUrl.  A project's link keeps
\* the edit target.
Followed(url) ==
  IF url.path.kind = "edit" THEN [ResetSelection("dashboard") EXCEPT !.edit = url.path.id]
  ELSE IF url.project # None THEN
    [shell EXCEPT !.project = url.project, !.username = None, !.organization = None,
                  !.collection = None, !.view = "discover", !.type = TypeAt(url)]
  ELSE [ResetSelection(ViewOf(url.path)) EXCEPT
          !.collection = ItemAt(url, "collection"),
          !.username = ItemAt(url, "user"),
          !.organization = ItemAt(url, "organization"),
          !.type = IF url.path.kind = "list" THEN url.path.id ELSE @]

\* Only the link to a list makes the list read the address.
NavigateToUrl(url) ==
  Go(Followed(url), IF Synced(Followed(url)) THEN SearchAt(url) ELSE search, url)

-----------------------------------------------------------------------------
(* Back, Forward and loading the document. *)

\* The shell's listener, then the list's where it is still the one that was
\* registered: the shell's changed nothing that renders the list again.
ShellListensFirst(n, url, s) ==
  LET same == Synced(shell) /\ Synced(s) /\ s.type = shell.type
      v == IF same THEN SearchAt(url) ELSE search
  IN  /\ shell' = s
      /\ search' = v
      /\ history' = [history EXCEPT ![n] = [url |-> WrittenBack(url, s, v), shown |-> Page(s)]]

\* The list's listener, registered before the shell's: it takes the address
\* for the list's, the effect writes the list's over it, and the shell reads that.
ListListensFirst(n, url) ==
  LET v == SearchAt(url)
      w == WrittenBack(url, shell, v)
  IN  /\ shell' = ShellAt(w)
      /\ search' = v
      /\ history' = [history EXCEPT ![n] = [url |-> w, shown |-> Page(ShellAt(w))]]

\* Variant of ListIsFirst: the listener is registered once, at the first rendering.
ListAlwaysFirst == Synced(shell)

\* The list registers its listener anew whenever it is rendered, the shell
\* only once, and the list's effect comes first in the first rendering.
ListIsFirst == Synced(shell) /\ ~rerendered

PopState(n) ==
  LET url == history[n].url
  IN  /\ pos' = n
      /\ IF ListIsFirst THEN ListListensFirst(n, url)
                        ELSE ShellListensFirst(n, url, ShellAt(url))
      /\ pane' = IF shell'.project = None THEN PaneOf(shell', url) ELSE PaneAt(url)
      /\ section' = IF OnWorkspace(shell') THEN url.section ELSE Overview
      /\ rerendered' = TRUE

Back == pos > 1 /\ PopState(pos - 1)

Forward == pos < Len(history) /\ PopState(pos + 1)

\* What the document makes of an address: the initial state, and the effect.
Loaded(url) ==
  LET s == ShellAt(url)
  IN  [shell |-> s, search |-> SearchAt(url), url |-> WrittenBack(url, s, SearchAt(url)),
       pane |-> IF s.project # None THEN PaneAt(url)
                ELSE PaneAt(Address(Place("static", "home"))),
       section |-> IF OnWorkspace(s) THEN url.section ELSE Overview]

Reload ==
  LET l == Loaded(Here)
  IN  /\ shell' = l.shell
      /\ search' = l.search
      /\ pane' = l.pane
      /\ section' = l.section
      /\ history' = [history EXCEPT ![pos] = [url |-> l.url, shown |-> Page(l.shell)]]
      /\ rerendered' = FALSE
      /\ UNCHANGED pos

\* The answer of the catalog renders the shell again.
CatalogAnswers ==
  /\ shell.view = "discover" \/ shell.project # None
  /\ ~rerendered
  /\ rerendered' = TRUE
  /\ UNCHANGED <<shell, search, pane, section, history, pos>>

-----------------------------------------------------------------------------
NavInit ==
  \E url \in Links :
    LET l == Loaded(url)
    IN  /\ shell = l.shell
        /\ search = l.search
        /\ pane = l.pane
        /\ section = l.section
        /\ history = <<[url |-> l.url, shown |-> Page(l.shell)]>>
        /\ pos = 1
        /\ rerendered = FALSE

NavNext ==
  \/ \E view \in StaticViews : OpenStatic(view)
  \/ \E target \in Targets : OpenDashboardEdit(target)
  \/ OpenDiscover
  \/ CloseProject
  \/ \E type \in Types : ChangeProjectType(type)
  \/ \E type \in Types, version \in Versions \cup {None} : SearchByTag(type, version)
  \/ \E version \in Versions \cup {None} : EditSearch(version)
  \/ \E tab \in {"description", "versions"} : SelectTab(tab)
  \/ \E version \in Versions \cup {None} : SelectVersion(version)
  \/ \E x \in Sections : SelectSection(x)
  \/ \E url \in Links \cup VersionLinks : NavigateToUrl(url)
  \/ Back
  \/ Forward
  \/ Reload
  \/ CatalogAnswers

NavSpec == NavInit /\ [][NavNext]_navVars

-----------------------------------------------------------------------------
(* Properties. *)

\* The page shown is the one that loading its address would show, whatever
\* buttons, links and steps through the history led there: every writer of
\* routing.ts leaves an address whose readers agree with the handler's setters,
\* and a selection a handler did not reset is never the one shown.
ShownIsAddressed == Page(shell) = Page(ShellAt(Here))

\* The list that is shown is filtered as its address says, whichever of the
\* two was changed: the effect that writes the address and the listener that
\* reads it do not leave one behind the other.
SearchIsAddressed == Synced(shell) => search = SearchAt(Here) /\ shell.type = TypeAt(Here)

\* Back and Forward show the page that was left at the entry they come to.
\* Between the loading of a list and the catalog's first answer they may not:
\* until then the list hears of the step before the shell does (ListIsFirst).
StepsShowWhatWasLeft ==
  [][rerendered /\ (Back \/ Forward) => Page(shell') = history[pos'].shown]_navVars

PaneIsAddressed == shell.project # None => pane = PaneAt(Here)

SectionIsAddressed == OnWorkspace(shell) => section = Here.section

\* Only a step to where one already is parts the project page or the dashboard
\* from its address: a link to a release of the project that is shown, a link
\* to a section of the dashboard that is, or its button.  The handler pushes
\* the address, which tells nobody, and selects what is selected, so that
\* nothing makes the page read it.
OnlyOwnLinksPart ==
  [][/\ PaneIsAddressed /\ ~PaneIsAddressed'
          => \E url \in VersionLinks \cup ProjectLinks :
               url.project = shell.project /\ NavigateToUrl(url)
     /\ SectionIsAddressed /\ ~SectionIsAddressed'
          => /\ OnWorkspace(shell)
             /\ \/ \E url \in StaticLinks : NavigateToUrl(url)
                \/ OpenStatic("dashboard")]_navVars

=============================================================================
