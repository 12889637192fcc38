----------------------------- MODULE AXProvider -----------------------------
(***************************************************************************)
(* The accessibility capability of Windows (capability/ax): guests read    *)
(* the windows and the element tree of a window as paths, and then act on  *)
(* an element by its path, through a UIA pattern of the element or else    *)
(* through synthetic mouse and keyboard input.                             *)
(*                                                                         *)
(* A call runs on the worker thread of its connection, and nothing orders  *)
(* the calls of two workers.  Walking a tree, down a path or to list it,   *)
(* is one step, of many UIA calls in the code; every other call of the     *)
(* system is a step of its own.  Between two steps the user takes the      *)
(* foreground, programs change their trees, windows close, and other       *)
(* callers send input: a tree never changes in the middle of a walk.       *)
(***************************************************************************)
EXTENDS Naturals, Sequences, FiniteSets, SequencesExt

CONSTANTS
    Callers,        \* threads that serve guests
    Windows,        \* handles of top-level windows
    Desktops,       \* element trees to begin with: container id -> children
    Pool,           \* elements a program may add
    Digits,         \* the texts that read as 0, 1, ...; bound: no list is longer
    KeyCalls,       \* what key_press and key_combo are called with
    Operations,     \* the operations each guest asks for
    MaxDepth,       \* max_depth of get_ui_tree
    MaxChanges      \* bound: changes of the trees and windows in a behaviour

VARIABLES
    kids,           \* the children of every window and container
    pid,            \* the process that owns a window; 0: no such window
    iconic,         \* minimised windows
    foreground,     \* the window in front, or NoWindow
    focus,          \* the element with the keyboard focus, or NoElement
    held,           \* keys that are down
    op,             \* its call in progress
    disturbed,      \* history: somebody else changed what its input meets
    changes         \* history: changes made so far

desktopVars == <<kids, pid, iconic, foreground, focus, held>>
callVars == <<op, disturbed>>
vars == <<desktopVars, callVars, changes>>

NoWindow == "no window"
NoElement == "no element"
ElementCalls == {"click", "double_click", "right_click", "set_value", "focus", "scroll"}

-----------------------------------------------------------------------------
(* Elements and their paths.                                               *)

\* controlTypeToRole(), for the types of the trees: several share a role.
RoleOf(type) ==
    CASE type \in {"Button", "SplitButton"} -> "AXButton"
      [] type \in {"Group", "Custom", "Header"} -> "AXGroup"
      [] type = "Edit" -> "AXTextField"
      [] type = "Image" -> "AXImage"
      [] OTHER -> "AXGroup"

\* No AutomationId, no name.
NoText == ""

\* The texts that read as a number, and those the path syntax cuts in two.  Left
\* out: other texts that from_chars reads in full (-1, 007), and brackets in names.
IsIndex(text) == text \in Range(Digits)
IsCut(text) == text = "a/b"

\* Every element there is or may be, and what the trees and calls are made of.
Everything == Pool \cup UNION {UNION {Range(d[id]) : id \in DOMAIN d} : d \in Desktops}
Lists == {list \in Seq(Everything) : Len(list) <= Len(Digits)}

ASSUME DesktopAssumption ==
    /\ MaxDepth \in 1 .. 20 /\ MaxChanges \in Nat
    /\ NoWindow \notin Windows
    /\ Digits \in Seq(STRING) /\ IsInjective(Digits)
    /\ \A d \in Desktops : d \in [DOMAIN d -> Lists]
    /\ KeyCalls \subseteq [keys : Seq(STRING), window : Windows \cup {NoWindow}]

\* type_counts: siblings of the same control type before the i-th.
TypeIndex(list, i) == Cardinality({j \in 1 .. i - 1 : list[j].type = list[i].type})

\* buildIdentifier(): AutomationId, else Name, else the index in its type.
BuildIdentifier(list, i) ==
    LET e == list[i] IN
    IF e.aid # NoText THEN e.aid ELSE IF e.name # NoText THEN e.name ELSE Digits[TypeIndex(list, i) + 1]

ComponentOf(list, i) == [role |-> RoleOf(list[i].type), ident |-> BuildIdentifier(list, i)]

\* splitPath() and parseComponent(): a text with a slash leaves two components
\* whose roles no element has.
SplitPath(path) ==
    [i \in DOMAIN path |->
        IF IsCut(path[i].ident) THEN [role |-> "none", ident |-> NoText] ELSE path[i]]

\* buildElement(): the i-th child of a node with its path, the nodes below those
\* of a level, and the nodes of a window down to max_depth.
Child(tree, p, i) ==
    [path |-> Append(p.path, ComponentOf(tree[p.id], i)),
     id |-> tree[p.id][i].id,
     line |-> Append(p.line, <<p.id, i>>)]
Below(tree, nodes) ==
    UNION {{Child(tree, p, i) : i \in DOMAIN tree[p.id]} : p \in {q \in nodes : q.id \in DOMAIN tree}}
Levels(tree, w) ==
    LET level[n \in 0 .. MaxDepth] ==
            IF n = 0 THEN {[path |-> <<>>, id |-> w, line |-> <<>>]}
            ELSE Below(tree, level[n - 1])
    IN level
BuildTree(tree, w) == UNION {Levels(tree, w)[n] : n \in 1 .. MaxDepth}

\* AXTextSerializer: a picture without name and capabilities is left out with
\* all below it; a container with neither gets no line of its own.
ShouldPrune(e) == e.type = "Image" /\ e.name = NoText /\ ~e.caps
IsLayoutOnly(e) == e.name = NoText /\ ~e.caps
Serialize(tree, nodes) ==
    {p \in nodes :
        /\ \A s \in Range(p.line) : ~ShouldPrune(tree[s[1]][s[2]])
        /\ ~IsLayoutOnly(tree[Last(p.line)[1]][Last(p.line)[2]])}

\* Faulty variant of Matches: the index counts every child.
MatchesByPosition(list, i, part) ==
    /\ RoleOf(list[i].type) = part.role
    /\ IF IsIndex(part.ident) THEN Digits[i] = part.ident
       ELSE part.ident \in {list[i].aid, list[i].name}

\* Faulty variant of Matches: an identifier that is not found is no obstacle.
MatchesRoleOnly(list, i, part) ==
    /\ RoleOf(list[i].type) = part.role
    /\ IsIndex(part.ident) => Digits[TypeIndex(list, i) + 1] = part.ident

\* The test of findElementByPath for one child.
Matches(list, i, part) ==
    /\ RoleOf(list[i].type) = part.role
    /\ IF IsIndex(part.ident)
       THEN Digits[TypeIndex(list, i) + 1] = part.ident
       ELSE part.ident \in {list[i].aid, list[i].name}

\* One component: the first child that matches.
ChildFor(tree, id, part) ==
    LET hits == IF id \in DOMAIN tree
                THEN {i \in DOMAIN tree[id] : Matches(tree[id], i, part)} ELSE {}
    IN IF hits = {} THEN NoElement
       ELSE tree[id][CHOOSE i \in hits : \A j \in hits : i <= j].id

\* findElementByPath(): the window must exist; its process is not looked at.
\* The elements met on the way, one for every component.
Walk(tree, w, parts) ==
    LET walk[n \in 0 .. Len(parts)] ==
            IF n = 0 THEN w ELSE ChildFor(tree, walk[n - 1], parts[n])
    IN walk
FindElementByPath(w, path) ==
    IF pid[w] = 0 THEN NoElement ELSE Walk(kids, w, SplitPath(path))[Len(path)]

\* The elements of a window, whatever their depth.
Inside(w) == {p.id : p \in BuildTree(kids, w)}
IsWindow(w) == pid[w] # 0

-----------------------------------------------------------------------------
(* Calls.                                                                  *)

NoCall == [call |-> "none", at |-> "rest", window |-> NoWindow, path |-> <<>>, keys |-> <<>>,
           meant |-> <<0, NoElement>>, got |-> NoElement, bounds |-> "none", todo |-> <<>>]

At(c, point) == op[c].at = point
Goto(c, point) == op' = [op EXCEPT ![c].at = point]

\* The answer itself is not kept: no step of the capability depends on it.
Return(c, answer) == op' = [op EXCEPT ![c] = NoCall]

\* Those in the middle of a call do not meet the desktop they left.
Disturb(who) ==
    disturbed' = [d \in Callers |-> op'[d].at # "rest" /\ (disturbed[d] \/ d \in who)]

\* What sendKeyEvent sends for keys pressed in order and released in reverse.
Down(key) == [key |-> key, down |-> TRUE]
Up(key) == [key |-> key, down |-> FALSE]
Strokes(keys) ==
    [i \in DOMAIN keys |-> Down(keys[i])] \o [i \in DOMAIN keys |-> Up(Reverse(keys)[i])]

\* set_value: select all, delete, and type the text.
EraseAndType == Strokes(<<"Ctrl", "a">>) \o Strokes(<<"Delete">>) \o Strokes(<<"text">>)

\* A window comes to the front, and an element of its own choice has the focus.
BringToFront(w) == foreground' = w /\ focus' = IF w = foreground THEN focus ELSE NoElement

-----------------------------------------------------------------------------
(* Acting on an element: click, double_click, right_click, set_value,      *)
(* focus and scroll.                                                       *)

\* list_windows: the order, the titles and the test for a title are left out.
ListWindows == {w \in Windows : IsWindow(w)}

\* get_ui_tree, or WINDOW_NOT_FOUND.
GetUITree(w) ==
    IF IsWindow(w)
    THEN {[window |-> w, path |-> p.path, meant |-> <<pid[w], p.id>>]
            : p \in Serialize(kids, BuildTree(kids, w))}
    ELSE {}

\* A guest reads a tree and asks for an element of it.  The tree may change
\* in any way before the search for its path.
AskElement(c, call) ==
    /\ At(c, "rest")
    /\ call \in Operations[c] \cap ElementCalls
    /\ \E w \in ListWindows : \E s \in GetUITree(w) :
        op' = [op EXCEPT ![c] = [NoCall EXCEPT !.call = call, !.at = "find", !.window = w,
                                               !.path = s.path, !.meant = s.meant]]
    /\ Disturb({})
    /\ UNCHANGED <<desktopVars, changes>>

\* The step after the search: a pattern, the focus, or the mouse at once.
AfterFind(call) ==
    CASE call \in {"click", "set_value", "scroll"} -> "pattern"
      [] call = "focus" -> "focus"
      [] OTHER -> "activate"

Find(c) ==
    /\ At(c, "find")
    /\ LET id == FindElementByPath(op[c].window, op[c].path) IN
       IF id = NoElement THEN Return(c, "element_not_found")
       ELSE op' = [op EXCEPT ![c].at = AfterFind(op[c].call), ![c].got = id]
    /\ Disturb({})
    /\ UNCHANGED <<desktopVars, changes>>

IsThere(c) == IsWindow(op[c].window) /\ op[c].got \in Inside(op[c].window)

\* L1.  The pattern does the work of the call, or is missing or fails.
Pattern(c, call, fallback) ==
    /\ At(c, "pattern") /\ op[c].call = call
    /\ \/ IsThere(c) /\ Return(c, "ok")
       \/ Goto(c, fallback)
    /\ Disturb({})
    /\ UNCHANGED <<desktopVars, changes>>

InvokePattern(c) == Pattern(c, "click", "activate")
ValuePattern(c) == Pattern(c, "set_value", "focus")
ScrollPattern(c) == Pattern(c, "scroll", "aim")

\* Faulty variant of RaiseWindow: a minimised window is not restored.
RaiseWindowOnly(c) ==
    /\ At(c, "activate")
    /\ Goto(c, IF op[c].todo # <<>> THEN "keys" ELSE "aim")
    /\ LET w == op[c].window
           others == Callers \ {c} IN
       \/ /\ IsWindow(w)
          /\ BringToFront(w)
          /\ Disturb(IF foreground = w THEN {} ELSE others)
       \/ /\ UNCHANGED <<foreground, focus>>
          /\ Disturb(IF foreground = w THEN {} ELSE {c})
    /\ UNCHANGED <<kids, pid, iconic, held, changes>>

\* L2.  The window is restored and asked to the front, which may be refused;
\* the answer is not looked at.  Key calls do not restore it.
RaiseWindow(c) ==
    /\ At(c, "activate")
    /\ Goto(c, IF op[c].todo # <<>> THEN "keys" ELSE "aim")
    /\ LET w == op[c].window
           others == Callers \ {c}
           restored == IF op[c].todo = <<>> /\ IsWindow(w) THEN iconic \ {w} ELSE iconic IN
       /\ iconic' = restored
       /\ \/ /\ IsWindow(w)
             /\ BringToFront(w)
             /\ Disturb(IF foreground = w THEN {} ELSE others)
          \/ /\ UNCHANGED <<foreground, focus>>
             /\ Disturb(IF foreground = w THEN {} ELSE {c})
    /\ UNCHANGED <<kids, pid, held, changes>>

\* uiaGetBounds(): nothing of an element that is gone, and at best a place off
\* the screen for one of a minimised window.
BoundsOf(c) ==
    IF ~IsThere(c) THEN {"none"}
    ELSE IF op[c].window \in iconic THEN {"none", "off"} ELSE {"screen"}

\* A click needs bounds; the wheel turns where the pointer is without them.
Aim(c) ==
    /\ At(c, "aim")
    /\ \E b \in BoundsOf(c) :
        IF b = "none" /\ op[c].call # "scroll"
        THEN Return(c, "element_not_found")
        ELSE op' = [op EXCEPT ![c].at = "send", ![c].bounds = b]
    /\ Disturb({})
    /\ UNCHANGED <<desktopVars, changes>>

\* The window under a point of the element: the one in front if it is its own.
Under(c) ==
    IF op[c].bounds = "screen" /\ foreground = op[c].window
    THEN {foreground} ELSE {w \in Windows : IsWindow(w) /\ w \notin iconic} \cup {NoWindow}

\* One SendInput for the whole click, or one turn of the wheel.  A click brings
\* the window it meets to the front.
SendMouse(c) ==
    /\ At(c, "send")
    /\ Return(c, "ok")
    /\ IF op[c].call = "scroll" THEN Disturb({}) /\ UNCHANGED <<foreground, focus>>
       ELSE \E w \in Under(c) :
            /\ BringToFront(w)
            /\ Disturb(IF w = foreground THEN {} ELSE Callers \ {c})
    /\ UNCHANGED <<kids, pid, iconic, held, changes>>

\* SetFocus: focus answers what it says, set_value types on in any case.
SetFocus(c) ==
    /\ At(c, "focus")
    /\ IF op[c].call = "focus" THEN Return(c, "ok or internal_error")
       ELSE op' = [op EXCEPT ![c].at = "keys", ![c].todo = EraseAndType]
    /\ \/ /\ IsThere(c)
          /\ foreground' = op[c].window
          /\ focus' = op[c].got
          /\ Disturb(IF <<foreground', focus'>> = <<foreground, focus>> THEN {} ELSE Callers \ {c})
       \/ /\ UNCHANGED <<foreground, focus>>
          /\ Disturb({c})
    /\ UNCHANGED <<kids, pid, iconic, held, changes>>

-----------------------------------------------------------------------------
(* Keys and windows.                                                       *)

Modifiers == {"Ctrl", "Alt", "Shift", "Win", "Cmd"}
KeyNameToVk == Modifiers \cup {"a", "c", "Delete", "Return", "Tab"}

\* Keys are sent at once, or after the window was asked to the front.
SendAfterRaise(c, call, keys, w, strokes) ==
    /\ op' = [op EXCEPT ![c] = [NoCall EXCEPT !.call = call, !.window = w, !.keys = keys,
                                              !.at = IF w = NoWindow THEN "keys" ELSE "activate",
                                              !.todo = strokes]]
    /\ disturbed' = [disturbed EXCEPT ![c] = \E d \in Callers \ {c} : At(d, "keys")]

Refuse(c, answer) == UNCHANGED <<op, disturbed>>

KeyPress(c, key, w) ==
    /\ At(c, "rest")
    /\ "key_press" \in Operations[c]
    /\ IF key \notin KeyNameToVk THEN Refuse(c, "not_supported")
       ELSE SendAfterRaise(c, "key_press", <<key>>, w, Strokes(<<key>>))
    /\ UNCHANGED <<desktopVars, changes>>

\* Faulty variant of KeyCombo: the main key is released, the others are not.
KeyComboHeld(c, keys, w) ==
    /\ At(c, "rest")
    /\ "key_combo" \in Operations[c]
    /\ keys # <<>>
    /\ SendAfterRaise(c, "key_combo", keys, w,
                      [i \in DOMAIN keys |-> Down(keys[i])] \o <<Up(Last(keys))>>)
    /\ UNCHANGED <<desktopVars, changes>>

\* Every key is looked up before the first goes down; the last is no modifier.
KeyCombo(c, keys, w) ==
    /\ At(c, "rest")
    /\ "key_combo" \in Operations[c]
    /\ IF keys = <<>> THEN Refuse(c, "invalid_argument")
       ELSE IF ~(Range(keys) \subseteq KeyNameToVk) THEN Refuse(c, "not_supported")
       ELSE IF Last(keys) \in Modifiers THEN Refuse(c, "invalid_argument")
       ELSE SendAfterRaise(c, "key_combo", keys, w, Strokes(keys))
    /\ UNCHANGED <<desktopVars, changes>>

\* One sendKeyEvent.  It disturbs every other caller that sends keys or will.
SendKeyEvent(c) ==
    /\ At(c, "keys")
    /\ LET stroke == Head(op[c].todo) IN
       held' = IF stroke.down THEN held \cup {stroke.key} ELSE held \ {stroke.key}
    /\ IF Len(op[c].todo) = 1 THEN Return(c, "ok")
       ELSE op' = [op EXCEPT ![c].todo = Tail(@)]
    /\ Disturb(Callers \ {c})
    /\ UNCHANGED <<kids, pid, iconic, foreground, focus, changes>>

\* activate: the window is restored and asked to the front, Ok in any case;
\* WINDOW_NOT_FOUND without one.
Activate(c, w) ==
    /\ At(c, "rest")
    /\ "activate" \in Operations[c]
    /\ IsWindow(w)
    /\ UNCHANGED op
    /\ iconic' = iconic \ {w}
    /\ \/ BringToFront(w) /\ Disturb(IF foreground = w THEN {} ELSE Callers)
       \/ Disturb({}) /\ UNCHANGED <<foreground, focus>>
    /\ UNCHANGED <<kids, pid, held, changes>>

-----------------------------------------------------------------------------
(* The user and the programs.                                              *)

UserRaises(w) ==
    /\ IsWindow(w) /\ w # foreground
    /\ iconic' = iconic \ {w}
    /\ BringToFront(w)
    /\ UNCHANGED op /\ Disturb(Callers)
    /\ UNCHANGED <<kids, pid, held, changes>>

UserMinimises(w) ==
    /\ IsWindow(w) /\ w \notin iconic
    /\ iconic' = iconic \cup {w}
    /\ IF w = foreground THEN BringToFront(NoWindow) ELSE UNCHANGED <<foreground, focus>>
    /\ UNCHANGED op /\ Disturb(Callers)
    /\ UNCHANGED <<kids, pid, held, changes>>

\* A window closes, and its handle may serve a window of another process.
WindowGoes(w) ==
    /\ changes < MaxChanges
    /\ changes' = changes + 1
    /\ pid' = [pid EXCEPT ![w] = IF IsWindow(w) THEN 0 ELSE changes + 2]
    /\ iconic' = iconic \ {w}
    /\ IF w = foreground THEN BringToFront(NoWindow) ELSE UNCHANGED <<foreground, focus>>
    /\ UNCHANGED op /\ Disturb(Callers)
    /\ UNCHANGED <<kids, held>>

\* A program removes an element or adds one anywhere.
UIChanges(id) ==
    /\ changes < MaxChanges
    /\ changes' = changes + 1
    /\ \/ \E i \in DOMAIN kids[id] : kids' = [kids EXCEPT ![id] = RemoveAt(@, i)]
       \/ \E e \in Pool, i \in 1 .. Len(kids[id]) + 1 :
            /\ Len(kids[id]) < Len(Digits)
            /\ \A b \in DOMAIN kids : e \notin Range(kids[b])
            /\ kids' = [kids EXCEPT ![id] = InsertAt(@, i, e)]
    /\ focus' = IF \E b \in DOMAIN kids : \E e \in Range(kids'[b]) : e.id = focus
                THEN focus ELSE NoElement
    /\ UNCHANGED op /\ Disturb(IF focus' = focus THEN {} ELSE Callers)
    /\ UNCHANGED <<pid, iconic, foreground, held>>

-----------------------------------------------------------------------------
Init ==
    /\ kids \in Desktops
    /\ pid = [w \in Windows |-> 1]
    /\ iconic = {}
    /\ foreground = NoWindow
    /\ focus = NoElement
    /\ held = {}
    /\ op = [c \in Callers |-> NoCall]
    /\ disturbed = [c \in Callers |-> FALSE]
    /\ changes = 0

\* execute(): the operations a guest may ask for.
Execute(c) ==
    \/ \E w \in Windows : Activate(c, w)
    \/ \E call \in ElementCalls : AskElement(c, call)
    \/ \E k \in KeyCalls :
        \/ Len(k.keys) = 1 /\ KeyPress(c, k.keys[1], k.window)
        \/ KeyCombo(c, k.keys, k.window)

CallStep(c) ==
    \/ Find(c) \/ InvokePattern(c) \/ ValuePattern(c) \/ ScrollPattern(c)
    \/ RaiseWindow(c) \/ Aim(c) \/ SendMouse(c) \/ SetFocus(c) \/ SendKeyEvent(c)

Environment ==
    \/ \E w \in Windows : UserRaises(w) \/ UserMinimises(w) \/ WindowGoes(w)
    \/ \E id \in DOMAIN kids : UIChanges(id)

Next == (\E c \in Callers : Execute(c) \/ CallStep(c)) \/ Environment
Spec == Init /\ [][Next]_vars

-----------------------------------------------------------------------------
(* Properties.                                                             *)

\* An identifier that earlier siblings do not claim: a text no sibling of its
\* role before it carries, or a number where they all have its control type.
Clear(list, i) ==
    LET ident == BuildIdentifier(list, i)
        rivals == {j \in 1 .. i - 1 : RoleOf(list[j].type) = RoleOf(list[i].type)} IN
    /\ ~IsCut(ident)
    /\ IF list[i].aid # NoText \/ list[i].name # NoText
       THEN ~IsIndex(ident) /\ \A j \in rivals : ident \notin {list[j].aid, list[j].name}
       ELSE \A j \in rivals : list[j].type = list[i].type

\* In a tree that did not change, every path get_ui_tree shows leads back to
\* the element it was made for, whenever the identifiers along it are clear:
\* buildElement and findElementByPath count and compare alike.
PathsResolve ==
    \A w \in {x \in Windows : IsWindow(x)} :
        \A p \in Serialize(kids, BuildTree(kids, w)) :
            (\A s \in Range(p.line) : Clear(kids[s[1]], s[2]))
                => FindElementByPath(w, p.path) = p.id

Carries(e, part) == RoleOf(e.type) = part.role /\ part.ident \in {e.aid, e.name}
Unmistakable(part) ==
    /\ ~IsIndex(part.ident) /\ ~IsCut(part.ident)
    /\ \A e, f \in Everything : Carries(e, part) /\ Carries(f, part) => e = f

\* However the trees change between get_ui_tree and the call, a path of
\* identifiers only one element carries finds that element or none, unless the
\* handle of the window went to another process.
MeantIsFound ==
    \A c \in Callers :
        (/\ op[c].got # NoElement
         /\ op[c].meant[1] = pid[op[c].window]
         /\ \A part \in Range(op[c].path) : Unmistakable(part))
            => op[c].got = op[c].meant[2]

\* No key stays down behind a call: what is held, some call in progress will
\* release, however the calls of two workers interleave and whatever keys a
\* combination repeats.
WillRelease(c) == {key \in held : At(c, "keys") /\ Up(key) \in Range(op[c].todo)}
HeldIsReleased == held \subseteq UNION {WillRelease(c) : c \in Callers}

\* Input meets the window it is for: when a click is about to be sent, its
\* window is in front and the point on the screen, keys for a window find it
\* in front, and set_value types into its element, unless somebody else changed
\* the desktop during the call or Windows refused a request of it.
InputMeetsTarget ==
    \A c \in Callers : ~disturbed[c] =>
        /\ (At(c, "send") /\ op[c].call # "scroll")
            => foreground = op[c].window /\ op[c].bounds = "screen"
        /\ (At(c, "keys") /\ op[c].window # NoWindow) => foreground = op[c].window
        /\ (At(c, "keys") /\ op[c].call = "set_value") => focus = op[c].got
=============================================================================
