---------------------------- MODULE MCAXProvider ----------------------------
(* Small instances of AXProvider for TLC: two windows, a container, and the  *)
(* identifiers that collide: texts that are numbers, texts with a slash, two *)
(* names alike, two control types of one role, and elements without a text.  *)
EXTENDS AXProvider, TLC

CONSTANTS c1, c2, w1, w2

Element(id, type, aid, name, caps) ==
    [id |-> id, type |-> type, aid |-> aid, name |-> name, caps |-> caps]

Field == Element("field", "Edit", "name", "", TRUE)
Save == Element("save", "Button", "", "Save", TRUE)
Open == Element("open", "Button", "", "Open", TRUE)
SaveAs == Element("save as", "SplitButton", "", "Save", TRUE)
One == Element("one", "Button", "", "1", TRUE)
Bare == Element("bare", "Button", "", "", TRUE)
Split == Element("split", "SplitButton", "", "", TRUE)
Ratio == Element("ratio", "Button", "", "a/b", TRUE)
Panel == Element("panel", "Group", "", "", FALSE)
Photo == Element("photo", "Image", "", "", FALSE)

Desktop(first, panel, second) == w1 :> first @@ w2 :> second @@ "panel" :> panel

MCDesktops ==
    { Desktop(<<Field, One, Panel>>, <<Photo, Bare, Split>>, <<Ratio>>),
      Desktop(<<Save, Open>>, <<>>, <<>>) }
MCPool == {SaveAs}
MCDigits == <<"0", "1", "2", "3", "4">>
MCKeyCalls ==
    { [keys |-> <<>>, window |-> w1], [keys |-> <<"Ctrl", "none">>, window |-> w1],
      [keys |-> <<"Ctrl">>, window |-> w1], [keys |-> <<"Ctrl", "Ctrl", "c">>, window |-> w2] }
MCCallers == {c1, c2}
MCWindows == {w1, w2}
MCOperations ==
    c1 :> {"click", "right_click", "set_value", "focus", "scroll"} @@
    c2 :> {"key_press", "key_combo", "activate"}
=============================================================================
