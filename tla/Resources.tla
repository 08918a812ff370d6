------------------------------ MODULE Resources ------------------------------
(***************************************************************************)
(* The resources of mcp_transport.py: the playbooks and the widgets of     *)
(* widgets/, which share one list and one read handler.                    *)
(*                                                                         *)
(* A URI is the sequence of its parts: scheme, name, and the marks "?" and *)
(* "#" with what follows each.  The names of the shipped playbooks and     *)
(* widgets hold no mark.                                                   *)
(***************************************************************************)
EXTENDS Naturals, SequencesExt

CONSTANTS Runbooks,  \* what get_playbook answers, by the playbook's name
          Widgets    \* WIDGETS, by name

ASSUME ResourcesAssumption == DOMAIN Runbooks \cup Widgets \subseteq STRING \ {"?", "#"}

PlaybookScheme == "autods://playbook/"
WidgetScheme == "ui://autods/"

PlaybookMimeType == "text/markdown"
WidgetMimeType == "text/html;profile=mcp-app"

(* csp: the origins of the pictures ride along.                            *)
Playbook(name) ==
  [kind |-> "playbook", name |-> name, mime |-> PlaybookMimeType, csp |-> FALSE]

Widget(name) == [kind |-> "widget", name |-> name, mime |-> WidgetMimeType, csp |-> TRUE]

WidgetUri(name) == <<WidgetScheme, name>>

(* What resources/list shows under each URI.                               *)
Listed ==
  [uri \in {<<PlaybookScheme, n>> : n \in DOMAIN Runbooks} \cup {WidgetUri(w) : w \in Widgets} |->
     IF uri[1] = WidgetScheme THEN Widget(uri[2]) ELSE Playbook(uri[2])]

----------------------------------------------------------------------------
Before(uri, mark) ==
  LET at == SelectInSeq(uri, LAMBDA part : part = mark)
  IN  IF at = 0 THEN uri ELSE SubSeq(uri, 1, at - 1)

AddressUpToQuery(uri) == Before(uri, "?")

Address(uri) == Before(Before(uri, "?"), "#")

(* resources/read, the widget tried first; kind is what the audit line,    *)
(* written before an unknown URI is refused, says of it.                   *)
ReadResource(uri) ==
  LET address == Address(uri)
      widgets == {w \in Widgets : WidgetUri(w) = address}
      names   == {n \in DOMAIN Runbooks : <<PlaybookScheme, n>> = address}
  IN  CASE widgets # {} -> [kind |-> "widget", contents |-> Widget(CHOOSE w \in widgets : TRUE)]
        [] widgets = {} /\ names # {} ->
             [kind |-> "playbook", contents |-> Playbook(CHOOSE n \in names : TRUE)]
        [] OTHER -> [kind |-> "unknown", contents |-> "error"]
=============================================================================
