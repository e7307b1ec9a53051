-------------------------------- MODULE Mcp --------------------------------
(***************************************************************************)
(* One client of the Model Context Protocol, on the MCP port ("tcp":       *)
(* MCPServer::OnLine(), which cuts a line into JSON objects) or on the web *)
(* port ("http": WebServer::OnLine(), one object per request), and the     *)
(* evaluator of its handler thread, McpEval, with the plugins that offer   *)
(* the tools.  McpEval behind a shell is in GenericShell.                  *)
(*                                                                         *)
(* A JSON object is known by its text, a sequence of characters of which   *)
(* only braces, quotes and backslashes matter; Messages is the table of    *)
(* the objects the client knows, and stands for the JSON parser (jsoncpp). *)
(* A line is a sequence of objects and blanks that may end in a fragment.  *)
(***************************************************************************)
EXTENDS Naturals, Sequences, FiniteSets, SequencesExt

CONSTANTS Transports,  \* where the client may connect: "tcp", "http"
          Messages,    \* the JSON objects of the client
          Blank,       \* the text of what may separate two of them
          Fragment,    \* the text of an object that is cut off
          MaxItems,    \* objects and fragments of the client; also the
                       \* objects, blanks and fragments in one line
          MaxLines     \* lines, or HTTP requests, of the client

Methods == {"initialize", "initialized", "cancelled", "ping", "tools/list",
            "resources/list", "resources/read", "tools/call", "other"}

\* id 0 is a message without one; arg is the tool or the uri in the params,
\* "bad" stands for params in which they cannot be looked up (jsoncpp throws).
MessageType == [text: Seq(STRING), jsonrpc: BOOLEAN, method: Methods, id: Nat,
                arg: STRING]

\* The plugins that get_evaluator() registers, and the tools they describe
\* (two of the sixteen of McpPlugAtomSpace).
Plugins == <<"echo", "atomspace">>
ToolsOf == [echo |-> <<"echo", "time">>, atomspace |-> <<"version", "makeAtom">>]
AllTools == ToolsOf["echo"] \o ToolsOf["atomspace"]
Documents == {"introduction", "atomspace-guide"}

ASSUME McpAssumption ==
  /\ Transports \subseteq {"tcp", "http"}
  /\ Messages \subseteq MessageType
  /\ \A m, n \in Messages : m.text = n.text => m = n
  /\ MaxItems \in Nat /\ MaxLines \in Nat

Items == {m.text : m \in Messages} \cup {Blank, Fragment}

VARIABLES
  transport, \* the port that the client is connected to
  pc,        \* the handler thread
  given,     \* history: the objects and fragments sent, in order
  lines,     \* lines sent
  buffer,    \* what is left of the line in OnLine()
  plugins,   \* McpEval::_plugins
  toolmap,   \* McpEval::_tool_to_plugin: tool -> plugin, "none" if absent
  done,      \* McpEval::_done
  result,    \* McpEval::_result
  evaluated, \* history: the texts given to eval_expr()
  replies    \* history: what was sent to the client

evalvars == <<plugins, toolmap, done, result>>
vars == <<transport, pc, given, lines, buffer, evalvars, evaluated, replies>>

\* A reply: its id, "result" or "error", and the tools that it lists.
Reply(id, body, tools) == [id |-> id, body |-> body, tools |-> tools]
NoReply == Reply(0, "none", <<>>)

ReplyType == [id: Nat, body: {"result", "error"}, tools: Seq(Range(AllTools))]

TypeOK ==
  /\ transport \in Transports
  /\ pc \in {"connect", "read", "split"}
  /\ given \in Seq(Items \cup {<<>>})
  /\ lines \in 0 .. MaxLines
  /\ buffer \in Seq(STRING)
  /\ plugins \in Seq(Range(Plugins))
  /\ toolmap \in [Range(AllTools) -> Range(Plugins) \cup {"none"}]
  /\ done \in BOOLEAN
  /\ result \in ReplyType \cup {NoReply}
  /\ evaluated \in Seq(Seq(STRING))
  /\ replies \in Seq(ReplyType)

Init ==
  /\ transport \in Transports
  /\ pc = "connect"
  /\ given = <<>> /\ lines = 0 /\ buffer = <<>>
  /\ plugins = <<>>
  /\ toolmap = [t \in Range(AllTools) |-> "none"]
  /\ done = FALSE /\ result = NoReply
  /\ evaluated = <<>> /\ replies = <<>>

-----------------------------------------------------------------------------
(* McpEval *)

\* register_plugin(): appended to the list, and the map gets its tools.
RegisterPlugin(p, map) ==
  [t \in DOMAIN map |-> IF t \in Range(ToolsOf[p]) THEN p ELSE map[t]]

\* get_evaluator() registers both plugins at every call.
get_evaluator ==
  /\ plugins' = plugins \o Plugins
  /\ toolmap' = RegisterPlugin(Plugins[2], RegisterPlugin(Plugins[1], toolmap))

\* The tools that the plugins describe, in the order of the plugins.
Listed(ps) == FlattenSeq([i \in DOMAIN ps |-> ToolsOf[ps[i]]])

\* publish_resource(): the file of a document may be unreadable.
PublishResource == {"result", "error"}

\* resources/read
ReadResource(uri) == IF uri \in Documents THEN PublishResource ELSE {"error"}

\* invoke_tool(): the plugin's answer, also when it reports an error or
\* throws, is a result; one that is not JSON is an error.  McpPlugEcho always
\* answers with JSON.
InvokeTool(p) == IF p = "echo" THEN {"result"} ELSE {"result", "error"}

\* tools/call
CallTool(tool, map) ==
  IF tool \in DOMAIN map /\ map[tool] # "none"
  THEN InvokeTool(map[tool])
  ELSE {"error"}

\* Only these two methods look into the params.
Throws(m) == m.arg = "bad" /\ m.method \in {"resources/read", "tools/call"}

\* The replies that eval_expr() may give to a message with "jsonrpc".
Dispatch(m, ps, map) ==
  CASE Throws(m) -> {Reply(0, "error", <<>>)}
    [] m.method \in {"initialize", "ping", "resources/list"} ->
         {Reply(m.id, "result", <<>>)}
    [] m.method = "initialized" -> {Reply(0, "result", <<>>)}
    [] m.method = "tools/list" -> {Reply(m.id, "result", Listed(ps))}
    [] m.method = "resources/read" ->
         {Reply(m.id, b, <<>>) : b \in ReadResource(m.arg)}
    [] m.method = "tools/call" ->
         {Reply(m.id, b, <<>>) : b \in CallTool(m.arg, map)}
    [] m.method = "cancelled" -> {NoReply}
    [] OTHER -> {Reply(m.id, "error", <<>>)}

Parses(text) == \E m \in Messages : m.text = text
Parse(text) == CHOOSE m \in Messages : m.text = text

\* eval_expr(), after begin_eval(): the outcomes as pairs <<_done, _result>>.
\* An empty text leaves both alone; one that does not parse, and one without
\* "jsonrpc", get a result but not _done.
eval_expr(text, ps, map) ==
  IF text = <<>> THEN {<<FALSE, result>>}
  ELSE IF ~Parses(text) \/ ~Parse(text).jsonrpc
  THEN {<<FALSE, Reply(0, "error", <<>>)>>}
  ELSE {<<TRUE, r>> : r \in Dispatch(Parse(text), ps, map)}

\* Mutant: begin_eval() and poll_result() leave _done as it is.
Evaluate_StaleDone(text, ps, map) ==
  /\ evaluated' = Append(evaluated, text)
  /\ \E o \in eval_expr(text, ps, map) :
       /\ result' = o[2]
       /\ done' = (done \/ o[1])
       /\ replies' = IF done' /\ o[2] # NoReply THEN Append(replies, o[2]) ELSE replies

\* begin_eval(), eval_expr(), poll_result() and Send(), as both callers do:
\* an empty result sends nothing.
Evaluate(text, ps, map) ==
  /\ evaluated' = Append(evaluated, text)
  /\ \E o \in eval_expr(text, ps, map) :
       /\ result' = o[2]
       /\ replies' = IF o[1] /\ o[2] # NoReply THEN Append(replies, o[2]) ELSE replies
  /\ done' = FALSE

-----------------------------------------------------------------------------
(* MCPServer::OnLine(): the JSON objects of a line. *)

\* The scan for the end of an object: the brace count, whether the scan is
\* inside a string or behind a backslash, and the characters it has taken.
Scan0 == [count |-> 0, string |-> FALSE, escape |-> FALSE, pos |-> 0, end |-> FALSE]

\* Mutant: braces are counted inside of strings, too.
ScanChar_InStrings(s, c) ==
  IF s.end THEN s
  ELSE LET n == [s EXCEPT !.pos = @ + 1]
       IN  CASE c = "{" -> [n EXCEPT !.count = @ + 1]
             [] c = "}" -> [n EXCEPT !.count = @ - 1, !.end = s.count = 1]
             [] OTHER -> n

\* One character.
ScanChar(s, c) ==
  IF s.end THEN s
  ELSE LET n == [s EXCEPT !.pos = @ + 1]
       IN  CASE ~s.escape /\ c = "\\" -> [n EXCEPT !.escape = TRUE]
             [] ~s.escape /\ c = "\"" -> [n EXCEPT !.string = ~@]
             [] ~s.escape /\ ~s.string /\ c = "{" -> [n EXCEPT !.count = @ + 1]
             [] ~s.escape /\ ~s.string /\ c = "}" ->
                  [n EXCEPT !.count = @ - 1, !.end = s.count = 1]
             [] ~s.escape /\ ~s.string /\ c \notin {"{", "}"} -> n
             [] OTHER -> [n EXCEPT !.escape = FALSE]

Scan(text) == FoldLeft(ScanChar, Scan0, text)

\* The text without the blanks it begins with.
SkipBlanks(text) ==
  IF \A i \in DOMAIN text : text[i] = " " THEN <<>>
  ELSE SubSeq(text, CHOOSE i \in DOMAIN text :
                      text[i] # " " /\ \A j \in 1 .. i - 1 : text[j] = " ",
              Len(text))

\* One turn of the outer loop: the next object, or all that is left when
\* the braces do not match.
OnLine ==
  /\ pc = "split"
  /\ LET text == SkipBlanks(buffer)
         scan == Scan(text)
         take == IF scan.count = 0 THEN scan.pos ELSE Len(text)
     IN  \/ /\ text = <<>>
            /\ buffer' = <<>> /\ pc' = "read"
            /\ UNCHANGED <<evalvars, evaluated, replies>>
         \/ /\ text # <<>>
            /\ Evaluate(SubSeq(text, 1, take), plugins, toolmap)
            /\ buffer' = SubSeq(text, take + 1, Len(text))
            /\ pc' = IF scan.count = 0 THEN "split" ELSE "read"
            /\ UNCHANGED <<plugins, toolmap>>
  /\ UNCHANGED <<transport, given, lines>>

-----------------------------------------------------------------------------
\* MCPServer::OnConnection(); an HTTP client has no evaluator yet.
OnConnection ==
  /\ pc = "connect"
  /\ pc' = "read"
  /\ \/ transport = "tcp" /\ get_evaluator
     \/ transport = "http" /\ UNCHANGED <<plugins, toolmap>>
  /\ UNCHANGED <<transport, given, lines, buffer, done, result, evaluated, replies>>

\* The client sends a line; only its end may be a fragment.
SendLine ==
  /\ pc = "read" /\ transport = "tcp" /\ lines < MaxLines
  /\ \E n \in 1 .. MaxItems : \E items \in [1 .. n -> Items] :
       /\ \A i \in 1 .. n - 1 : items[i] # Fragment
       /\ Len(given) + n <= MaxItems
       /\ buffer' = FlattenSeq(items)
       /\ given' = given \o SelectSeq(items, LAMBDA t : t # Blank)
  /\ lines' = lines + 1
  /\ pc' = "split"
  /\ UNCHANGED <<transport, evalvars, evaluated, replies>>

\* The client posts one object, or asks with an empty body (GET):
\* WebServer::OnLine() gets the evaluator of the thread again and takes the
\* whole body.
PostBody ==
  /\ pc = "read" /\ transport = "http" /\ lines < MaxLines
  /\ \E t \in (Items \ {Blank}) \cup {<<>>} :
       /\ given' = Append(given, t)
       /\ get_evaluator
       /\ Evaluate(t, plugins', toolmap')
  /\ lines' = lines + 1
  /\ UNCHANGED <<transport, pc, buffer>>

Next == OnConnection \/ SendLine \/ PostBody \/ OnLine

Spec == Init /\ [][Next]_vars

-----------------------------------------------------------------------------
(* Properties *)

\* eval_expr() gets the objects that the client sent, whole and in order,
\* however they are put together into lines, and a fragment at the end of a
\* line does not reach into the next line: the brace counting of
\* MCPServer::OnLine() and the JSON grammar agree on where an object ends.
SplitExact ==
  /\ IsPrefix(evaluated, given)
  /\ pc = "read" => evaluated = given

\* The replies that are due: one for every message that is neither a
\* cancellation nor unreadable, with its id, in the order of the messages.
Answerable(text) ==
  Parses(text) /\ Parse(text).jsonrpc /\ Parse(text).method # "cancelled"
ReplyId(text) == IF Parse(text).method = "initialized" \/ Throws(Parse(text)) THEN 0
                 ELSE Parse(text).id
Due == LET texts == SelectSeq(evaluated, Answerable)
       IN  [i \in DOMAIN texts |-> ReplyId(texts[i])]

\* Each message is answered once and in order, with its own id; in
\* particular no answer kept in _result from an earlier message is sent
\* again for one that gets none.
AnsweredOnce == [i \in DOMAIN replies |-> replies[i].id] = Due

\* A tool that tools/list names can be called: the list of plugins and the
\* map from tools to plugins, which register_plugin() keeps, agree.
ListedCallable ==
  \A i \in DOMAIN replies : \A t \in Range(replies[i].tools) : toolmap[t] # "none"

\* The client can rely on what it is told: its messages are answered one by
\* one, and what an answer offers is there (McpEval.cc:122-425).
RepliesRight == TypeOK /\ AnsweredOnce /\ ListedCallable
============================================================================
