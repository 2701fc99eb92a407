--------------------------- MODULE ConfigDocument ---------------------------
(***************************************************************************)
(* The global configuration file and everything that writes it: the        *)
(* settings page (one module at a time, against a revision), the MCP       *)
(* management calls, the skill switch, the reset, a person's text editor   *)
(* and a restart of the process (backend/app/config, services/             *)
(* config_service.py, services/mcp_service.py, tools/mcp/config.py,        *)
(* services/skill_service.py).                                             *)
(*                                                                         *)
(* The API functions never await, so each runs as one step of the event    *)
(* loop.  A document is what the TOML says: a module may be written below  *)
(* `config` or, as older versions did, at the top; a server below          *)
(* mcp.servers or below mcp_servers.  A secret is absent, a reference to   *)
(* the environment variable TOKEN, or a literal.                           *)
(***************************************************************************)
EXTENDS Naturals

CONSTANTS Pages,       \* settings pages open in a browser
          Ids,         \* identifiers of MCP servers
          ConfigBounds \* records [calls, outside, looks]: how many changes come through
                       \* the API, how many from a person, the environment or a
                       \* restart, and how often a page is read

VARIABLES doc,         \* the file config.toml
          backup,      \* config.toml.bak
          tracker,     \* ConfigRevisionTracker: revision and digest last seen
          page,        \* what each page was shown: revision, document, process
          token,       \* the environment variable TOKEN
          life,        \* number of restarts
          did,         \* the operation of the last step, what and who it names
          left         \* the bounds not used yet

cvars == <<doc, backup, tracker, page, token, life, did, left>>

Modules  == {"agent", "tools", "skills"}
Visible  == {"agent", "tools"}                 \* USER_VISIBLE_MODULE_KEYS
Absent   == "absent"
Valid    == {"default", "new"}                 \* what the Pydantic models accept
Drafts   == Valid \union {"bad"}               \* objects; "odd" is not an object
Nowhere  == [m \in Modules |-> Absent]
NoServer == [type |-> "none", headers |-> "none", env |-> "none", on |-> FALSE]
None     == [i \in Ids |-> NoServer]
Has(servers) == {i \in Ids : servers[i] # NoServer}

\* A document with no key at all, and the read-only template.
Empty    == [ok |-> TRUE, top |-> Nowhere, canon |-> Nowhere, version |-> FALSE, rev |-> 0,
             servers |-> None, legacy |-> None, hooks |-> FALSE]
Template == [Empty EXCEPT !.top = [m \in Modules |-> "default"]]

-----------------------------------------------------------------------------
(* Reading the document.                                                   *)

\* The value a module is read from: an object below `config`, else an object
\* at the top, else whatever `config` holds.
Pick(d, m) ==
  IF d.canon[m] \in Drafts THEN d.canon[m]
  ELSE IF d.top[m] \in Drafts THEN d.top[m] ELSE d.canon[m]

\* The effective module: an invalid one is replaced by the defaults, and a file
\* that does not parse configures nothing.
Module(d, m) == IF d.ok /\ Pick(d, m) \in Valid THEN Pick(d, m) ELSE "default"

\* ${TOKEN} is replaced when it is set and stays as written when it is not.
Interpolate(s) ==
  LET value(x) == IF x = "ref" /\ token # "unset" THEN token ELSE x
  IN  [s EXCEPT !.headers = value(@), !.env = value(@)]

\* The canonical form of an entry: interpolated, without the other transport's
\* fields.
ToCanonical(s) ==
  IF s.type = "stdio" THEN [Interpolate(s) EXCEPT !.headers = "none"]
  ELSE [Interpolate(s) EXCEPT !.env = "none"]

\* A section mcp counts only when it states a version; otherwise mcp_servers,
\* when it has entries; otherwise there are no servers.
Source(d) == IF d.version THEN "mcp" ELSE IF Has(d.legacy) # {} THEN "mcp_servers" ELSE "empty"

Catalog(d) ==
  LET raw == CASE Source(d) = "mcp" -> d.servers
               [] Source(d) = "mcp_servers" -> d.legacy
               [] OTHER -> None
  IN  [i \in Ids |-> Interpolate(raw[i])]

CatalogRevision(d) == IF Source(d) = "empty" THEN 0 ELSE d.rev

-----------------------------------------------------------------------------
(* Rewriting the document.                                                 *)

\* Entries of mcp_servers move below mcp.servers unless their name is taken.
Promote(d) ==
  IF Has(d.legacy) = {} THEN d
  ELSE [d EXCEPT !.servers = [i \in Ids |-> IF @[i] # NoServer THEN @[i] ELSE ToCanonical(d.legacy[i])],
                 !.version = TRUE, !.legacy = None]

\* Mutant: what stands at the top of the file is not taken over.
StoredBelow(d) ==
  [Empty EXCEPT !.canon = [m \in Modules |-> IF d.canon[m] \in Valid THEN d.canon[m] ELSE "default"],
                !.version = TRUE, !.rev = CatalogRevision(d),
                !.servers = [i \in Ids |-> ToCanonical(Catalog(d)[i])],
                !.hooks = d.hooks]

\* The normalised document as it is stored: every module below `config`, invalid
\* ones as defaults, the servers of the catalogue in canonical form.
Stored(d) ==
  [Empty EXCEPT !.canon = [m \in Modules |-> Module(d, m)],
                !.version = TRUE, !.rev = CatalogRevision(d),
                !.servers = [i \in Ids |-> ToCanonical(Catalog(d)[i])],
                !.hooks = d.hooks]

MergeModule(d, m, v) == [Stored(Promote(d)) EXCEPT !.canon[m] = v]

\* One entry of mcp.servers replaced; the rest of the file is left as it was.
WithServer(d, i, s) ==
  LET p == Promote(d)
  IN  [p EXCEPT !.servers[i] = s, !.version = TRUE, !.rev = CatalogRevision(p) + 1]

\* A secret of the form merged into the stored one: the mask and a key the form
\* does not mention keep it, "clear" removes it.
MergeSecret(old, new) == CASE new \in {"mask", "none"} -> old
                           [] new = "clear" -> "none"
                           [] OTHER -> new

Merged(i, body) ==
  LET old == Catalog(doc)[i]
  IN  [body EXCEPT !.headers = MergeSecret(old.headers, @), !.env = MergeSecret(old.env, @)]

-----------------------------------------------------------------------------
(* The revision tracker.                                                   *)

Unread  == [Empty EXCEPT !.ok = FALSE, !.rev = 1]     \* no digest taken yet
\* Mutant: a file that has changed since keeps its revision.
CurrentSeen == [tracker EXCEPT !.seen = doc]
Current == [rev  |-> IF tracker.seen \notin {Unread, doc} THEN tracker.rev + 1 ELSE tracker.rev,
            seen |-> doc]
Bumped(d) == [rev |-> Current.rev + 1, seen |-> d]

-----------------------------------------------------------------------------
ConfigInit ==
  /\ doc = Template
  /\ backup = Empty
  /\ tracker = [rev |-> 0, seen |-> Unread]
  /\ page = [p \in Pages |-> [rev |-> 0, doc |-> Unread, life |-> 0]]
  /\ token \in {"unset", "t1"}
  /\ life = 0
  /\ did = [op |-> "start", on |-> "none", by |-> "none"]
  /\ left \in ConfigBounds

Did(op, on, by) == did' = [op |-> op, on |-> on, by |-> by]

Spend(kind) == left[kind] > 0 /\ left' = [left EXCEPT ![kind] = @ - 1]

Call(op, on, by) == Did(op, on, by) /\ Spend("calls")
Outside(op)      == Did(op, "none", "none") /\ Spend("outside")

\* atomic_write_toml: the previous file becomes the backup.
Write(d) == doc' = d /\ backup' = doc

\* list_modules: a page is shown the document and its revision.
ListModules(p) ==
  /\ doc.ok
  /\ page[p] # [rev |-> Current.rev, doc |-> doc, life |-> life]
  /\ tracker' = Current
  /\ page' = [page EXCEPT ![p] = [rev |-> Current.rev, doc |-> doc, life |-> life]]
  /\ Did("list", "none", p)
  /\ Spend("looks")
  /\ UNCHANGED <<doc, backup, token, life>>

\* update_module: refused when the page's revision is not the current one.  The
\* page goes on with the revision and the document of the answer.
UpdateModule(p, m, v) ==
  /\ page[p].doc # Unread
  /\ page[p].rev = Current.rev
  /\ doc.ok
  /\ v \in Valid
  /\ Call("save", m, p)
  /\ Write(MergeModule(doc, m, v))
  /\ tracker' = Bumped(doc')
  /\ page' = [page EXCEPT ![p] = [rev |-> tracker'.rev, doc |-> doc', life |-> life]]
  /\ UNCHANGED <<token, life>>

\* A save that answers with an error: the revision is old, the value invalid or
\* the file unreadable.  Only the tracker has looked at the file.
UpdateRefused(p, v) ==
  /\ page[p].doc # Unread
  /\ page[p].rev # Current.rev \/ v \notin Valid \/ ~doc.ok
  /\ tracker # Current
  /\ tracker' = Current
  /\ Did("refused", "none", p)
  /\ UNCHANGED <<doc, backup, page, token, life, left>>

\* The MCP management calls.  They write through _write_workspace_config, which
\* bumps the tracker.
SaveDocument(d, op, i) ==
  /\ doc.ok
  /\ Call(op, i, "none")
  /\ Write(d)
  /\ tracker' = [rev |-> tracker.rev + 1, seen |-> d]
  /\ UNCHANGED <<page, token, life>>

Bodies == {[type |-> "http", headers |-> h, env |-> "none", on |-> b] :
              h \in {"mask", "ref", "lit"}, b \in BOOLEAN}
          \union {[type |-> "stdio", headers |-> "none", env |-> e, on |-> TRUE] : e \in {"mask", "clear"}}

UpsertServer(i, body) == SaveDocument(WithServer(doc, i, Merged(i, body)), "upsert", i)

DeleteServer(i) ==
  /\ i \in Has(Catalog(doc))
  /\ SaveDocument(WithServer(doc, i, NoServer), "delete", i)

EnableServer(i, enabled) ==
  /\ i \in Has(Catalog(doc))
  /\ SaveDocument(WithServer(doc, i, [ToCanonical(Catalog(doc)[i]) EXCEPT !.on = enabled]), "enable", i)

\* SkillService.set_enabled: the effective skill settings with one skill added to
\* or taken from the disabled ones go to the top-level key of "the whole file",
\* which is read as JSON: a TOML file never is, and reads as empty.  The tracker
\* is not told.
ReadAsJson == Empty

SetSkillEnabled(enabled) ==
  /\ Call("skill", "skills", "none")
  /\ Write([ReadAsJson EXCEPT !.top["skills"] = IF enabled THEN "default" ELSE "new"])
  /\ UNCHANGED <<tracker, page, token, life>>

\* ConfigService.reset with reset_global_config.
ResetGlobal ==
  /\ Call("reset", "none", "none")
  /\ Write(Template)
  /\ tracker' = [rev |-> tracker.rev + 1, seen |-> Template]
  /\ UNCHANGED <<page, token, life>>

\* A person edits the file between two calls: a module in either place, a server
\* in either place, the version of mcp, a key nobody knows, or a syntax error.
Handwritten ==
  {[doc EXCEPT !.canon[m] = v] : m \in {"agent"}, v \in {"new", "bad", "odd"}}
  \union {[doc EXCEPT !.top[m] = v] : m \in {"agent"}, v \in {"new", "odd"}}
  \union {[doc EXCEPT !.servers[i] = [type |-> "http", headers |-> "ref", env |-> "none", on |-> TRUE]] : i \in Ids}
  \union {[doc EXCEPT !.legacy[i] = [type |-> "stdio", headers |-> "none", env |-> "lit", on |-> b]] : i \in Ids, b \in BOOLEAN}
  \union {[doc EXCEPT !.version = TRUE], [doc EXCEPT !.hooks = TRUE], [doc EXCEPT !.ok = FALSE]}

EditByHand(d) ==
  /\ doc.ok
  /\ d # doc
  /\ Outside("hand")
  /\ doc' = d
  /\ UNCHANGED <<backup, tracker, page, token, life>>

\* load_dotenv never overrides: TOKEN gets a value once, or another one when the
\* process is started again.
SetToken ==
  /\ token = "unset"
  /\ Outside("env")
  /\ token' = "t1"
  /\ UNCHANGED <<doc, backup, tracker, page, life>>

Restart(t) ==
  /\ Outside("restart")
  /\ life' = life + 1
  /\ token' = t
  /\ tracker' = [rev |-> 0, seen |-> Unread]
  /\ UNCHANGED <<doc, backup, page>>

ConfigNext ==
  \/ \E p \in Pages : ListModules(p)
  \/ \E p \in Pages, m \in Visible, v \in Drafts : UpdateModule(p, m, v)
  \/ \E p \in Pages, v \in Drafts : UpdateRefused(p, v)
  \/ \E i \in Ids, body \in Bodies : UpsertServer(i, body)
  \/ \E i \in Ids : DeleteServer(i)
  \/ \E i \in Ids, b \in BOOLEAN : EnableServer(i, b)
  \/ \E b \in BOOLEAN : SetSkillEnabled(b)
  \/ ResetGlobal
  \/ \E d \in Handwritten : EditByHand(d)
  \/ SetToken
  \/ \E t \in {"unset", "t1", "t2"} : Restart(t)

ConfigSpec == ConfigInit /\ [][ConfigNext]_cvars

-----------------------------------------------------------------------------
(* What the edits promise.                                                 *)

\* An entry written in both places while mcp has no version: mcp_servers is in
\* force until Promote makes the other one count.
Doubled(d) == IF d.version THEN {} ELSE Has(d.servers) \intersect Has(d.legacy)

\* A page's save is accepted only on the document it was shown, whatever other
\* pages, calls and editors did in between (update_module, tracker), as long as
\* the process that showed it still runs.
SaveIsFresh == did'.op = "save" /\ page[did'.by].life = life => page[did'.by].doc = doc
StaleSavesConflict == [][SaveIsFresh]_cvars

\* What a step leaves of a document apart from what it names: the other modules
\* as they are in force, the keys nobody knows, and the servers in force (but
\* for those written twice).
KeepsTheRest(before, after, named) ==
  /\ \A m \in Modules \ {named} : Module(after, m) = Module(before, m)
  /\ after.hooks = before.hooks
  /\ \A i \in Has(Catalog(before)) \ (Doubled(before) \union {named}) : ToCanonical(Catalog(after)[i]) = ToCanonical(Catalog(before)[i])

\* A save of a module or of a server changes only that module or server.
EditIsLocal ==
  did'.op \in {"save", "upsert", "delete", "enable"} => KeepsTheRest(doc, doc', did'.on)
EditsAreLocal == [][EditIsLocal]_cvars

\* The same of every save of a module, the switch of a skill included.
SaveKeepsTheRest == did'.op \in {"save", "skill"} => KeepsTheRest(doc, doc', did'.on)
SavesKeepTheRest == [][SaveKeepsTheRest]_cvars
=============================================================================
