----------------------------- MODULE Statements -----------------------------
(***************************************************************************)
(* The life of an uploaded statement: upload, deletion and download of the *)
(* stored file (services/statement_service.py, services/account_service.py,*)
(* services/parsing/pipeline.py, api/statements.py).                       *)
(*                                                                         *)
(* A request is a process.  Its steps are what others can see of it or     *)
(* what it learns of them: a SELECT, a commit, a change on the disk.  One  *)
(* user is modelled; every query names the user it is for.  What parsing,  *)
(* categorization and the anomaly model do in detail is left to modules    *)
(* of their own: here they succeed, or fail as they may.                   *)
(***************************************************************************)
EXTENDS Naturals, Sequences

CONSTANTS Statement,   \* statement ids (uuid4) that uploads may draw
          Hint,        \* bank hints, also the display names of accounts
          Process,     \* requests that can be in flight together
          NoStatement,
          MaxAccounts  \* bound: rows of accounts

ASSUME StatementsAssumption ==
    /\ NoStatement \notin Statement
    /\ MaxAccounts \in Nat

VARIABLES accounts,   \* table accounts: their display names, by id 1, 2, ...
          table,      \* table statements: table[s] is a row, or NoRow
          content,    \* transactions and parse_failures of each statement
          files,      \* statements whose file is in upload_storage_dir
          audit,      \* rows of audit_log: <<action, statement>>
          tokens,     \* statements with a download token that is still valid
          born,       \* history: statements whose row was ever committed
          unlinked,   \* history: files a deletion has removed
          dead,       \* history: statements whose upload died or raised
          served,     \* history: statements whose file was handed out
          proc        \* proc[p]: progress of request p

disk == <<files, unlinked>>
links == <<audit, tokens, served>>
vars == <<accounts, table, content, disk, links, born, dead, proc>>

Settled == {"parsed_clean", "parsed_with_warnings", "failed_needs_manual"}

(* Account 0 is NULL.                                                      *)
Row == [status : {"pending"} \cup Settled, account : 0..MaxAccounts]

NoRow == [status |-> "none", account |-> 0]

(* rows: there are transactions, with this account_id; failures: there are *)
(* parse_failures of a row, or of the statement as a whole.                *)
Content == [rows : BOOLEAN, account : 0..MaxAccounts,
            failures : SUBSET {"row", "statement"}]

NoContent == [rows |-> FALSE, account |-> 0, failures |-> {}]

Upload == {"provision", "write", "commit", "parse", "link", "tier2", "tier2 commit",
           "tier3", "tier3 commit", "refit", "refresh", "answer"}

PC == Upload \cup {"idle", "raised", "unlink", "delete", "delete audit",
                   "resolve", "download audit", "serve"}

(* account, hint: what the upload is linked to; loaded: a tier has loaded  *)
(* transactions; expired: a rollback has expired the session's objects.    *)
Proc == [pc : PC, stmt : Statement \cup {NoStatement}, account : 0..MaxAccounts,
         hint : SUBSET Hint, loaded : BOOLEAN, expired : BOOLEAN]

Idle == [pc |-> "idle", stmt |-> NoStatement, account |-> 0, hint |-> {},
         loaded |-> FALSE, expired |-> FALSE]

Init ==
    /\ accounts = << >>
    /\ table = [s \in Statement |-> NoRow]
    /\ content = [s \in Statement |-> NoContent]
    /\ files = {} /\ unlinked = {}
    /\ audit = {} /\ tokens = {} /\ served = {}
    /\ born = {} /\ dead = {}
    /\ proc = [p \in Process |-> Idle]

Exists(s) == table[s] # NoRow

At(p, pc) == proc[p].pc = pc
Goto(p, pc) == proc' = [proc EXCEPT ![p].pc = pc]
Begin(p, pc, s, a, h) ==
    proc' = [proc EXCEPT ![p] =
             [Idle EXCEPT !.pc = pc, !.stmt = s, !.account = a, !.hint = h]]
Finish(p) == proc' = [proc EXCEPT ![p] = Idle]

(* The exception reaches the router: a 500, and an upload that is over.    *)
Raise(p) ==
    /\ Goto(p, "raised")
    /\ dead' = dead \cup {proc[p].stmt}

-----------------------------------------------------------------------------
(* POST /statements/upload: find or create the account.                    *)

Unused(s) == s \notin born \cup files /\ \A p \in Process : proc[p].stmt # s

(* No account, or one the user named and owns.                             *)
UploadStart(p, s, a) ==
    /\ At(p, "idle") /\ Unused(s)
    /\ Begin(p, "write", s, a, {})
    /\ UNCHANGED <<accounts, table, content, disk, links, born, dead>>

Named(h) == {a \in DOMAIN accounts : accounts[a] = h}

UploadByHint(p, s, h) ==
    /\ At(p, "idle") /\ Unused(s)
    /\ IF Named(h) = {} THEN Begin(p, "provision", s, 0, {h})
                        ELSE \E a \in Named(h) : Begin(p, "write", s, a, {})
    /\ UNCHANGED <<accounts, table, content, disk, links, born, dead>>

(* create_account; nothing keeps two requests from creating the same name. *)
Provision(p) ==
    /\ At(p, "provision") /\ Len(accounts) < MaxAccounts
    /\ \E h \in proc[p].hint : accounts' = Append(accounts, h)
    /\ Begin(p, "write", proc[p].stmt, Len(accounts) + 1, {})
    /\ UNCHANGED <<table, content, disk, links, born, dead>>

CreateAccount(h) ==
    /\ Len(accounts) < MaxAccounts
    /\ accounts' = Append(accounts, h)
    /\ UNCHANGED <<table, content, disk, links, born, dead, proc>>

(* The row is flushed (nobody sees it), the file written, then the commit. *)
Pending(p) == [status |-> "pending", account |-> proc[p].account]

(* Mutation: the row is committed first, the file is written later.        *)
WriteFileLate(p) ==
    /\ At(p, "write")
    /\ table' = [table EXCEPT ![proc[p].stmt] = Pending(p)]
    /\ born' = born \cup {proc[p].stmt}
    /\ Goto(p, "commit")
    /\ UNCHANGED <<accounts, content, disk, links, dead>>

WriteFile(p) ==
    /\ At(p, "write")
    /\ files' = files \cup {proc[p].stmt}
    /\ Goto(p, "commit")
    /\ UNCHANGED <<accounts, table, content, unlinked, links, born, dead>>

CommitStatement(p) ==
    /\ At(p, "commit")
    /\ table' = [table EXCEPT ![proc[p].stmt] = Pending(p)]
    /\ born' = born \cup {proc[p].stmt}
    /\ Goto(p, "parse")
    /\ UNCHANGED <<accounts, content, disk, links, dead>>

-----------------------------------------------------------------------------
(* Tier 1 (parse_statement): one commit for the rows, the failures and the *)
(* status.  It hits a statement that was deleted in the meantime with      *)
(* an UPDATE of no row or a foreign key to none, and raises.               *)

(* Mutation: only warnings count, not failed rows.                         *)
StatusOfLenient(rows, failures, warnings) ==
    CASE ~rows -> "failed_needs_manual"
      [] rows /\ warnings -> "parsed_with_warnings"
      [] OTHER -> "parsed_clean"

StatusOf(rows, failures, warnings) ==
    CASE ~rows -> "failed_needs_manual"
      [] rows /\ ("row" \in failures \/ warnings) -> "parsed_with_warnings"
      [] OTHER -> "parsed_clean"

AfterParse(p) == Goto(p, IF proc[p].account = 0 THEN "tier2" ELSE "link")

(* Mutation: the statement is merged back, wherever it has gone.           *)
ParseMerge(p) ==
    LET s == proc[p].stmt
    IN  /\ At(p, "parse")
        /\ \E rows, warnings \in BOOLEAN, failures \in SUBSET {"row", "statement"} :
            /\ content' = [content EXCEPT ![s] =
                 [rows |-> rows, account |-> 0, failures |-> failures]]
            /\ table' = [table EXCEPT ![s].status = StatusOf(rows, failures, warnings)]
        /\ AfterParse(p)
        /\ UNCHANGED <<accounts, disk, links, born, dead>>

Parse(p) ==
    LET s == proc[p].stmt
    IN  /\ At(p, "parse") /\ Exists(s)
        /\ \E rows, warnings \in BOOLEAN, failures \in SUBSET {"row", "statement"} :
            /\ content' = [content EXCEPT ![s] =
                 [rows |-> rows, account |-> 0, failures |-> failures]]
            /\ table' = [table EXCEPT ![s].status = StatusOf(rows, failures, warnings)]
        /\ AfterParse(p)
        /\ UNCHANGED <<accounts, disk, links, born, dead>>

(* Mutation: the failure is logged, the status is not set.                 *)
UnresolvableUnmarked(p) ==
    LET s == proc[p].stmt
    IN  /\ At(p, "parse") /\ Exists(s)
        /\ content' = [content EXCEPT ![s].failures = {"statement"}]
        /\ AfterParse(p)
        /\ UNCHANGED <<accounts, table, disk, links, born, dead>>

(* UnresolvableStructureError: a settled status and a logged reason.       *)
Unresolvable(p) ==
    LET s == proc[p].stmt
    IN  /\ At(p, "parse") /\ Exists(s)
        /\ content' = [content EXCEPT ![s].failures = {"statement"}]
        /\ table' = [table EXCEPT ![s].status = "failed_needs_manual"]
        /\ AfterParse(p)
        /\ UNCHANGED <<accounts, disk, links, born, dead>>

(* The statement is gone; or opening the PDF fails outside the try, or a   *)
(* parsed value does not fit its column (Numeric(14, 2)).                  *)
ParseRaise(p) ==
    /\ At(p, "parse")
    /\ Raise(p)
    /\ UNCHANGED <<accounts, table, content, disk, links, born>>

(* Mutation: the link of the transactions is skipped.                      *)
LinkForgotten(p) ==
    /\ At(p, "link")
    /\ Goto(p, "tier2")
    /\ UNCHANGED <<accounts, table, content, disk, links, born, dead>>

(* UPDATE transactions SET account_id: also fine if there are none.        *)
Link(p) ==
    /\ At(p, "link")
    /\ content' = [content EXCEPT ![proc[p].stmt].account =
                     IF content[proc[p].stmt].rows THEN proc[p].account ELSE @]
    /\ Goto(p, "tier2")
    /\ UNCHANGED <<accounts, table, disk, links, born, dead>>

-----------------------------------------------------------------------------
(* Tiers 2 and 3: load the transactions, write their categories, commit.   *)
(* If the statement is deleted in between, the UPDATE raises.              *)

Load(p) ==
    /\ \/ At(p, "tier2") /\ proc' = [proc EXCEPT ![p].pc = "tier2 commit",
                                    ![p].loaded = content[proc[p].stmt].rows]
       \/ At(p, "tier3") /\ \E some \in {FALSE, content[proc[p].stmt].rows} :
            proc' = [proc EXCEPT ![p].pc = "tier3 commit", ![p].loaded = some]
    /\ UNCHANGED <<accounts, table, content, disk, links, born, dead>>

Lost(p) == proc[p].loaded /\ ~content[proc[p].stmt].rows

(* Tier 3 may have had no answer for any of them, and so nothing to write. *)
Categorize(p) ==
    /\ \/ At(p, "tier2 commit") /\ ~Lost(p) /\ Goto(p, "tier3")
       \/ At(p, "tier3 commit") /\ Goto(p, "refit")
    /\ UNCHANGED <<accounts, table, content, disk, links, born, dead>>

(* Also when the promotion job at the end of Tier 3 fails (module          *)
(* Categorization, PromoteFail): nothing catches it.                       *)
CategorizeRaise(p) ==
    /\ \/ At(p, "tier2 commit") /\ Lost(p)
       \/ At(p, "tier3 commit") /\ proc[p].loaded
    /\ Raise(p)
    /\ UNCHANGED <<accounts, table, content, disk, links, born>>

(* The refit of the anomaly model (module AnomalyFlags).  Its exceptions   *)
(* are swallowed, but the rollback expires every object of the session,    *)
(* current_user as well.                                                   *)
Refit(p) ==
    /\ At(p, "refit")
    /\ \E fails \in BOOLEAN :
        proc' = [proc EXCEPT ![p].pc = "refresh", ![p].expired = fails]
    /\ UNCHANGED <<accounts, table, content, disk, links, born, dead>>

Refresh(p) ==
    /\ At(p, "refresh")
    /\ IF Exists(proc[p].stmt) THEN Goto(p, "answer") /\ UNCHANGED dead ELSE Raise(p)
    /\ UNCHANGED <<accounts, table, content, disk, links, born>>

(* The router's audit row.  It asks for current_user.id, and an expired    *)
(* object cannot be loaded there: an attribute is not awaited.             *)
Answer(p) ==
    /\ At(p, "answer")
    /\ IF proc[p].expired
       THEN Raise(p) /\ UNCHANGED audit
       ELSE /\ audit' = audit \cup {<<"upload", proc[p].stmt>>}
            /\ Finish(p)
            /\ UNCHANGED dead
    /\ UNCHANGED <<accounts, table, content, disk, tokens, served, born>>

AnswerError(p) ==
    /\ At(p, "raised")
    /\ Finish(p)
    /\ UNCHANGED <<accounts, table, content, disk, links, born, dead>>

-----------------------------------------------------------------------------
(* DELETE /statements/{id}: select the row, unlink the file, delete the    *)
(* row and by cascade what hangs on it, write the audit row.               *)

DeleteLookup(p, s) ==
    /\ At(p, "idle") /\ Exists(s)
    /\ Begin(p, "unlink", s, 0, {})
    /\ UNCHANGED <<accounts, table, content, disk, links, born, dead>>

(* Mutation: the file is found to be outside the storage directory.        *)
UnlinkSkipped(p) ==
    /\ At(p, "unlink")
    /\ Goto(p, "delete")
    /\ UNCHANGED <<accounts, table, content, disk, links, born, dead>>

Unlink(p) ==
    /\ At(p, "unlink")
    /\ files' = files \ {proc[p].stmt}
    /\ unlinked' = unlinked \cup {proc[p].stmt}
    /\ Goto(p, "delete")
    /\ UNCHANGED <<accounts, table, content, links, born, dead>>

(* Mutation: no cascade.                                                   *)
DeleteRowOnly(p) ==
    /\ At(p, "delete")
    /\ table' = [table EXCEPT ![proc[p].stmt] = NoRow]
    /\ Goto(p, "delete audit")
    /\ UNCHANGED <<accounts, content, disk, links, born, dead>>

(* A Core DELETE: deleting twice is no error.                              *)
Delete(p) ==
    /\ At(p, "delete")
    /\ table' = [table EXCEPT ![proc[p].stmt] = NoRow]
    /\ content' = [content EXCEPT ![proc[p].stmt] = NoContent]
    /\ Goto(p, "delete audit")
    /\ UNCHANGED <<accounts, disk, links, born, dead>>

DeleteAudit(p) ==
    /\ At(p, "delete audit")
    /\ audit' = audit \cup {<<"delete", proc[p].stmt>>}
    /\ Finish(p)
    /\ UNCHANGED <<accounts, table, content, disk, tokens, served, born, dead>>

-----------------------------------------------------------------------------
(* POST .../download-url and GET .../file.  The file is opened only after  *)
(* the audit row is committed.                                             *)

Mint(s) ==
    /\ Exists(s)
    /\ tokens' = tokens \cup {s}
    /\ UNCHANGED <<accounts, table, content, disk, audit, served, born, dead, proc>>

TokenExpires(s) ==
    /\ tokens' = tokens \ {s}
    /\ UNCHANGED <<accounts, table, content, disk, audit, served, born, dead, proc>>

DownloadLookup(p, s) ==
    /\ At(p, "idle") /\ s \in tokens /\ Exists(s)
    /\ Begin(p, "resolve", s, 0, {})
    /\ UNCHANGED <<accounts, table, content, disk, links, born, dead>>

(* resolve_stored_file; the row can outlive the file.                      *)
Resolve(p) ==
    /\ At(p, "resolve")
    /\ IF proc[p].stmt \in files THEN Goto(p, "download audit") ELSE Finish(p)
    /\ UNCHANGED <<accounts, table, content, disk, links, born, dead>>

(* Mutation: the audit row is left for later.                              *)
DownloadAuditLater(p) ==
    /\ At(p, "download audit")
    /\ Goto(p, "serve")
    /\ UNCHANGED <<accounts, table, content, disk, links, born, dead>>

DownloadAudit(p) ==
    /\ At(p, "download audit")
    /\ audit' = audit \cup {<<"download", proc[p].stmt>>}
    /\ Goto(p, "serve")
    /\ UNCHANGED <<accounts, table, content, disk, tokens, served, born, dead>>

Serve(p) ==
    /\ At(p, "serve")
    /\ served' = served \cup ({proc[p].stmt} \cap files)
    /\ Finish(p)
    /\ UNCHANGED <<accounts, table, content, disk, audit, tokens, born, dead>>

-----------------------------------------------------------------------------
(* The process crashes, or the client hangs up, between two steps.         *)
Abort(p) ==
    /\ ~At(p, "idle")
    /\ dead' = IF proc[p].pc \in Upload THEN dead \cup {proc[p].stmt} ELSE dead
    /\ Finish(p)
    /\ UNCHANGED <<accounts, table, content, disk, links, born>>

Start(p) ==
    \E s \in Statement :
        \/ \E a \in {0} \cup DOMAIN accounts : UploadStart(p, s, a)
        \/ \E h \in Hint : UploadByHint(p, s, h)
        \/ DeleteLookup(p, s)
        \/ DownloadLookup(p, s)

Continue(p) ==
    \/ Provision(p) \/ WriteFile(p) \/ CommitStatement(p)
    \/ Parse(p) \/ Unresolvable(p) \/ ParseRaise(p) \/ Link(p)
    \/ Load(p) \/ Categorize(p) \/ CategorizeRaise(p)
    \/ Refit(p) \/ Refresh(p) \/ Answer(p) \/ AnswerError(p)
    \/ Unlink(p) \/ Delete(p) \/ DeleteAudit(p)
    \/ Resolve(p) \/ DownloadAudit(p) \/ Serve(p)

Next ==
    \/ \E p \in Process : Start(p) \/ Continue(p) \/ Abort(p)
    \/ \E h \in Hint : CreateAccount(h)
    \/ \E s \in Statement : Mint(s) \/ TokenExpires(s)

(* The event loop runs every coroutine that is ready; the database answers,*)
(* and the LLM client gives up after llm_request_timeout_seconds.          *)
Fairness == \A p \in Process : WF_vars(Continue(p))

Spec == Init /\ [][Next]_vars /\ Fairness

-----------------------------------------------------------------------------
(* Types, with the foreign keys: nothing hangs on a statement that is not  *)
(* there (models/statement.py, models/transaction.py, ON DELETE CASCADE).  *)
TypeOK ==
    /\ accounts \in Seq(Hint) /\ Len(accounts) <= MaxAccounts
    /\ table \in [Statement -> Row \cup {NoRow}]
    /\ content \in [Statement -> Content]
    /\ \A s \in Statement : ~Exists(s) => content[s] = NoContent
    /\ files \subseteq Statement /\ unlinked \subseteq Statement
    /\ audit \subseteq {"upload", "delete", "download"} \X Statement
    /\ tokens \subseteq born /\ served \subseteq born
    /\ born \subseteq Statement /\ dead \subseteq Statement
    /\ proc \in [Process -> Proc]

(* Every committed statement has its file, unless a deletion has begun:    *)
(* the file is written before the row is visible, and a crash in between   *)
(* leaves a file without a row and never a row without a file              *)
(* (statement_service.py:69-77).                                           *)
FileBehindStatement ==
    \A s \in Statement : Exists(s) => s \in files \cup unlinked

(* A deletion leaves no file behind, wherever it dies and whatever upload, *)
(* download or other deletion overlaps with it: a file without a row is    *)
(* that of an upload which never committed (statement_service.py:126-140). *)
NoFileLeftBehind ==
    \A s \in files : Exists(s) \/ s \notin born

(* The status and what was stored with it tell the same story: what is not *)
(* yet parsed or could not be has no transactions, and only a statement    *)
(* without a failed row counts as clean (pipeline.py:55-96).               *)
StatusTellsContent ==
    \A s \in Statement :
        LET c == content[s]
        IN  /\ table[s].status = "pending" => c = NoContent
            /\ table[s].status = "failed_needs_manual" => ~c.rows
            /\ table[s].status = "parsed_with_warnings" => c.rows
            /\ table[s].status = "parsed_clean" => c.rows /\ "row" \notin c.failures

(* An upload that got as far as its audit row is settled, and its          *)
(* transactions carry the account of the statement: account_id is copied   *)
(* in a commit of its own, and an upload that died before it stays unlinked*)
(* (statement_service.py:81-87, models/transaction.py:35-43).              *)
UploadAudited ==
    \A s \in Statement :
        <<"upload", s>> \in audit /\ Exists(s) =>
            /\ table[s].status \in Settled
            /\ content[s].rows => content[s].account = table[s].account

(* No file leaves without a row in the audit log (api/statements.py:171).  *)
ServedAudited == \A s \in served : <<"download", s>> \in audit

(* A deleted statement never comes back, and a settled one is never parsed *)
(* again: not by an upload that is still at work when it is deleted.       *)
StatementOnlyMovesOn ==
    [][\A s \in Statement :
        /\ s \in born /\ ~Exists(s) => table'[s] = NoRow
        /\ table[s].status \in Settled => table'[s] \in {table[s], NoRow}]_vars

(* What the table, the disk and the transactions say of a statement.       *)
StateOf(s) ==
    IF s \notin born THEN "unborn" ELSE IF Exists(s) THEN table[s].status ELSE "deleted"

AbstractState == [s \in Statement |-> StateOf(s)]

AbstractKept == [s \in Statement |-> s \in born \cap files]

AbstractListed == [s \in Statement |-> content[s].rows]

Lifecycle == INSTANCE StatementLifecycle
    WITH state <- AbstractState, kept <- AbstractKept, listed <- AbstractListed

(* Uploads, deletions and downloads of several commits each, that overlap, *)
(* crash or raise at any point, implement the life of a statement: what    *)
(* they do to it looks like one step that appears, settles or removes it   *)
(* (statement_service.py:41-140).                                          *)
ImplementsLifecycle == Lifecycle!Spec

(* A statement does not stay pending, unless its upload died or raised.    *)
PendingSettles ==
    \A s \in Statement :
        table[s].status = "pending" ~> (table[s].status # "pending" \/ s \in dead)

(* "A modelling hiccup must never fail an upload"                          *)
(* (statement_service.py:92-94): once a refit has failed, an upload of a   *)
(* statement that is still there does not end in an error.                 *)
HiccupNeverFailsUpload ==
    \A p \in Process : At(p, "raised") /\ proc[p].expired => ~Exists(proc[p].stmt)

=============================================================================
