-------------------------- MODULE StatementsProofs --------------------------
(***************************************************************************)
(* Theorems about Statements, for any sets of statements and hints and any *)
(* number of requests that overlap, crash or raise: the invariants, that   *)
(* Statements implements StatementLifecycle, and what a pending statement  *)
(* can rely on.                                                            *)
(***************************************************************************)
EXTENDS Statements, TLAPS

(* Before the commit that makes the row visible, and after Tier 1.         *)
Uncommitted == {"provision", "write", "commit"}
Parsed == Upload \ (Uncommitted \cup {"parse"})

(* What a request in flight knows of its statement stays true while other  *)
(* requests work on the same one.                                          *)
Fits(r) ==
    LET s == r.stmt
    IN  /\ r.pc # "idle" => s \in Statement
        /\ r.pc \in Uncommitted => s \notin born
        /\ r.pc \notin Uncommitted \cup {"idle"} => s \in born
        /\ r.pc = "commit" => s \in files
        /\ r.pc = "delete" => s \notin files
        /\ r.pc \in Upload => <<"upload", s>> \notin audit
        /\ r.pc = "serve" => <<"download", s>> \in audit
        /\ r.pc = "parse" /\ Exists(s) =>
              table[s] = [status |-> "pending", account |-> r.account] /\ content[s] = NoContent
        /\ r.pc \in Parsed /\ Exists(s) =>
              table[s].status \in Settled /\ table[s].account = r.account
        /\ r.pc \in Parsed \ {"link"} /\ content[s].rows =>
              content[s].account = table[s].account

(* Two uploads never share a statement, and nobody knows of a statement    *)
(* whose row is not committed but the upload that will commit it.          *)
Pair(r, q) ==
    r.pc \in Upload /\ (q.pc \in Upload \/ (r.pc \in Uncommitted /\ q.pc # "idle"))
        => r.stmt # q.stmt

(* A statement is born before anything is on record about it.              *)
BornFirst ==
    /\ \A s \in Statement : Exists(s) \/ <<"upload", s>> \in audit => s \in born
    /\ unlinked \subseteq born

AllFit == \A p \in Process : Fits(proc[p])

Apart == \A p, q \in Process : p # q => Pair(proc[p], proc[q])

IInv ==
    /\ TypeOK
    /\ BornFirst
    /\ AllFit
    /\ Apart
    /\ FileBehindStatement
    /\ NoFileLeftBehind
    /\ StatusTellsContent
    /\ UploadAudited
    /\ ServedAudited

-----------------------------------------------------------------------------

LEMMA IdleType == Idle \in Proc /\ Idle.pc = "idle"
BY StatementsAssumption DEF Idle, Proc, PC

LEMMA InitIInv == Init => IInv
<1> SUFFICES ASSUME Init
             PROVE  IInv
  OBVIOUS
<1>1. accounts = <<>> /\ accounts \in Seq(Hint) /\ Len(accounts) = 0
  BY DEF Init
<1>2. Idle \in Proc
  BY IdleType
<1>3. \A s \in Statement : table[s] = NoRow /\ content[s] = NoContent
  BY DEF Init
<1>4. NoContent \in Content
  BY StatementsAssumption DEF NoContent, Content
<1>5. TypeOK
  BY <1>1, <1>2, <1>3, <1>4, StatementsAssumption DEF Init, TypeOK, Exists
<1>6. \A p \in Process : proc[p] = Idle /\ proc[p].pc = "idle"
  BY DEF Init, Idle
<1>7. AllFit /\ Apart
  BY <1>6 DEF AllFit, Apart, Fits, Pair, Upload, Uncommitted, Parsed
<1>8. NoRow.status = "none"
  BY DEF NoRow
<1>9. QED
  BY <1>3, <1>5, <1>7, <1>8 DEF Init, IInv, BornFirst, FileBehindStatement,
     NoFileLeftBehind, StatusTellsContent, UploadAudited, ServedAudited, Exists

(* Columns of a row, and of the content of a statement.                    *)
LEMMA Columns ==
    ASSUME TypeOK, NEW s \in Statement
    PROVE  /\ table[s] \in Row \cup {NoRow}
           /\ content[s] \in Content
           /\ Exists(s) => table[s] \in Row /\ table[s].status \in {"pending"} \cup Settled
           /\ ~Exists(s) => table[s].status = "none" /\ content[s] = NoContent
           /\ content[s].rows => Exists(s)
<1>1. table[s] \in Row \cup {NoRow} /\ content[s] \in Content
  BY DEF TypeOK
<1>2. NoRow.status = "none" /\ ~NoContent.rows
  BY DEF NoRow, NoContent
<1>3. \A x \in Row : x.status \in {"pending"} \cup Settled
  BY DEF Row
<1>4. QED
  BY <1>1, <1>2, <1>3 DEF TypeOK, Exists

-----------------------------------------------------------------------------
(* Steps that change one request and nothing that others rely on.          *)

LEMMA Quiet ==
    ASSUME IInv, NEW p \in Process, NEW r \in Proc,
           proc' = [proc EXCEPT ![p] = r],
           UNCHANGED <<table, content, disk, audit, served, born>>,
           accounts' \in Seq(Hint), Len(accounts') <= MaxAccounts,
           tokens' \subseteq born, dead' \subseteq Statement,
           Fits(r), \A q \in Process \ {p} : Pair(r, proc[q]) /\ Pair(proc[q], r)
    PROVE  IInv'
<1>1. TypeOK'
  BY DEF IInv, TypeOK, Exists, disk
<1>2. \A q \in Process : proc'[q] = IF q = p THEN r ELSE proc[q]
  BY DEF IInv, TypeOK
<1>3. AllFit'
  BY <1>2 DEF IInv, AllFit, Fits, Exists, disk
<1>4. Apart'
  BY <1>2 DEF IInv, Apart, Pair
<1>5. (BornFirst /\ FileBehindStatement /\ NoFileLeftBehind /\ StatusTellsContent
         /\ UploadAudited /\ ServedAudited)'
  BY DEF IInv, BornFirst, FileBehindStatement, NoFileLeftBehind, StatusTellsContent,
     UploadAudited, ServedAudited, Exists, disk
<1>6. QED
  BY <1>1, <1>3, <1>4, <1>5 DEF IInv

(* A request that goes on with its statement stays apart from the others.  *)
LEMMA Onward ==
    ASSUME IInv, NEW p \in Process, NEW r \in Proc, r.stmt = proc[p].stmt,
           proc[p].pc # "idle",
           r.pc \in Upload => proc[p].pc \in Upload,
           r.pc \in Uncommitted => proc[p].pc \in Uncommitted
    PROVE  \A q \in Process \ {p} : Pair(r, proc[q]) /\ Pair(proc[q], r)
<1>1. \A q \in Process \ {p} : Pair(proc[p], proc[q]) /\ Pair(proc[q], proc[p])
  BY DEF IInv, Apart
<1>2. QED
  BY <1>1 DEF Pair

(* Goto keeps all of a request but where it is.                            *)
LEMMA GotoKeeps ==
    ASSUME TypeOK, NEW p \in Process, NEW pc \in PC, Goto(p, pc)
    PROVE  \E r \in Proc :
              /\ proc' = [proc EXCEPT ![p] = r] /\ r.pc = pc
              /\ r.stmt = proc[p].stmt /\ r.account = proc[p].account
<1>1. proc[p] \in Proc
  BY DEF TypeOK
<1>2. [proc[p] EXCEPT !.pc = pc] \in Proc
  BY <1>1 DEF Proc
<1>3. proc' = [proc EXCEPT ![p] = [proc[p] EXCEPT !.pc = pc]]
  BY DEF Goto
<1>4. QED
  BY <1>1, <1>2, <1>3 DEF Proc

(* Finish and Abort forget the request.                                    *)
LEMMA IdleFits ==
    ASSUME IInv
    PROVE  /\ Idle \in Proc /\ Idle.pc = "idle" /\ Fits(Idle)
           /\ \A q \in Process : Pair(Idle, proc[q]) /\ Pair(proc[q], Idle)
<1>1. Idle \in Proc /\ Idle.pc = "idle"
  BY IdleType
<1>2. QED
  BY <1>1 DEF Fits, Pair, Upload, Uncommitted, Parsed

LEMMA BeginKeeps ==
    ASSUME TypeOK, NEW p \in Process, NEW pc \in PC, NEW s \in Statement,
           NEW a \in 0..MaxAccounts, NEW h \in SUBSET Hint, Begin(p, pc, s, a, h)
    PROVE  \E r \in Proc : /\ proc' = [proc EXCEPT ![p] = r]
                           /\ r.pc = pc /\ r.stmt = s /\ r.account = a
<1>1. Idle \in Proc
  BY IdleType
<1>2. PICK r : r = [Idle EXCEPT !.pc = pc, !.stmt = s, !.account = a, !.hint = h]
  OBVIOUS
<1>3. r \in Proc /\ r.pc = pc /\ r.stmt = s /\ r.account = a
  BY <1>1, <1>2 DEF Proc
<1>4. proc' = [proc EXCEPT ![p] = r]
  BY <1>2 DEF Begin
<1>5. QED
  BY <1>3, <1>4

(* Wherever a step leaves the database and the disk alone, the request may *)
(* go on to a place that asks for no more than the one it comes from.      *)
LEMMA QuietGoto ==
    ASSUME IInv, NEW p \in Process, NEW r \in Proc,
           proc' = [proc EXCEPT ![p] = r],
           UNCHANGED <<table, content, disk, audit, served, born, accounts, tokens>>,
           dead' \subseteq Statement,
           r.stmt = proc[p].stmt, r.account = proc[p].account, proc[p].pc # "idle",
           \/ proc[p].pc \in Parsed \ {"link"} /\ r.pc \in Parsed \ {"link"}
           \/ proc[p].pc \notin Uncommitted /\ r.pc \in {"raised", "download audit"}
    PROVE  IInv'
<1>1. \A q \in Process \ {p} : Pair(r, proc[q]) /\ Pair(proc[q], r)
  BY Onward DEF Parsed, Upload, Uncommitted
<1>2. Fits(proc[p])
  BY DEF IInv, AllFit
<1>3. Fits(r)
  BY <1>2 DEF Fits, Parsed, Upload, Uncommitted
<1>4. accounts' \in Seq(Hint) /\ Len(accounts') <= MaxAccounts /\ tokens' \subseteq born
  BY DEF IInv, TypeOK
<1>5. QED
  BY <1>1, <1>3, <1>4, Quiet

LEMMA QuietFinish ==
    ASSUME IInv, NEW p \in Process, Finish(p),
           UNCHANGED <<table, content, disk, audit, served, born, accounts, tokens>>,
           dead' \subseteq Statement
    PROVE  IInv'
<1>1. accounts' \in Seq(Hint) /\ Len(accounts') <= MaxAccounts /\ tokens' \subseteq born
  BY DEF IInv, TypeOK
<1>2. QED
  BY <1>1, IdleFits, Quiet DEF Finish

(* Where a request is, its statement is one.                               *)
LEMMA BusyStatement ==
    ASSUME IInv, NEW p \in Process, proc[p].pc # "idle"
    PROVE  proc[p].stmt \in Statement
BY DEF IInv, AllFit, Fits

LEMMA RaiseStep ==
    ASSUME IInv, NEW p \in Process, Raise(p), proc[p].pc \notin Uncommitted \cup {"idle"},
           UNCHANGED <<table, content, disk, audit, served, born, accounts, tokens>>
    PROVE  IInv'
<1>1. dead' \subseteq Statement
  BY BusyStatement DEF IInv, TypeOK, Raise
<1>2. PICK r \in Proc : /\ proc' = [proc EXCEPT ![p] = r] /\ r.pc = "raised"
                        /\ r.stmt = proc[p].stmt /\ r.account = proc[p].account
  <2>1. "raised" \in PC /\ TypeOK /\ Goto(p, "raised")
    BY DEF IInv, Raise, PC
  <2>2. QED
    BY <2>1, GotoKeeps
<1>3. QED
  BY <1>1, <1>2, QuietGoto

LEMMA StartStep ==
    ASSUME IInv, NEW p \in Process, Start(p)
    PROVE  IInv'
<1> USE DEF links
<1>0. /\ proc[p].pc = "idle" /\ accounts' = accounts /\ dead' = dead
      /\ UNCHANGED <<table, content, disk, audit, served, born, accounts, tokens, dead>>
  BY DEF Start, UploadStart, UploadByHint, DeleteLookup, DownloadLookup, At
<1>1. /\ accounts' \in Seq(Hint) /\ Len(accounts') <= MaxAccounts
      /\ tokens' \subseteq born /\ dead' \subseteq Statement
      /\ DOMAIN accounts \subseteq 1..MaxAccounts
  BY <1>0, StatementsAssumption DEF IInv, TypeOK
<1>2. ASSUME NEW s \in Statement, Unused(s), NEW pc \in {"provision", "write"},
             NEW a \in 0..MaxAccounts, NEW h \in SUBSET Hint, Begin(p, pc, s, a, h)
      PROVE  IInv'
  <2>1. PICK r \in Proc : /\ proc' = [proc EXCEPT ![p] = r]
                          /\ r.pc = pc /\ r.stmt = s /\ r.account = a
    <3>1. pc \in PC /\ TypeOK
      BY DEF IInv, PC, Upload
    <3>2. QED
      BY <1>2, <3>1, BeginKeeps
  <2>2. s \notin born /\ \A q \in Process : proc[q].stmt # s
    BY <1>2 DEF Unused
  <2>3. Fits(r)
    BY <2>1, <2>2 DEF Fits, Upload, Uncommitted, Parsed, IInv, BornFirst
  <2>4. \A q \in Process \ {p} : Pair(r, proc[q]) /\ Pair(proc[q], r)
    BY <2>1, <2>2 DEF Pair
  <2>5. QED
    BY <1>0, <1>1, <2>1, <2>3, <2>4, Quiet
<1>3. ASSUME NEW s \in Statement, Exists(s), NEW pc \in {"unlink", "resolve"},
             Begin(p, pc, s, 0, {})
      PROVE  IInv'
  <2>1. PICK r \in Proc : /\ proc' = [proc EXCEPT ![p] = r]
                          /\ r.pc = pc /\ r.stmt = s /\ r.account = 0
    <3>1. pc \in PC /\ TypeOK
      BY DEF IInv, PC
    <3>2. 0 \in 0..MaxAccounts
      BY StatementsAssumption
    <3>3. {} \in SUBSET Hint
      OBVIOUS
    <3>4. QED
      BY <1>3, <3>1, <3>2, <3>3, BeginKeeps
  <2>2. s \in born
    BY <1>3 DEF IInv, BornFirst
  <2>3. Fits(r)
    BY <2>1, <2>2 DEF Fits, Upload, Uncommitted, Parsed
  <2>4. \A q \in Process : Fits(proc[q])
    BY DEF IInv, AllFit
  <2>5. \A q \in Process \ {p} : Pair(r, proc[q]) /\ Pair(proc[q], r)
    BY <2>1, <2>2, <2>4 DEF Pair, Fits, Upload, Uncommitted
  <2>6. QED
    BY <1>0, <1>1, <2>1, <2>3, <2>5, Quiet
<1>4. ASSUME NEW s \in Statement, NEW a \in {0} \cup DOMAIN accounts, UploadStart(p, s, a)
      PROVE  IInv'
  BY <1>1, <1>2, <1>4, StatementsAssumption DEF UploadStart
<1>5. ASSUME NEW s \in Statement, NEW h \in Hint, UploadByHint(p, s, h)
      PROVE  IInv'
  <2>1. CASE Named(h) = {}
    BY <1>2, <1>5, <2>1, StatementsAssumption DEF UploadByHint
  <2>2. CASE Named(h) # {}
    <3>1. PICK a \in Named(h) : Begin(p, "write", s, a, {})
      BY <1>5, <2>2 DEF UploadByHint
    <3>2. a \in 0..MaxAccounts
      BY <1>1, StatementsAssumption DEF Named
    <3>3. QED
      BY <1>2, <1>5, <3>1, <3>2 DEF UploadByHint
  <2>3. QED
    BY <2>1, <2>2
<1>6. ASSUME NEW s \in Statement, DeleteLookup(p, s)
      PROVE  IInv'
  BY <1>3, <1>6 DEF DeleteLookup
<1>7. ASSUME NEW s \in Statement, DownloadLookup(p, s)
      PROVE  IInv'
  BY <1>3, <1>7 DEF DownloadLookup
<1>8. QED
  BY <1>4, <1>5, <1>6, <1>7 DEF Start

LEMMA NobodyMoves ==
    ASSUME IInv, UNCHANGED <<proc, table, content, disk, audit, served, born, dead>>,
           accounts' \in Seq(Hint), Len(accounts') <= MaxAccounts, tokens' \subseteq born
    PROVE  IInv'
<1>1. TypeOK'
  BY DEF IInv, TypeOK, Exists, disk
<1>2. (AllFit /\ Apart /\ BornFirst)'
  BY DEF IInv, AllFit, Apart, BornFirst, Fits, Pair, Exists, disk
<1>3. (FileBehindStatement /\ NoFileLeftBehind /\ StatusTellsContent
         /\ UploadAudited /\ ServedAudited)'
  BY DEF IInv, FileBehindStatement, NoFileLeftBehind, StatusTellsContent,
     UploadAudited, ServedAudited, Exists, disk
<1>4. QED
  BY <1>1, <1>2, <1>3 DEF IInv

LEMMA AccountsGrow ==
    ASSUME TypeOK, NEW h \in Hint, Len(accounts) < MaxAccounts, accounts' = Append(accounts, h)
    PROVE  /\ accounts' \in Seq(Hint) /\ Len(accounts') <= MaxAccounts
           /\ Len(accounts) + 1 \in 0..MaxAccounts
BY StatementsAssumption DEF TypeOK

LEMMA OtherStep ==
    ASSUME IInv, (\E h \in Hint : CreateAccount(h))
                   \/ (\E s \in Statement : Mint(s) \/ TokenExpires(s))
    PROVE  IInv'
<1>1. TypeOK /\ accounts \in Seq(Hint) /\ Len(accounts) <= MaxAccounts /\ tokens \subseteq born
  BY DEF IInv, TypeOK
<1>2. ASSUME NEW h \in Hint, CreateAccount(h)
      PROVE  IInv'
  <2>1. accounts' \in Seq(Hint) /\ Len(accounts') <= MaxAccounts
    BY <1>1, <1>2, AccountsGrow DEF CreateAccount
  <2>2. tokens' \subseteq born
    BY <1>1, <1>2 DEF CreateAccount, links
  <2>3. QED
    BY <1>2, <2>1, <2>2, NobodyMoves DEF CreateAccount, links
<1>3. ASSUME NEW s \in Statement, Mint(s)
      PROVE  IInv'
  <2>1. tokens' \subseteq born
    BY <1>1, <1>3 DEF Mint, IInv, BornFirst
  <2>2. QED
    BY <1>1, <1>3, <2>1, NobodyMoves DEF Mint
<1>4. ASSUME NEW s \in Statement, TokenExpires(s)
      PROVE  IInv'
  BY <1>1, <1>4, NobodyMoves DEF TokenExpires
<1>5. QED
  BY <1>2, <1>3, <1>4

LEMMA ProvisionStep ==
    ASSUME IInv, NEW p \in Process, Provision(p)
    PROVE  IInv'
<1>1. TypeOK /\ proc[p] \in Proc /\ proc[p].pc = "provision" /\ Fits(proc[p])
  BY DEF IInv, TypeOK, AllFit, Provision, At
<1>2. proc[p].hint \subseteq Hint /\ proc[p].stmt \in Statement
  BY <1>1 DEF Proc, Fits
<1>3. PICK h \in Hint : accounts' = Append(accounts, h)
  BY <1>2 DEF Provision
<1>4. /\ accounts' \in Seq(Hint) /\ Len(accounts') <= MaxAccounts
      /\ Len(accounts) + 1 \in 0..MaxAccounts
  BY <1>1, <1>3, AccountsGrow DEF Provision
<1>5. PICK r \in Proc : /\ proc' = [proc EXCEPT ![p] = r]
                        /\ r.pc = "write" /\ r.stmt = proc[p].stmt
  <2>1. "write" \in PC /\ {} \in SUBSET Hint
    BY DEF PC, Upload
  <2>2. Begin(p, "write", proc[p].stmt, Len(accounts) + 1, {})
    BY DEF Provision
  <2>3. PICK r \in Proc : /\ proc' = [proc EXCEPT ![p] = r] /\ r.pc = "write"
                          /\ r.stmt = proc[p].stmt /\ r.account = Len(accounts) + 1
    BY <1>1, <1>2, <1>4, <2>1, <2>2, BeginKeeps
  <2>4. QED
    BY <2>3
<1>6. \A q \in Process \ {p} : Pair(r, proc[q]) /\ Pair(proc[q], r)
  BY <1>1, <1>5, Onward DEF Upload, Uncommitted
<1>7. Fits(r)
  BY <1>1, <1>5 DEF Fits, Upload, Uncommitted, Parsed
<1>8. /\ UNCHANGED <<table, content, disk, audit, served, born>>
      /\ tokens' \subseteq born /\ dead' \subseteq Statement
  BY <1>1 DEF Provision, links, TypeOK
<1>9. QED
  BY <1>4, <1>5, <1>6, <1>7, <1>8, Quiet

(* Tiers 2 and 3, the refit and the refresh.                               *)
LEMMA TiersStep ==
    ASSUME IInv, NEW p \in Process,
           Load(p) \/ Categorize(p) \/ CategorizeRaise(p) \/ Refit(p) \/ Refresh(p)
    PROVE  IInv'
<1>1. TypeOK /\ proc[p] \in Proc /\ dead \subseteq Statement
  BY DEF IInv, TypeOK
<1>2. ASSUME NEW pc \in Parsed \ {"link"}, Goto(p, pc), proc[p].pc \in Parsed \ {"link"}, dead' = dead,
             UNCHANGED <<table, content, disk, audit, served, born, accounts, tokens>>
      PROVE  IInv'
  <2>1. pc \in PC
    BY DEF Parsed, PC
  <2>2. PICK r \in Proc : /\ proc' = [proc EXCEPT ![p] = r] /\ r.pc = pc
                          /\ r.stmt = proc[p].stmt /\ r.account = proc[p].account
    BY <1>1, <1>2, <2>1, GotoKeeps
  <2>3. proc[p].pc # "idle"
    BY <1>2 DEF Parsed, Upload
  <2>4. QED
    BY <1>1, <1>2, <2>2, <2>3, QuietGoto
<1>3. CASE Load(p)
  <2>1. PICK x \in BOOLEAN, pc \in {"tier2 commit", "tier3 commit"} :
          proc' = [proc EXCEPT ![p].pc = pc, ![p].loaded = x]
    <3>1. proc[p].pc \in {"tier2", "tier3"}
      BY <1>3 DEF Load, At
    <3>2. proc[p].stmt \in Statement
      BY <3>1, BusyStatement
    <3>3. content[proc[p].stmt].rows \in BOOLEAN
      BY <1>1, <3>2 DEF TypeOK, Content
    <3>4. QED
      BY <1>3, <3>3 DEF Load
  <2>2. PICK r : r = [proc[p] EXCEPT !.pc = pc, !.loaded = x]
    OBVIOUS
  <2>3. pc \in PC /\ pc \in Parsed \ {"link"}
    BY <2>1 DEF PC, Parsed, Upload, Uncommitted
  <2>4. r \in Proc /\ r.pc = pc /\ r.stmt = proc[p].stmt /\ r.account = proc[p].account
    BY <1>1, <2>1, <2>2, <2>3 DEF Proc
  <2>5. proc' = [proc EXCEPT ![p] = r]
    BY <1>1, <2>1, <2>2 DEF TypeOK
  <2>6. proc[p].pc \in Parsed \ {"link"} /\ proc[p].pc # "idle"
    BY <1>3 DEF Load, At, Parsed, Upload, Uncommitted
  <2>7. UNCHANGED <<table, content, disk, audit, served, born, accounts, tokens, dead>>
    BY <1>3 DEF Load, links
  <2>8. QED
    BY <1>1, <2>3, <2>4, <2>5, <2>6, <2>7, QuietGoto
<1>4. CASE Categorize(p)
  <2>1. UNCHANGED <<table, content, disk, audit, served, born, accounts, tokens, dead>>
    BY <1>4 DEF Categorize, links
  <2>2. PICK pc \in Parsed \ {"link"} : Goto(p, pc)
    <3>1. Goto(p, "tier3") \/ Goto(p, "refit")
      BY <1>4 DEF Categorize
    <3>2. "tier3" \in Parsed \ {"link"} /\ "refit" \in Parsed \ {"link"}
      BY DEF Parsed, Upload, Uncommitted
    <3>3. QED
      BY <3>1, <3>2
  <2>3. proc[p].pc \in Parsed \ {"link"}
    BY <1>4 DEF Categorize, At, Parsed, Upload, Uncommitted
  <2>4. QED
    BY <1>2, <2>1, <2>2, <2>3
<1>5. CASE CategorizeRaise(p)
  <2>1. proc[p].pc \notin Uncommitted \cup {"idle"} /\ Raise(p)
    BY <1>5 DEF CategorizeRaise, At, Uncommitted
  <2>2. QED
    BY <1>5, <2>1, RaiseStep DEF CategorizeRaise, links
<1>6. CASE Refit(p)
  <2>1. PICK x \in BOOLEAN : proc' = [proc EXCEPT ![p].pc = "refresh", ![p].expired = x]
    BY <1>6 DEF Refit
  <2>2. PICK r : r = [proc[p] EXCEPT !.pc = "refresh", !.expired = x]
    OBVIOUS
  <2>3. "refresh" \in PC /\ "refresh" \in Parsed \ {"link"}
    BY DEF PC, Parsed, Upload, Uncommitted
  <2>4. r \in Proc /\ r.pc = "refresh" /\ r.stmt = proc[p].stmt /\ r.account = proc[p].account
    BY <1>1, <2>1, <2>2, <2>3 DEF Proc
  <2>5. proc' = [proc EXCEPT ![p] = r]
    BY <1>1, <2>1, <2>2 DEF TypeOK
  <2>6. proc[p].pc \in Parsed \ {"link"} /\ proc[p].pc # "idle"
    BY <1>6 DEF Refit, At, Parsed, Upload, Uncommitted
  <2>7. UNCHANGED <<table, content, disk, audit, served, born, accounts, tokens, dead>>
    BY <1>6 DEF Refit, links
  <2>8. QED
    BY <1>1, <2>3, <2>4, <2>5, <2>6, <2>7, QuietGoto
<1>7. CASE Refresh(p)
  <2>1. UNCHANGED <<table, content, disk, audit, served, born, accounts, tokens>>
    BY <1>7 DEF Refresh, links
  <2>2. proc[p].pc = "refresh"
    BY <1>7 DEF Refresh, At
  <2>3. CASE Exists(proc[p].stmt)
    <3>1. Goto(p, "answer") /\ dead' = dead
      BY <1>7, <2>3 DEF Refresh
    <3>2. "answer" \in Parsed \ {"link"} /\ proc[p].pc \in Parsed \ {"link"}
      BY <2>2 DEF Parsed, Upload, Uncommitted
    <3>3. QED
      BY <1>2, <2>1, <3>1, <3>2
  <2>4. CASE ~Exists(proc[p].stmt)
    <3>1. Raise(p)
      BY <1>7, <2>4 DEF Refresh
    <3>2. proc[p].pc \notin Uncommitted \cup {"idle"}
      BY <2>2 DEF Uncommitted
    <3>3. QED
      BY <2>1, <3>1, <3>2, RaiseStep
  <2>5. QED
    BY <2>3, <2>4
<1>8. QED
  BY <1>3, <1>4, <1>5, <1>6, <1>7

(* The steps that end a request or give it up.                             *)
LEMMA EndStep ==
    ASSUME IInv, NEW p \in Process,
           AnswerError(p) \/ Resolve(p) \/ ParseRaise(p) \/ Abort(p)
    PROVE  IInv'
<1>1. TypeOK /\ proc[p] \in Proc /\ dead \subseteq Statement
  BY DEF IInv, TypeOK
<1>2. CASE AnswerError(p)
  BY <1>1, <1>2, QuietFinish DEF AnswerError, links
<1>3. CASE Resolve(p)
  <2>1. UNCHANGED <<table, content, disk, audit, served, born, accounts, tokens, dead>>
    BY <1>3 DEF Resolve, links
  <2>2. CASE Finish(p)
    BY <1>1, <2>1, <2>2, QuietFinish
  <2>3. CASE Goto(p, "download audit")
    <3>1. PICK pc \in PC : pc = "download audit"
      BY DEF PC
    <3>2. PICK r \in Proc : /\ proc' = [proc EXCEPT ![p] = r] /\ r.pc = pc
                            /\ r.stmt = proc[p].stmt /\ r.account = proc[p].account
      BY <1>1, <2>3, <3>1, GotoKeeps
    <3>3. proc[p].pc \notin Uncommitted /\ proc[p].pc # "idle"
      BY <1>3 DEF Resolve, At, Uncommitted
    <3>4. QED
      BY <1>1, <2>1, <3>1, <3>2, <3>3, QuietGoto
  <2>4. QED
    BY <1>3, <2>2, <2>3 DEF Resolve
<1>4. CASE ParseRaise(p)
  <2>1. proc[p].pc \notin Uncommitted \cup {"idle"} /\ Raise(p)
    BY <1>4 DEF ParseRaise, At, Uncommitted
  <2>2. QED
    BY <1>4, <2>1, RaiseStep DEF ParseRaise, links
<1>5. CASE Abort(p)
  <2>1. dead' \subseteq Statement
    BY <1>1, <1>5, BusyStatement DEF Abort, At
  <2>2. QED
    BY <1>5, <2>1, QuietFinish DEF Abort, links
<1>6. QED
  BY <1>2, <1>3, <1>4, <1>5

-----------------------------------------------------------------------------
(* Steps that write.  For each: what others know of their statements       *)
(* survives it, and so do the properties of every statement.               *)

LEMMA Assemble ==
    ASSUME IInv, NEW p \in Process, NEW r \in Proc,
           proc' = [proc EXCEPT ![p] = r], Fits(r)',
           \A q \in Process \ {p} : Pair(r, proc[q]) /\ Pair(proc[q], r),
           \A x \in Proc : Fits(x) /\ Pair(x, proc[p]) /\ Pair(proc[p], x) => Fits(x)'
    PROVE  AllFit' /\ Apart' /\ proc' \in [Process -> Proc]
<1>1. proc \in [Process -> Proc]
  BY DEF IInv, TypeOK
<1>2. \A q \in Process : proc'[q] = IF q = p THEN r ELSE proc[q]
  BY <1>1
<1>3. ASSUME NEW q \in Process \ {p}
      PROVE  Fits(proc[q])'
  <2>1. PICK x \in Proc : x = proc[q] /\ proc'[q] = x
    BY <1>1, <1>2
  <2>2. Fits(x)'
    BY <2>1 DEF IInv, AllFit, Apart
  <2>3. QED
    BY <2>1, <2>2 DEF Fits, Exists
<1>4. Fits(proc[p])'
  BY <1>2 DEF Fits, Exists
<1>5. AllFit'
  BY <1>3, <1>4 DEF AllFit
<1>6. Apart'
  BY <1>2 DEF IInv, Apart, Pair
<1>7. QED
  BY <1>1, <1>5, <1>6

LEMMA WriteFileStep ==
    ASSUME IInv, NEW p \in Process, WriteFile(p)
    PROVE  IInv'
<1>1. TypeOK /\ proc[p] \in Proc /\ proc[p].pc = "write" /\ Fits(proc[p])
  BY DEF IInv, TypeOK, AllFit, WriteFile, At
<1>2. PICK s \in Statement : s = proc[p].stmt /\ s \notin born /\ <<"upload", s>> \notin audit
  BY <1>1 DEF Fits, Upload, Uncommitted
<1>3. /\ files' = files \cup {s}
      /\ UNCHANGED <<accounts, table, content, unlinked, audit, tokens, served, born, dead>>
  BY <1>2 DEF WriteFile, links
<1>4. PICK r \in Proc : /\ proc' = [proc EXCEPT ![p] = r] /\ r.pc = "commit"
                        /\ r.stmt = proc[p].stmt /\ r.account = proc[p].account
  <2>1. "commit" \in PC /\ Goto(p, "commit")
    BY DEF PC, Upload, WriteFile
  <2>2. QED
    BY <1>1, <2>1, GotoKeeps
<1>5. \A q \in Process \ {p} : Pair(r, proc[q]) /\ Pair(proc[q], r)
  BY <1>1, <1>4, Onward DEF Upload, Uncommitted
<1>6. Fits(r)'
  BY <1>2, <1>3, <1>4 DEF Fits, Upload, Uncommitted, Parsed
<1>7. \A x \in Proc : Fits(x) => Fits(x)'
  BY <1>2, <1>3 DEF Fits, Exists, Uncommitted
<1>8. AllFit' /\ Apart' /\ proc' \in [Process -> Proc]
  BY <1>4, <1>5, <1>6, <1>7, Assemble
<1>9. TypeOK'
  BY <1>1, <1>3, <1>8 DEF TypeOK, Exists
<1>10. (BornFirst /\ FileBehindStatement /\ NoFileLeftBehind /\ StatusTellsContent
          /\ UploadAudited /\ ServedAudited)'
  BY <1>2, <1>3 DEF IInv, BornFirst, FileBehindStatement, NoFileLeftBehind,
     StatusTellsContent, UploadAudited, ServedAudited, Exists
<1>11. QED
  BY <1>8, <1>9, <1>10 DEF IInv

LEMMA CommitStep ==
    ASSUME IInv, NEW p \in Process, CommitStatement(p)
    PROVE  IInv'
<1>1. TypeOK /\ proc[p] \in Proc /\ proc[p].pc = "commit" /\ Fits(proc[p])
  BY DEF IInv, TypeOK, AllFit, CommitStatement, At
<1>2. PICK s \in Statement : /\ s = proc[p].stmt /\ s \notin born /\ s \in files
                             /\ <<"upload", s>> \notin audit
  BY <1>1 DEF Fits, Upload, Uncommitted
<1>3. ~Exists(s) /\ content[s] = NoContent
  BY <1>1, <1>2, Columns DEF IInv, BornFirst
<1>4. /\ Pending(p) \in Row /\ Pending(p) # NoRow
      /\ Pending(p) = [status |-> "pending", account |-> proc[p].account]
  BY <1>1 DEF Pending, Row, NoRow, Proc
<1>5. /\ table' = [table EXCEPT ![s] = Pending(p)] /\ born' = born \cup {s}
      /\ UNCHANGED <<accounts, content, files, unlinked, audit, tokens, served, dead>>
  BY <1>2 DEF CommitStatement, links, disk
<1>6. table'[s] = Pending(p) /\ \A t \in Statement \ {s} : table'[t] = table[t]
  BY <1>1, <1>5 DEF TypeOK
<1>7. PICK r \in Proc : /\ proc' = [proc EXCEPT ![p] = r] /\ r.pc = "parse"
                        /\ r.stmt = proc[p].stmt /\ r.account = proc[p].account
  <2>1. "parse" \in PC /\ Goto(p, "parse")
    BY DEF PC, Upload, CommitStatement
  <2>2. QED
    BY <1>1, <2>1, GotoKeeps
<1>8. \A q \in Process \ {p} : Pair(r, proc[q]) /\ Pair(proc[q], r)
  BY <1>1, <1>7, Onward DEF Upload, Uncommitted
<1>9. Fits(r)'
  BY <1>2, <1>3, <1>4, <1>5, <1>6, <1>7 DEF Fits, Upload, Uncommitted, Parsed
<1>10. ASSUME NEW x \in Proc, Fits(x), Pair(x, proc[p]), Pair(proc[p], x)
       PROVE  Fits(x)'
  <2>1. x.pc # "idle" => x.stmt # s /\ x.stmt \in Statement
    BY <1>1, <1>2, <1>10 DEF Pair, Upload, Uncommitted, Fits
  <2>2. x.pc # "idle" => table'[x.stmt] = table[x.stmt] /\ (x.stmt \in born' <=> x.stmt \in born)
    BY <1>5, <1>6, <2>1
  <2>3. QED
    BY <1>5, <1>10, <2>2 DEF Fits, Exists, Upload, Uncommitted, Parsed
<1>11. AllFit' /\ Apart' /\ proc' \in [Process -> Proc]
  BY <1>7, <1>8, <1>9, <1>10, Assemble
<1>12. TypeOK'
  BY <1>1, <1>3, <1>4, <1>5, <1>6, <1>11 DEF TypeOK, Exists
<1>13. (BornFirst /\ FileBehindStatement /\ NoFileLeftBehind /\ UploadAudited /\ ServedAudited)'
  BY <1>2, <1>4, <1>5, <1>6 DEF IInv, BornFirst, FileBehindStatement, NoFileLeftBehind,
     UploadAudited, ServedAudited, Exists
<1>14. StatusTellsContent'
  BY <1>3, <1>4, <1>5, <1>6 DEF IInv, StatusTellsContent
<1>15. QED
  BY <1>11, <1>12, <1>13, <1>14 DEF IInv

(* Both outcomes of Tier 1: content c and status st that agree.            *)
LEMMA TierOneOutcome ==
    ASSUME IInv, NEW p \in Process, Parse(p) \/ Unresolvable(p)
    PROVE  \E c \in Content, st \in Settled :
             /\ content' = [content EXCEPT ![proc[p].stmt] = c]
             /\ table' = [table EXCEPT ![proc[p].stmt].status = st]
             /\ c.account = 0
             /\ st = "failed_needs_manual" => ~c.rows
             /\ st = "parsed_with_warnings" => c.rows
             /\ st = "parsed_clean" => c.rows /\ "row" \notin c.failures
<1>1. TypeOK /\ proc[p].pc = "parse" /\ Fits(proc[p]) /\ Exists(proc[p].stmt)
  BY DEF IInv, TypeOK, AllFit, Parse, Unresolvable, At
<1>2. proc[p].stmt \in Statement /\ content[proc[p].stmt] = NoContent
  BY <1>1 DEF Fits
<1>3. CASE Parse(p)
  <2>1. PICK rows, warnings \in BOOLEAN, failures \in SUBSET {"row", "statement"} :
          /\ content' = [content EXCEPT ![proc[p].stmt] =
               [rows |-> rows, account |-> 0, failures |-> failures]]
          /\ table' = [table EXCEPT ![proc[p].stmt].status = StatusOf(rows, failures, warnings)]
    BY <1>3 DEF Parse
  <2>2. PICK st : st = StatusOf(rows, failures, warnings)
    OBVIOUS
  <2>3. /\ st \in Settled
        /\ st = "failed_needs_manual" => ~rows
        /\ st = "parsed_with_warnings" => rows
        /\ st = "parsed_clean" => rows /\ "row" \notin failures
    BY <2>2 DEF StatusOf, Settled
  <2>4. 0 \in 0..MaxAccounts
    BY StatementsAssumption
  <2>5. PICK c \in Content : c = [rows |-> rows, account |-> 0, failures |-> failures]
    BY <2>4 DEF Content
  <2>6. c.rows = rows /\ c.account = 0 /\ c.failures = failures
    BY <2>5
  <2>7. content' = [content EXCEPT ![proc[p].stmt] = c]
    BY <2>1, <2>5
  <2>8. table' = [table EXCEPT ![proc[p].stmt].status = st]
    BY <2>1, <2>2
  <2>9. QED
    BY <2>3, <2>6, <2>7, <2>8
<1>4. CASE Unresolvable(p)
  <2>1. /\ content' = [content EXCEPT ![proc[p].stmt].failures = {"statement"}]
        /\ table' = [table EXCEPT ![proc[p].stmt].status = "failed_needs_manual"]
    BY <1>4 DEF Unresolvable
  <2>2. PICK c : c = [NoContent EXCEPT !.failures = {"statement"}]
    OBVIOUS
  <2>3. 0 \in 0..MaxAccounts
    BY StatementsAssumption
  <2>4. c \in Content /\ ~c.rows /\ c.account = 0
    BY <2>2, <2>3 DEF NoContent, Content
  <2>5. content' = [content EXCEPT ![proc[p].stmt] = c]
    BY <1>1, <1>2, <2>1, <2>2 DEF TypeOK
  <2>6. "failed_needs_manual" \in Settled
    BY DEF Settled
  <2>7. QED
    BY <2>1, <2>4, <2>5, <2>6
<1>5. QED
  BY <1>3, <1>4

LEMMA ParseStep ==
    ASSUME IInv, NEW p \in Process, Parse(p) \/ Unresolvable(p)
    PROVE  IInv'
<1>1. TypeOK /\ proc[p] \in Proc /\ proc[p].pc = "parse" /\ Fits(proc[p])
  BY DEF IInv, TypeOK, AllFit, Parse, Unresolvable, At
<1>2. PICK s \in Statement : /\ s = proc[p].stmt /\ s \in born /\ Exists(s)
                             /\ <<"upload", s>> \notin audit
                             /\ table[s] = [status |-> "pending", account |-> proc[p].account]
  BY <1>1 DEF Fits, Upload, Uncommitted, Parse, Unresolvable
<1>3. PICK c \in Content, st \in Settled :
             /\ content' = [content EXCEPT ![s] = c]
             /\ table' = [table EXCEPT ![s].status = st]
             /\ c.account = 0
             /\ st = "failed_needs_manual" => ~c.rows
             /\ st = "parsed_with_warnings" => c.rows
             /\ st = "parsed_clean" => c.rows /\ "row" \notin c.failures
  BY <1>2, TierOneOutcome
<1>4. PICK x \in Row : x = [status |-> st, account |-> proc[p].account]
  BY <1>1 DEF Row, Proc
<1>5. x.status = st /\ x.account = proc[p].account /\ x # NoRow /\ st \notin {"pending", "none"}
  BY <1>4 DEF NoRow, Settled
<1>6. /\ table'[s] = x /\ content'[s] = c
      /\ \A t \in Statement \ {s} : table'[t] = table[t] /\ content'[t] = content[t]
      /\ table' \in [Statement -> Row \cup {NoRow}] /\ content' \in [Statement -> Content]
  <2>1. table' = [table EXCEPT ![s] = [table[s] EXCEPT !.status = st]]
    BY <1>3
  <2>2. [table[s] EXCEPT !.status = st] = x
    BY <1>2, <1>4
  <2>3. QED
    BY <1>1, <1>3, <2>1, <2>2 DEF TypeOK
<1>7. UNCHANGED <<accounts, files, unlinked, audit, tokens, served, born, dead>>
  BY DEF Parse, Unresolvable, disk, links
<1>8. PICK r \in Proc : /\ proc' = [proc EXCEPT ![p] = r]
                        /\ r.pc \in {"tier2", "link"} /\ (r.pc = "tier2" => r.account = 0)
                        /\ r.stmt = proc[p].stmt /\ r.account = proc[p].account
  <2>1. PICK pc \in {"tier2", "link"} : Goto(p, pc) /\ (pc = "tier2" => proc[p].account = 0)
    BY DEF Parse, Unresolvable, AfterParse
  <2>2. pc \in PC
    BY DEF PC, Upload
  <2>3. PICK r \in Proc : /\ proc' = [proc EXCEPT ![p] = r] /\ r.pc = pc
                          /\ r.stmt = proc[p].stmt /\ r.account = proc[p].account
    BY <1>1, <2>1, <2>2, GotoKeeps
  <2>4. QED
    BY <2>1, <2>3
<1>9. \A q \in Process \ {p} : Pair(r, proc[q]) /\ Pair(proc[q], r)
  BY <1>1, <1>8, Onward DEF Upload, Uncommitted
<1>10. Fits(r)'
  BY <1>2, <1>3, <1>5, <1>6, <1>7, <1>8 DEF Fits, Upload, Uncommitted, Parsed
<1>11. ASSUME NEW y \in Proc, Fits(y), Pair(proc[p], y)
       PROVE  Fits(y)'
  <2>1. y.pc \in Upload => y.stmt \in Statement \ {s}
    BY <1>1, <1>2, <1>11 DEF Pair, Upload, Fits
  <2>2. y.pc \in Upload => table'[y.stmt] = table[y.stmt] /\ content'[y.stmt] = content[y.stmt]
    BY <1>6, <2>1
  <2>3. QED
    BY <1>7, <1>11, <2>2 DEF Fits, Exists, Upload, Uncommitted, Parsed
<1>12. AllFit' /\ Apart' /\ proc' \in [Process -> Proc]
  BY <1>8, <1>9, <1>10, <1>11, Assemble
<1>13. \A t \in Statement : Exists(t)' <=> Exists(t)
  BY <1>2, <1>5, <1>6 DEF Exists
<1>14. TypeOK'
  <2>1. \A t \in Statement : ~Exists(t)' => content'[t] = NoContent
    BY <1>1, <1>2, <1>6, <1>13 DEF TypeOK
  <2>2. QED
    BY <1>1, <1>6, <1>7, <1>12, <2>1 DEF TypeOK, Exists
<1>15. (BornFirst /\ FileBehindStatement /\ NoFileLeftBehind /\ UploadAudited /\ ServedAudited)'
  <2>1. BornFirst'
    BY <1>7, <1>13 DEF IInv, BornFirst
  <2>2. FileBehindStatement' /\ NoFileLeftBehind'
    BY <1>1, <1>7, <1>13 DEF IInv, TypeOK, FileBehindStatement, NoFileLeftBehind
  <2>3. UploadAudited' /\ ServedAudited'
    BY <1>2, <1>6, <1>7, <1>13 DEF IInv, UploadAudited, ServedAudited
  <2>4. QED
    BY <2>1, <2>2, <2>3
<1>16. StatusTellsContent'
  BY <1>3, <1>5, <1>6 DEF IInv, StatusTellsContent
<1>17. QED
  BY <1>12, <1>14, <1>15, <1>16 DEF IInv

LEMMA LinkStep ==
    ASSUME IInv, NEW p \in Process, Link(p)
    PROVE  IInv'
<1>1. TypeOK /\ proc[p] \in Proc /\ proc[p].pc = "link" /\ Fits(proc[p])
  BY DEF IInv, TypeOK, AllFit, Link, At
<1>2. PICK s \in Statement : /\ s = proc[p].stmt /\ s \in born
                             /\ <<"upload", s>> \notin audit
                             /\ Exists(s) => table[s].status \in Settled
                             /\ Exists(s) => table[s].account = proc[p].account
  BY <1>1 DEF Fits, Upload, Uncommitted, Parsed
<1>3. content[s] \in Content /\ (content[s].rows => Exists(s)) /\ (~Exists(s) => content[s] = NoContent)
  BY <1>1, Columns
<1>4. PICK c \in Content :
        /\ content' = [content EXCEPT ![s] = c]
        /\ c.rows = content[s].rows /\ c.failures = content[s].failures
        /\ c.rows => c.account = proc[p].account
        /\ ~c.rows => c = content[s]
  <2>1. PICK a \in 0..MaxAccounts :
          a = IF content[s].rows THEN proc[p].account ELSE content[s].account
    BY <1>1, <1>3 DEF Proc, Content
  <2>2. PICK c : c = [content[s] EXCEPT !.account = a]
    OBVIOUS
  <2>3. c \in Content /\ c.rows = content[s].rows /\ c.failures = content[s].failures /\ c.account = a
    BY <1>3, <2>1, <2>2 DEF Content
  <2>4. content' = [content EXCEPT ![s] = c]
    <3>1. content' = [content EXCEPT ![s] = [content[s] EXCEPT !.account =
                        IF content[s].rows THEN proc[p].account ELSE content[s].account]]
      BY <1>1, <1>2 DEF Link, TypeOK
    <3>2. QED
      BY <2>1, <2>2, <3>1
  <2>5. ~c.rows => c = content[s]
    BY <1>3, <2>1, <2>2, <2>3 DEF Content
  <2>6. QED
    BY <2>1, <2>3, <2>4, <2>5
<1>5. content'[s] = c /\ (\A t \in Statement \ {s} : content'[t] = content[t])
      /\ content' \in [Statement -> Content]
  BY <1>1, <1>4 DEF TypeOK
<1>6. UNCHANGED <<accounts, table, files, unlinked, audit, tokens, served, born, dead>>
  BY DEF Link, disk, links
<1>7. PICK r \in Proc : /\ proc' = [proc EXCEPT ![p] = r] /\ r.pc = "tier2"
                        /\ r.stmt = proc[p].stmt /\ r.account = proc[p].account
  <2>1. "tier2" \in PC /\ Goto(p, "tier2")
    BY DEF PC, Upload, Link
  <2>2. QED
    BY <1>1, <2>1, GotoKeeps
<1>8. \A q \in Process \ {p} : Pair(r, proc[q]) /\ Pair(proc[q], r)
  BY <1>1, <1>7, Onward DEF Upload, Uncommitted
<1>9. Fits(r)'
  <2>1. r.stmt = s /\ r.account = proc[p].account /\ r.pc = "tier2"
    BY <1>2, <1>7
  <2>2. table' = table /\ audit' = audit /\ born' = born /\ files' = files /\ content'[s] = c
    BY <1>5, <1>6
  <2>3. Exists(s) => (table[s].status \in Settled /\ table[s].account = r.account)
    BY <1>2, <2>1
  <2>4. c.rows => c.account = table[s].account
    BY <1>3, <1>4, <2>1, <2>3
  <2>5. s \in Statement /\ s \in born /\ <<"upload", s>> \notin audit
    BY <1>2
  <2>6. QED
    BY <2>1, <2>2, <2>3, <2>4, <2>5 DEF Fits, Exists, Upload, Uncommitted, Parsed
<1>10. ASSUME NEW y \in Proc, Fits(y), Pair(proc[p], y)
       PROVE  Fits(y)'
  <2>1. y.pc \in Upload => y.stmt # s
    <3>1. proc[p].pc \in Upload
      BY <1>1 DEF Upload
    <3>2. QED
      BY <1>2, <1>10, <3>1 DEF Pair
  <2>2. y.pc \in Upload => content'[y.stmt] = content[y.stmt]
    <3>1. y.pc \in Upload => y.stmt \in Statement
      BY <1>10 DEF Fits, Upload
    <3>2. QED
      BY <1>5, <2>1, <3>1
  <2>3. QED
    BY <1>6, <1>10, <2>2 DEF Fits, Exists, Upload, Uncommitted, Parsed
<1>11. AllFit' /\ Apart' /\ proc' \in [Process -> Proc]
  BY <1>7, <1>8, <1>9, <1>10, Assemble
<1>12. ~Exists(s) => c = NoContent
  BY <1>3, <1>4 DEF NoContent
<1>13. TypeOK'
  <2>1. \A t \in Statement : ~Exists(t)' => content'[t] = NoContent
    BY <1>1, <1>5, <1>6, <1>12 DEF TypeOK, Exists
  <2>2. QED
    BY <1>1, <1>5, <1>6, <1>11, <2>1 DEF TypeOK, Exists
<1>14. (BornFirst /\ FileBehindStatement /\ NoFileLeftBehind /\ UploadAudited /\ ServedAudited)'
  BY <1>2, <1>5, <1>6 DEF IInv, BornFirst, FileBehindStatement, NoFileLeftBehind,
     UploadAudited, ServedAudited, Exists
<1>15. StatusTellsContent'
  <2>1. ~NoContent.rows
    BY DEF NoContent
  <2>2. QED
    BY <1>4, <1>5, <1>6, <2>1 DEF IInv, StatusTellsContent
<1>16. QED
  BY <1>11, <1>13, <1>14, <1>15 DEF IInv

LEMMA UnlinkStep ==
    ASSUME IInv, NEW p \in Process, Unlink(p)
    PROVE  IInv'
<1>1. TypeOK /\ proc[p] \in Proc /\ proc[p].pc = "unlink" /\ Fits(proc[p])
  BY DEF IInv, TypeOK, AllFit, Unlink, At
<1>2. PICK s \in Statement : s = proc[p].stmt /\ s \in born
  BY <1>1 DEF Fits, Uncommitted
<1>3. /\ files' = files \ {s} /\ unlinked' = unlinked \cup {s}
      /\ UNCHANGED <<accounts, table, content, audit, tokens, served, born, dead>>
  BY <1>2 DEF Unlink, links
<1>4. PICK r \in Proc : /\ proc' = [proc EXCEPT ![p] = r] /\ r.pc = "delete"
                       /\ r.stmt = proc[p].stmt /\ r.account = proc[p].account
  <2>1. "delete" \in PC /\ Goto(p, "delete")
    BY DEF PC, Unlink
  <2>2. QED
    BY <1>1, <2>1, GotoKeeps
<1>5. \A q \in Process \ {p} : Pair(r, proc[q]) /\ Pair(proc[q], r)
  BY <1>1, <1>4, Onward DEF Upload, Uncommitted
<1>6. Fits(r)'
  BY <1>2, <1>3, <1>4 DEF Fits, Upload, Uncommitted, Parsed
<1>7. \A x \in Proc : Fits(x) => Fits(x)'
  BY <1>2, <1>3 DEF Fits, Exists, Uncommitted
<1>8. AllFit' /\ Apart' /\ proc' \in [Process -> Proc]
  BY <1>4, <1>5, <1>6, <1>7, Assemble
<1>9. TypeOK'
  BY <1>1, <1>3, <1>8 DEF TypeOK, Exists
<1>10. (BornFirst /\ FileBehindStatement /\ NoFileLeftBehind /\ StatusTellsContent
          /\ UploadAudited /\ ServedAudited)'
  BY <1>2, <1>3 DEF IInv, BornFirst, FileBehindStatement, NoFileLeftBehind,
     StatusTellsContent, UploadAudited, ServedAudited, Exists
<1>11. QED
  BY <1>8, <1>9, <1>10 DEF IInv

LEMMA DeleteStep ==
    ASSUME IInv, NEW p \in Process, Delete(p)
    PROVE  IInv'
<1>1. TypeOK /\ proc[p] \in Proc /\ proc[p].pc = "delete" /\ Fits(proc[p])
  BY DEF IInv, TypeOK, AllFit, Delete, At
<1>2. PICK s \in Statement : s = proc[p].stmt /\ s \in born /\ s \notin files
  BY <1>1 DEF Fits, Uncommitted
<1>3. /\ table' = [table EXCEPT ![s] = NoRow] /\ content' = [content EXCEPT ![s] = NoContent]
      /\ UNCHANGED <<accounts, files, unlinked, audit, tokens, served, born, dead>>
  BY <1>2 DEF Delete, disk, links
<1>4. /\ table'[s] = NoRow /\ content'[s] = NoContent
      /\ \A t \in Statement \ {s} : table'[t] = table[t] /\ content'[t] = content[t]
      /\ NoContent \in Content /\ ~NoContent.rows /\ NoRow.status = "none"
  <2>1. NoContent \in Content /\ ~NoContent.rows /\ NoRow.status = "none"
    BY StatementsAssumption DEF NoContent, Content, NoRow
  <2>2. QED
    BY <1>1, <1>3, <2>1 DEF TypeOK
<1>5. PICK pc \in PC : pc = "delete audit"
  BY DEF PC
<1>6. PICK r \in Proc : /\ proc' = [proc EXCEPT ![p] = r] /\ r.pc = pc
                       /\ r.stmt = proc[p].stmt /\ r.account = proc[p].account
  <2>1. Goto(p, pc)
    BY <1>5 DEF Delete
  <2>2. QED
    BY <1>1, <2>1, GotoKeeps
<1>7. pc \notin Upload /\ proc[p].pc # "idle"
  BY <1>1, <1>5 DEF Upload
<1>8. \A q \in Process \ {p} : Pair(r, proc[q]) /\ Pair(proc[q], r)
  BY <1>6, <1>7, Onward DEF Upload, Uncommitted
<1>9. Fits(r)'
  BY <1>2, <1>3, <1>4, <1>5, <1>6, <1>7 DEF Fits, Upload, Uncommitted, Parsed
<1>10. ASSUME NEW x \in Proc, Fits(x)
       PROVE  Fits(x)'
  <2>1. CASE x.stmt = s
    BY <1>3, <1>4, <1>10, <2>1 DEF Fits, Exists
  <2>2. CASE x.stmt # s
    <3>1. x.pc # "idle" => table'[x.stmt] = table[x.stmt] /\ content'[x.stmt] = content[x.stmt]
      BY <1>4, <1>10, <2>2 DEF Fits
    <3>2. QED
      BY <1>3, <1>10, <3>1 DEF Fits, Exists, Upload, Uncommitted, Parsed
  <2>3. QED
    BY <2>1, <2>2
<1>11. AllFit' /\ Apart' /\ proc' \in [Process -> Proc]
  BY <1>6, <1>8, <1>9, <1>10, Assemble
<1>12. \A t \in Statement : Exists(t)' <=> Exists(t) /\ t # s
  BY <1>4 DEF Exists
<1>13. TypeOK'
  <2>1. \A t \in Statement : ~Exists(t)' => content'[t] = NoContent
    BY <1>1, <1>4, <1>12 DEF TypeOK
  <2>2. QED
    BY <1>1, <1>3, <1>4, <1>11, <2>1 DEF TypeOK, Exists
<1>14. BornFirst' /\ FileBehindStatement' /\ ServedAudited'
  BY <1>3, <1>12 DEF IInv, BornFirst, FileBehindStatement, ServedAudited
<1>15. NoFileLeftBehind'
  BY <1>1, <1>2, <1>3, <1>12 DEF IInv, TypeOK, NoFileLeftBehind
<1>16. UploadAudited' /\ StatusTellsContent'
  BY <1>3, <1>4, <1>12 DEF IInv, UploadAudited, StatusTellsContent
<1>17. QED
  BY <1>11, <1>13, <1>14, <1>15, <1>16 DEF IInv

(* Steps that write nothing but the audit log, and no upload to it, or     *)
(* hand out a file that is in it.                                          *)
LEMMA Recorded ==
    ASSUME IInv, NEW p \in Process, NEW r \in Proc,
           proc' = [proc EXCEPT ![p] = r], Fits(r)',
           \A q \in Process \ {p} : Pair(r, proc[q]) /\ Pair(proc[q], r),
           UNCHANGED <<accounts, table, content, disk, tokens, born, dead>>,
           audit \subseteq audit',
           audit' \subseteq {"upload", "delete", "download"} \X Statement,
           \A s : <<"upload", s>> \in audit' => <<"upload", s>> \in audit,
           served' \subseteq born, \A s \in served' : <<"download", s>> \in audit'
    PROVE  IInv'
<1>1. \A x \in Proc : Fits(x) => Fits(x)'
  BY DEF Fits, Exists, disk
<1>2. AllFit' /\ Apart' /\ proc' \in [Process -> Proc]
  BY <1>1, Assemble
<1>3. TypeOK'
  BY <1>2 DEF IInv, TypeOK, Exists, disk
<1>4. (BornFirst /\ FileBehindStatement /\ NoFileLeftBehind /\ StatusTellsContent
          /\ UploadAudited /\ ServedAudited)'
  BY DEF IInv, BornFirst, FileBehindStatement, NoFileLeftBehind,
     StatusTellsContent, UploadAudited, ServedAudited, Exists, disk
<1>5. QED
  BY <1>2, <1>3, <1>4 DEF IInv

LEMMA FitsIdle == Fits(Idle)'
<1>1. Idle.pc = "idle"
  BY IdleType
<1>2. QED
  BY <1>1 DEF Fits, Upload, Uncommitted, Parsed

LEMMA RecordStep ==
    ASSUME IInv, NEW p \in Process, DeleteAudit(p) \/ DownloadAudit(p) \/ Serve(p)
    PROVE  IInv'
<1>1. /\ TypeOK /\ proc[p] \in Proc /\ Fits(proc[p])
      /\ audit \subseteq {"upload", "delete", "download"} \X Statement
      /\ served \subseteq born /\ \A s \in served : <<"download", s>> \in audit
  BY DEF IInv, TypeOK, AllFit, ServedAudited
<1>2. /\ proc[p].pc \in {"delete audit", "download audit", "serve"}
      /\ UNCHANGED <<accounts, table, content, disk, tokens, born, dead>>
  BY DEF DeleteAudit, DownloadAudit, Serve, At
<1>3. PICK s \in Statement : s = proc[p].stmt /\ s \in born
  BY <1>1, <1>2 DEF Fits, Uncommitted
<1>4. CASE DeleteAudit(p)
  <2>1. audit' = audit \cup {<<"delete", s>>} /\ served' = served /\ Finish(p)
    BY <1>3, <1>4 DEF DeleteAudit
  <2>2. QED
    <3>1. /\ audit \subseteq audit'
          /\ audit' \subseteq {"upload", "delete", "download"} \X Statement
          /\ \A t : <<"upload", t>> \in audit' => <<"upload", t>> \in audit
      BY <1>1, <2>1
    <3>2. served' \subseteq born /\ \A t \in served' : <<"download", t>> \in audit'
      BY <1>1, <2>1
    <3>3. QED
      BY <1>2, <2>1, <3>1, <3>2, IdleFits, FitsIdle, Recorded DEF Finish
<1>5. CASE DownloadAudit(p)
  <2>1. audit' = audit \cup {<<"download", s>>} /\ served' = served /\ Goto(p, "serve")
    BY <1>3, <1>5 DEF DownloadAudit
  <2>2. "serve" \in PC
    BY DEF PC
  <2>3. PICK r \in Proc : /\ proc' = [proc EXCEPT ![p] = r] /\ r.pc = "serve"
                         /\ r.stmt = proc[p].stmt /\ r.account = proc[p].account
    BY <1>1, <2>1, <2>2, GotoKeeps
  <2>4. \A q \in Process \ {p} : Pair(r, proc[q]) /\ Pair(proc[q], r)
    BY <1>2, <2>3, Onward DEF Upload, Uncommitted
  <2>5. Fits(r)'
    BY <1>2, <1>3, <2>1, <2>3 DEF Fits, Upload, Uncommitted, Parsed
  <2>6. QED
    <3>1. /\ audit \subseteq audit'
          /\ audit' \subseteq {"upload", "delete", "download"} \X Statement
          /\ \A t : <<"upload", t>> \in audit' => <<"upload", t>> \in audit
      BY <1>1, <2>1
    <3>2. served' \subseteq born /\ \A t \in served' : <<"download", t>> \in audit'
      BY <1>1, <2>1
    <3>3. QED
      BY <1>2, <2>3, <2>4, <2>5, <3>1, <3>2, Recorded
<1>6. CASE Serve(p)
  <2>1. served' = served \cup ({s} \cap files) /\ audit' = audit /\ Finish(p)
    BY <1>3, <1>6 DEF Serve
  <2>2. <<"download", s>> \in audit
    BY <1>1, <1>3, <1>6 DEF Serve, At, Fits
  <2>3. QED
    BY <1>1, <1>2, <1>3, <2>1, <2>2, IdleFits, FitsIdle, Recorded DEF Finish
<1>7. QED
  BY <1>4, <1>5, <1>6

LEMMA AnswerStep ==
    ASSUME IInv, NEW p \in Process, Answer(p)
    PROVE  IInv'
<1>1. TypeOK /\ proc[p] \in Proc /\ proc[p].pc = "answer" /\ Fits(proc[p])
  BY DEF IInv, TypeOK, AllFit, Answer, At
<1>2. PICK s \in Statement :
        /\ s = proc[p].stmt /\ s \in born
        /\ Exists(s) => table[s].status \in Settled
        /\ content[s].rows => content[s].account = table[s].account
  BY <1>1 DEF Fits, Upload, Uncommitted, Parsed
<1>3. UNCHANGED <<accounts, table, content, disk, tokens, served, born>>
  BY DEF Answer
<1>4. CASE proc[p].expired
  <2>1. Raise(p) /\ audit' = audit
    BY <1>4 DEF Answer
  <2>2. proc[p].pc \notin Uncommitted \cup {"idle"}
    BY <1>1 DEF Uncommitted
  <2>3. QED
    BY <1>3, <2>1, <2>2, RaiseStep
<1>5. CASE ~proc[p].expired
  <2>1. audit' = audit \cup {<<"upload", s>>} /\ Finish(p) /\ dead' = dead
    BY <1>2, <1>5 DEF Answer
  <2>2. ASSUME NEW x \in Proc, Fits(x), Pair(proc[p], x)
        PROVE  Fits(x)'
    <3>1. x.pc \in Upload => x.stmt # s
      BY <1>1, <1>2, <2>2 DEF Pair, Upload
    <3>2. QED
      BY <1>3, <2>1, <2>2, <3>1 DEF Fits, Exists, disk
  <2>3. AllFit' /\ Apart' /\ proc' \in [Process -> Proc]
    BY <2>1, <2>2, IdleFits, FitsIdle, Assemble DEF Finish
  <2>4. TypeOK'
    BY <1>1, <1>3, <2>1, <2>3 DEF TypeOK, Exists, disk
  <2>5. BornFirst' /\ FileBehindStatement' /\ NoFileLeftBehind' /\ StatusTellsContent' /\ ServedAudited'
    BY <1>2, <1>3, <2>1 DEF IInv, BornFirst, FileBehindStatement, NoFileLeftBehind,
       StatusTellsContent, ServedAudited, Exists, disk
  <2>6. UploadAudited'
    BY <1>2, <1>3, <2>1 DEF IInv, UploadAudited, Exists
  <2>7. QED
    BY <2>3, <2>4, <2>5, <2>6 DEF IInv
<1>6. QED
  BY <1>4, <1>5

-----------------------------------------------------------------------------
(* The theorems.                                                           *)

LEMMA StepIInv == IInv /\ [Next]_vars => IInv'
<1> SUFFICES ASSUME IInv, [Next]_vars
             PROVE  IInv'
  OBVIOUS
<1>1. ASSUME NEW p \in Process, Continue(p)
      PROVE  IInv'
  BY <1>1, ProvisionStep, WriteFileStep, CommitStep, ParseStep, EndStep, LinkStep, TiersStep,
     AnswerStep, UnlinkStep, DeleteStep, RecordStep DEF Continue
<1>2. CASE UNCHANGED vars
  <2>1. accounts' \in Seq(Hint) /\ Len(accounts') <= MaxAccounts /\ tokens' \subseteq born
    BY <1>2 DEF vars, links, IInv, TypeOK
  <2>2. QED
    BY <1>2, <2>1, NobodyMoves DEF vars, links
<1>3. ASSUME NEW p \in Process, Start(p) \/ Continue(p) \/ Abort(p)
      PROVE  IInv'
  BY <1>1, <1>3, StartStep, EndStep
<1>4. CASE Next
  BY <1>3, <1>4, OtherStep DEF Next
<1>5. QED
  BY <1>2, <1>4

LEMMA SpecIInv == Spec => []IInv
BY InitIInv, StepIInv, PTL DEF Spec

(* Types, and nothing hangs on a statement that is not there.              *)
THEOREM TypeCorrect == Spec => []TypeOK
<1>1. IInv => TypeOK
  BY DEF IInv
<1>2. QED
  BY <1>1, SpecIInv, PTL

(* A committed statement has its file until a deletion begins.             *)
THEOREM FileKept == Spec => []FileBehindStatement
<1>1. IInv => FileBehindStatement
  BY DEF IInv
<1>2. QED
  BY <1>1, SpecIInv, PTL

(* A deletion that committed left no file.                                 *)
THEOREM NoLeftover == Spec => []NoFileLeftBehind
<1>1. IInv => NoFileLeftBehind
  BY DEF IInv
<1>2. QED
  BY <1>1, SpecIInv, PTL

(* The status of a statement agrees with what is stored of it.             *)
THEOREM StatusTruthful == Spec => []StatusTellsContent
<1>1. IInv => StatusTellsContent
  BY DEF IInv
<1>2. QED
  BY <1>1, SpecIInv, PTL

(* An upload in the audit log is settled and linked.                       *)
THEOREM AuditedUploadComplete == Spec => []UploadAudited
<1>1. IInv => UploadAudited
  BY DEF IInv
<1>2. QED
  BY <1>1, SpecIInv, PTL

(* Whatever was handed out is in the audit log.                            *)
THEOREM DownloadsAudited == Spec => []ServedAudited
<1>1. IInv => ServedAudited
  BY DEF IInv
<1>2. QED
  BY <1>1, SpecIInv, PTL

(* Only the commit of an upload makes a row, of a statement that was never *)
(* there, and only Tier 1 writes to one, while it is pending.              *)
MovesOn ==
    \A s \in Statement :
        /\ s \in born /\ ~Exists(s) => table'[s] = NoRow
        /\ table[s].status \in Settled => table'[s] \in {table[s], NoRow}

LEMMA StepMovesOn == IInv /\ [Next]_vars => MovesOn
<1> SUFFICES ASSUME IInv, [Next]_vars
             PROVE  MovesOn
  OBVIOUS
<1>1. CASE table' = table
  BY <1>1 DEF MovesOn, Exists
<1>2. ASSUME NEW p \in Process, CommitStatement(p)
      PROVE  MovesOn
  <2>1. Fits(proc[p]) /\ proc[p].pc = "commit"
    BY <1>2 DEF IInv, AllFit, CommitStatement, At
  <2>2. proc[p].stmt \in Statement /\ proc[p].stmt \notin born
    BY <2>1 DEF Fits, Uncommitted
  <2>3. table[proc[p].stmt].status = "none"
    BY <2>2, Columns DEF IInv, BornFirst
  <2>4. \A s \in Statement \ {proc[p].stmt} : table'[s] = table[s]
    BY <1>2 DEF IInv, TypeOK, CommitStatement
  <2>5. QED
    BY <2>2, <2>3, <2>4 DEF MovesOn, Exists, Settled
<1>3. ASSUME NEW p \in Process, Parse(p) \/ Unresolvable(p)
      PROVE  MovesOn
  <2>1. Fits(proc[p]) /\ proc[p].pc = "parse" /\ Exists(proc[p].stmt)
    BY <1>3 DEF IInv, AllFit, Parse, Unresolvable, At
  <2>2. proc[p].stmt \in Statement /\ table[proc[p].stmt].status = "pending"
    BY <2>1 DEF Fits
  <2>3. PICK st \in Settled : table' = [table EXCEPT ![proc[p].stmt].status = st]
    BY <1>3, TierOneOutcome
  <2>4. \A s \in Statement \ {proc[p].stmt} : table'[s] = table[s]
    BY <2>3 DEF IInv, TypeOK
  <2>5. QED
    BY <2>1, <2>2, <2>4 DEF MovesOn, Exists, Settled
<1>4. ASSUME NEW p \in Process, Delete(p)
      PROVE  MovesOn
  <2>1. \A s \in Statement : table'[s] = NoRow \/ table'[s] = table[s]
    BY <1>4 DEF IInv, TypeOK, Delete
  <2>2. QED
    BY <2>1 DEF MovesOn, Exists
<1>5. ASSUME NEW p \in Process, Start(p) \/ Abort(p)
      PROVE  table' = table
  BY <1>5 DEF Start, UploadStart, UploadByHint, DeleteLookup, DownloadLookup, Abort
<1>6. ASSUME NEW p \in Process, Continue(p)
      PROVE  MovesOn \/ table' = table
  BY <1>2, <1>3, <1>4, <1>6 DEF Continue, Provision, WriteFile, ParseRaise, Link, Load,
     Categorize, CategorizeRaise, Refit, Refresh, Answer, AnswerError, Unlink, DeleteAudit,
     Resolve, DownloadAudit, Serve
<1>7. ASSUME \/ \E h \in Hint : CreateAccount(h)
             \/ \E s \in Statement : Mint(s) \/ TokenExpires(s)
      PROVE  table' = table
  BY <1>7 DEF CreateAccount, Mint, TokenExpires
<1>8. CASE UNCHANGED vars
  BY <1>1, <1>8 DEF vars
<1>9. CASE Next
  BY <1>1, <1>5, <1>6, <1>7, <1>9 DEF Next
<1>10. QED
  BY <1>8, <1>9

LEMMA AlwaysMovesOn == []IInv /\ [][Next]_vars => [][MovesOn]_vars
BY StepMovesOn, PTL

(* A deleted statement never returns, a settled one is never parsed again. *)
THEOREM NoReturn == Spec => StatementOnlyMovesOn
<1>1. Spec => [][MovesOn]_vars
  BY SpecIInv, AlwaysMovesOn, PTL DEF Spec
<1>2. QED
  BY <1>1 DEF StatementOnlyMovesOn, MovesOn

-----------------------------------------------------------------------------
(* Refinement: overlapping requests implement StatementLifecycle.          *)

(* A step that leaves the abstract life of every statement as it is.       *)
LEMMA SameLife ==
    ASSUME born' = born, table' = table, files' \cap born = files \cap born,
           \A s \in Statement : content'[s].rows = content[s].rows
    PROVE  UNCHANGED Lifecycle!lifecycleVars
<1>1. \A s \in Statement : StateOf(s)' = StateOf(s)
  BY DEF StateOf, Exists
<1>2. AbstractState' = AbstractState
  BY <1>1 DEF AbstractState
<1>3. AbstractKept' = AbstractKept
  BY DEF AbstractKept
<1>4. AbstractListed' = AbstractListed
  BY DEF AbstractListed
<1>5. QED
  BY <1>2, <1>3, <1>4 DEF Lifecycle!lifecycleVars

(* What StateOf says, before a step and after it.                          *)
LEMMA StateIs ==
    ASSUME NEW s
    PROVE  /\ s \notin born => StateOf(s) = "unborn"
           /\ s \in born /\ table[s] = NoRow => StateOf(s) = "deleted"
           /\ s \in born /\ table[s] # NoRow => StateOf(s) = table[s].status
           /\ s \in born' /\ table'[s] = NoRow => StateOf(s)' = "deleted"
           /\ s \in born' /\ table'[s] # NoRow => StateOf(s)' = table'[s].status
BY Zenon DEF StateOf, Exists

(* A function that changes at one argument.                                *)
LEMMA OneChanged ==
    ASSUME NEW S, NEW s \in S, NEW f, NEW g, f = [t \in S |-> f[t]], g = [t \in S |-> g[t]],
           \A t \in S \ {s} : g[t] = f[t]
    PROVE  g = [f EXCEPT ![s] = g[s]]
BY Zenon

(* A step that concerns one statement.                                     *)
LEMMA OneLife ==
    ASSUME NEW s \in Statement,
           \A t \in Statement \ {s} :
              /\ table'[t] = table[t] /\ content'[t].rows = content[t].rows
              /\ t \in born' <=> t \in born
              /\ t \in files' <=> t \in files
    PROVE  /\ AbstractState' = [AbstractState EXCEPT ![s] = StateOf(s)']
           /\ AbstractKept' = [AbstractKept EXCEPT ![s] = s \in born' \cap files']
           /\ AbstractListed' = [AbstractListed EXCEPT ![s] = content'[s].rows]
<1>1. \A t \in Statement \ {s} : StateOf(t)' = StateOf(t)
  BY Zenon DEF StateOf, Exists
<1>2. AbstractState' = [AbstractState EXCEPT ![s] = StateOf(s)']
  <2>1. /\ AbstractState = [t \in Statement |-> AbstractState[t]]
        /\ AbstractState' = [t \in Statement |-> AbstractState'[t]]
        /\ \A t \in Statement : AbstractState[t] = StateOf(t) /\ AbstractState'[t] = StateOf(t)'
    BY Zenon DEF AbstractState
  <2>2. AbstractState' = [AbstractState EXCEPT ![s] = AbstractState'[s]]
    BY <1>1, <2>1, OneChanged
  <2>3. QED
    BY <2>1, <2>2
<1>3. AbstractKept' = [AbstractKept EXCEPT ![s] = s \in born' \cap files']
  <2>1. \A t \in Statement \ {s} : (t \in born' \cap files') = (t \in born \cap files)
    OBVIOUS
  <2>2. /\ AbstractKept = [t \in Statement |-> AbstractKept[t]]
        /\ AbstractKept' = [t \in Statement |-> AbstractKept'[t]]
        /\ \A t \in Statement : /\ AbstractKept[t] = (t \in born \cap files)
                               /\ AbstractKept'[t] = (t \in born' \cap files')
    BY Zenon DEF AbstractKept
  <2>3. \A t \in Statement \ {s} : AbstractKept'[t] = AbstractKept[t]
    <3> TAKE t \in Statement \ {s}
    <3>1. t \in Statement
      OBVIOUS
    <3>2. AbstractKept[t] = (t \in born \cap files) /\ AbstractKept'[t] = (t \in born' \cap files')
      BY <2>2, <3>1, Zenon
    <3>3. (t \in born' \cap files') = (t \in born \cap files)
      BY <2>1
    <3>4. QED
      BY <3>2, <3>3, Zenon
  <2>4. AbstractKept' = [AbstractKept EXCEPT ![s] = AbstractKept'[s]]
    BY <2>2, <2>3, OneChanged
  <2>5. QED
    BY <2>2, <2>4, Zenon
<1>4. AbstractListed' = [AbstractListed EXCEPT ![s] = content'[s].rows]
  <2>1. /\ AbstractListed = [t \in Statement |-> AbstractListed[t]]
        /\ AbstractListed' = [t \in Statement |-> AbstractListed'[t]]
        /\ \A t \in Statement : /\ AbstractListed[t] = content[t].rows
                               /\ AbstractListed'[t] = content'[t].rows
    BY Zenon DEF AbstractListed
  <2>2. AbstractListed' = [AbstractListed EXCEPT ![s] = AbstractListed'[s]]
    BY <2>1, OneChanged
  <2>3. QED
    BY <2>1, <2>2
<1>5. QED
  BY <1>2, <1>3, <1>4

(* The commit of the upload makes the statement appear, with its file.     *)
LEMMA CommitAppears ==
    ASSUME IInv, NEW p \in Process, CommitStatement(p)
    PROVE  Lifecycle!Next
<1>0. PICK s : s = proc[p].stmt
  OBVIOUS
<1>1. Fits(proc[p]) /\ proc[p].pc = "commit"
  BY DEF IInv, AllFit, CommitStatement, At
<1>2. s \in Statement /\ s \notin born /\ s \in files
  BY <1>0, <1>1 DEF Fits, Uncommitted
<1>3. /\ table' = [table EXCEPT ![s] = Pending(p)] /\ born' = born \cup {s}
      /\ content' = content /\ files' = files
  BY <1>0 DEF CommitStatement, disk
<1>4. Pending(p).status = "pending"
  BY DEF Pending
<1>5. table'[s] = Pending(p) /\ Pending(p) # NoRow
  <2>1. table'[s] = Pending(p)
    BY <1>2, <1>3 DEF IInv, TypeOK
  <2>2. QED
    BY <1>4, <2>1 DEF NoRow
<1>6. StateOf(s) = "unborn" /\ StateOf(s)' = "pending"
  <2>1. s \in born'
    BY <1>3
  <2>2. table'[s] # NoRow /\ table'[s].status = "pending"
    BY <1>4, <1>5
  <2>3. QED
    BY <1>2, <2>1, <2>2, StateIs
<1>7. \A t \in Statement \ {s} :
        /\ table'[t] = table[t] /\ content'[t].rows = content[t].rows
        /\ t \in born' <=> t \in born
        /\ t \in files' <=> t \in files
  BY <1>3 DEF IInv, TypeOK
<1>8. /\ AbstractState' = [AbstractState EXCEPT ![s] = StateOf(s)']
      /\ AbstractKept' = [AbstractKept EXCEPT ![s] = s \in born' \cap files']
  BY <1>2, <1>7, OneLife
<1>9. (s \in born' \cap files') = TRUE
  BY <1>2, <1>3
<1>10. AbstractListed' = AbstractListed
  BY <1>3 DEF AbstractListed
<1>11. Lifecycle!Appear(s)
  BY <1>2, <1>6, <1>8, <1>9, <1>10, Zenon DEF Lifecycle!Appear, AbstractState
<1>12. QED
  BY <1>2, <1>11 DEF Lifecycle!Next

(* Tier 1 settles it, in one commit with its transactions.                 *)
LEMMA ParseSettles ==
    ASSUME IInv, NEW p \in Process, Parse(p) \/ Unresolvable(p)
    PROVE  Lifecycle!Next
<1>0. PICK s : s = proc[p].stmt
  OBVIOUS
<1>1. Fits(proc[p]) /\ proc[p].pc = "parse" /\ Exists(s)
  BY <1>0 DEF IInv, AllFit, Parse, Unresolvable, At
<1>2. s \in Statement /\ s \in born /\ table[s].status = "pending"
  BY <1>0, <1>1 DEF Fits, Uncommitted
<1>3. PICK c \in Content, st \in Settled :
        /\ content' = [content EXCEPT ![s] = c] /\ table' = [table EXCEPT ![s].status = st]
        /\ st = "failed_needs_manual" => ~c.rows
        /\ st = "parsed_with_warnings" => c.rows
        /\ st = "parsed_clean" => c.rows
  BY <1>0, TierOneOutcome
<1>4. born' = born /\ files' = files
  BY DEF Parse, Unresolvable, disk
<1>5. table[s] \in Row
  BY <1>1, <1>2, Columns DEF IInv
<1>6. content'[s] = c /\ table'[s] = [table[s] EXCEPT !.status = st]
  BY <1>2, <1>3 DEF IInv, TypeOK
<1>7. table'[s].status = st /\ st # "none"
  BY <1>5, <1>6 DEF Row, Settled
<1>8. StateOf(s) = "pending" /\ StateOf(s)' = st
  <2>1. table[s] # NoRow /\ table'[s] # NoRow
    BY <1>1, <1>7 DEF Exists, NoRow
  <2>2. QED
    BY <1>2, <1>4, <1>7, <2>1, StateIs
<1>9. c.rows = (st \in Lifecycle!Listing)
  BY <1>3 DEF Settled, Lifecycle!Listing, Content
<1>10. \A t \in Statement \ {s} :
        /\ table'[t] = table[t] /\ content'[t].rows = content[t].rows
        /\ t \in born' <=> t \in born
        /\ t \in files' <=> t \in files
  BY <1>3, <1>4 DEF IInv, TypeOK
<1>11. AbstractKept' = AbstractKept
  BY <1>4 DEF AbstractKept
<1>12. /\ AbstractState' = [AbstractState EXCEPT ![s] = StateOf(s)']
       /\ AbstractListed' = [AbstractListed EXCEPT ![s] = content'[s].rows]
  BY <1>2, <1>10, OneLife
<1>13. Lifecycle!Settle(s, st)
  BY <1>2, <1>6, <1>8, <1>9, <1>11, <1>12, Zenon DEF Lifecycle!Settle, AbstractState
<1>14. st \in Lifecycle!Listing \cup {"failed_needs_manual"}
  BY DEF Settled, Lifecycle!Listing
<1>15. QED
  BY <1>2, <1>13, <1>14 DEF Lifecycle!Next

(* The first deletion to unlink the file takes it away.                    *)
LEMMA UnlinkLoses ==
    ASSUME IInv, NEW p \in Process, Unlink(p)
    PROVE  [Lifecycle!Next]_(Lifecycle!lifecycleVars)
<1>0. PICK s : s = proc[p].stmt
  OBVIOUS
<1>1. Fits(proc[p]) /\ proc[p].pc = "unlink"
  BY DEF IInv, AllFit, Unlink, At
<1>2. s \in Statement /\ s \in born
  BY <1>0, <1>1 DEF Fits, Uncommitted
<1>3. born' = born /\ table' = table /\ content' = content /\ files' = files \ {s}
  BY <1>0 DEF Unlink
<1>4. CASE s \notin files
  BY <1>3, <1>4, SameLife
<1>5. CASE s \in files
  <2>1. Exists(s)
    BY <1>2, <1>5 DEF IInv, NoFileLeftBehind
  <2>2. table[s].status \in {"pending"} \cup Settled
    BY <1>2, <2>1, Columns DEF IInv
  <2>3. StateOf(s) \notin {"unborn", "deleted"}
    BY <1>2, <2>1, <2>2, StateIs DEF Exists, Settled
  <2>4. AbstractState' = AbstractState /\ AbstractListed' = AbstractListed
    BY <1>3 DEF AbstractState, AbstractListed, StateOf, Exists
  <2>5. \A t \in Statement \ {s} :
          /\ table'[t] = table[t] /\ content'[t].rows = content[t].rows
          /\ t \in born' <=> t \in born
          /\ t \in files' <=> t \in files
    BY <1>3
  <2>6. (s \in born' \cap files') = FALSE /\ (s \in born \cap files) = TRUE
    BY <1>2, <1>3, <1>5
  <2>7. AbstractKept' = [AbstractKept EXCEPT ![s] = s \in born' \cap files']
    BY <1>2, <2>5, OneLife
  <2>8. Lifecycle!LoseFile(s)
    BY <1>2, <2>3, <2>4, <2>6, <2>7, Zenon DEF Lifecycle!LoseFile, AbstractState, AbstractKept
  <2>9. QED
    BY <1>2, <2>8 DEF Lifecycle!Next
<1>6. QED
  BY <1>4, <1>5

(* The first to delete the row removes the statement; by then there is no  *)
(* file.                                                                   *)
LEMMA DeleteRemoves ==
    ASSUME IInv, NEW p \in Process, Delete(p)
    PROVE  [Lifecycle!Next]_(Lifecycle!lifecycleVars)
<1>0. PICK s : s = proc[p].stmt
  OBVIOUS
<1>1. Fits(proc[p]) /\ proc[p].pc = "delete"
  BY DEF IInv, AllFit, Delete, At
<1>2. s \in Statement /\ s \in born /\ s \notin files
  BY <1>0, <1>1 DEF Fits, Uncommitted
<1>3. /\ born' = born /\ files' = files
      /\ table' = [table EXCEPT ![s] = NoRow] /\ content' = [content EXCEPT ![s] = NoContent]
  BY <1>0 DEF Delete, disk
<1>4. table'[s] = NoRow /\ content'[s] = NoContent
  BY <1>2, <1>3 DEF IInv, TypeOK
<1>5. CASE ~Exists(s)
  <2>1. table[s] = NoRow /\ content[s] = NoContent
    BY <1>2, <1>5 DEF Exists, IInv, TypeOK
  <2>2. table' = table /\ content' = content
    BY <1>3, <2>1 DEF IInv, TypeOK
  <2>3. QED
    BY <1>3, <2>2, SameLife
<1>6. CASE Exists(s)
  <2>1. table[s].status \in {"pending"} \cup Settled
    BY <1>2, <1>6, Columns DEF IInv
  <2>2. StateOf(s) \notin {"unborn", "deleted"}
    <3>1. table[s] # NoRow
      BY <1>6 DEF Exists
    <3>2. StateOf(s) = table[s].status
      BY <1>2, <3>1, StateIs
    <3>3. QED
      BY <2>1, <3>2 DEF Settled
  <2>3. StateOf(s)' = "deleted"
    <3>1. s \in born' /\ table'[s] = NoRow
      BY <1>2, <1>3, <1>4
    <3>2. QED
      BY <3>1, StateIs
  <2>4. \A t \in Statement \ {s} :
          /\ table'[t] = table[t] /\ content'[t].rows = content[t].rows
          /\ t \in born' <=> t \in born
          /\ t \in files' <=> t \in files
    BY <1>3 DEF IInv, TypeOK
  <2>5. content'[s].rows = FALSE
    BY <1>4 DEF NoContent
  <2>6. (s \in born \cap files) = FALSE
    BY <1>2
  <2>7. AbstractKept' = AbstractKept
    BY <1>3 DEF AbstractKept
  <2>8. /\ AbstractState' = [AbstractState EXCEPT ![s] = StateOf(s)']
        /\ AbstractListed' = [AbstractListed EXCEPT ![s] = content'[s].rows]
    BY <1>2, <2>4, OneLife
  <2>9. Lifecycle!Remove(s)
    BY <1>2, <2>2, <2>3, <2>5, <2>6, <2>7, <2>8, Zenon
       DEF Lifecycle!Remove, AbstractState, AbstractKept
  <2>10. QED
    BY <1>2, <2>9 DEF Lifecycle!Next
<1>7. QED
  BY <1>5, <1>6

(* A file is written before its statement is born, and a link only says    *)
(* whose the transactions are.                                             *)
LEMMA QuietLife ==
    ASSUME IInv, NEW p \in Process, WriteFile(p) \/ Link(p)
    PROVE  UNCHANGED Lifecycle!lifecycleVars
<1> DEFINE s == proc[p].stmt
<1>1. Fits(proc[p]) /\ TypeOK
  BY DEF IInv, AllFit
<1>2. CASE WriteFile(p)
  <2>1. s \notin born /\ files' = files \cup {s}
    BY <1>1, <1>2 DEF WriteFile, At, Fits, Uncommitted
  <2>2. UNCHANGED <<table, content, born>>
    BY <1>2 DEF WriteFile
  <2>3. QED
    BY <2>1, <2>2, SameLife
<1>3. CASE Link(p)
  <2>1. UNCHANGED <<table, files, born>>
    BY <1>3 DEF Link, disk
  <2>2. PICK a : content' = [content EXCEPT ![s].account = a]
    BY <1>3 DEF Link
  <2>3. ASSUME NEW t \in Statement
        PROVE  content'[t].rows = content[t].rows
    <3>1. content[t] \in Content
      BY <1>1 DEF TypeOK
    <3>2. CASE t = s
      <4>1. content'[t] = [content[t] EXCEPT !.account = a]
        BY <1>1, <2>2, <3>2 DEF TypeOK
      <4>2. QED
        BY <3>1, <4>1 DEF Content
    <3>3. CASE t # s
      BY <1>1, <2>2, <3>3 DEF TypeOK
    <3>4. QED
      BY <3>2, <3>3
  <2>4. QED
    BY <2>1, <2>3, SameLife
<1>4. QED
  BY <1>2, <1>3

(* Every step is a step of StatementLifecycle or a stutter.                *)
LEMMA StepRefines == IInv /\ [Next]_vars => [Lifecycle!Next]_(Lifecycle!lifecycleVars)
<1> SUFFICES ASSUME IInv, [Next]_vars
             PROVE  [Lifecycle!Next]_(Lifecycle!lifecycleVars)
  OBVIOUS
<1>1. CASE UNCHANGED <<table, content, files, born>>
  BY <1>1, SameLife
<1>2. ASSUME NEW p \in Process, Continue(p)
      PROVE  [Lifecycle!Next]_(Lifecycle!lifecycleVars)
  <2>1. CASE WriteFile(p) \/ Link(p)
    BY <2>1, QuietLife
  <2>2. CASE CommitStatement(p)
    BY <2>2, CommitAppears
  <2>3. CASE Parse(p) \/ Unresolvable(p)
    BY <2>3, ParseSettles
  <2>4. CASE Unlink(p)
    BY <2>4, UnlinkLoses
  <2>5. CASE Delete(p)
    BY <2>5, DeleteRemoves
  <2>6. CASE \/ Provision(p) \/ ParseRaise(p) \/ Load(p) \/ Categorize(p) \/ CategorizeRaise(p)
             \/ Refit(p) \/ Refresh(p) \/ Answer(p) \/ AnswerError(p) \/ DeleteAudit(p)
             \/ Resolve(p) \/ DownloadAudit(p) \/ Serve(p)
    BY <1>1, <2>6 DEF Provision, ParseRaise, Load, Categorize, CategorizeRaise, Refit, Refresh,
       Answer, AnswerError, DeleteAudit, Resolve, DownloadAudit, Serve, disk
  <2>7. QED
    BY <1>2, <2>1, <2>2, <2>3, <2>4, <2>5, <2>6 DEF Continue
<1>3. ASSUME NEW p \in Process, Start(p) \/ Abort(p)
      PROVE  UNCHANGED <<table, content, files, born>>
  BY <1>3 DEF Start, UploadStart, UploadByHint, DeleteLookup, DownloadLookup, Abort, disk
<1>4. ASSUME \/ \E h \in Hint : CreateAccount(h)
             \/ \E s \in Statement : Mint(s) \/ TokenExpires(s)
      PROVE  UNCHANGED <<table, content, files, born>>
  BY <1>4 DEF CreateAccount, Mint, TokenExpires, disk
<1>5. CASE UNCHANGED vars
  BY <1>1, <1>5 DEF vars, disk
<1>6. CASE Next
  BY <1>1, <1>2, <1>3, <1>4, <1>6 DEF Next
<1>7. QED
  BY <1>5, <1>6

(* Requests that overlap, crash and raise between their commits implement  *)
(* the life of a statement: it appears with its file, is settled once and  *)
(* together with its transactions, is removed after its file and never     *)
(* comes back (statement_service.py:41-140).                               *)
THEOREM Refinement == Spec => ImplementsLifecycle
<1>1. ASSUME Init
      PROVE  Lifecycle!Init
  <2>1. \A s \in Statement : StateOf(s) = "unborn" /\ content[s].rows = FALSE
    <3>1. \A s \in Statement : s \notin born /\ content[s] = NoContent
      BY <1>1 DEF Init
    <3>2. QED
      BY <3>1, StateIs DEF NoContent
  <2>2. \A s \in Statement : (s \in born \cap files) = FALSE
    <3>1. born = {}
      BY <1>1 DEF Init
    <3>2. QED
      BY <3>1
  <2>3. QED
    BY <2>1, <2>2, Zenon DEF Lifecycle!Init, AbstractState, AbstractKept, AbstractListed
<1>2. QED
  BY <1>1, StepRefines, SpecIInv, PTL DEF Spec, Lifecycle!Spec, ImplementsLifecycle

-----------------------------------------------------------------------------
(* The safety half of PendingSettles.                                      *)

(* An upload is about to settle every pending statement, unless it died.   *)
Attended(s) == s \in dead \/ \E p \in Process : At(p, "parse") /\ proc[p].stmt = s

PendingAttended == \A s \in Statement : table[s].status = "pending" => Attended(s)

(* Whatever its next step is, it settles the statement or dies in it.      *)
Decides(p) ==
    \/ proc'[p] = proc[p]
    \/ table'[proc[p].stmt].status # "pending"
    \/ proc[p].stmt \in dead'

PendingInHand ==
    [][\A s \in Statement : table[s].status = "pending" =>
          \/ s \in dead
          \/ \E p \in Process : At(p, "parse") /\ proc[p].stmt = s /\ Decides(p)]_vars

(* No step moves more than one request.                                    *)
OnlyMoves(p) == \A q \in Process \ {p} : proc'[q] = proc[q]

LEMMA MovesOne ==
    ASSUME TypeOK, NEW p \in Process, Start(p) \/ Continue(p) \/ Abort(p)
    PROVE  OnlyMoves(p)
<1>1. CASE Start(p)
  BY <1>1 DEF Start, UploadStart, UploadByHint, DeleteLookup, DownloadLookup, Begin, OnlyMoves,
     TypeOK
<1>2. CASE Continue(p)
  BY <1>2 DEF Continue, Provision, WriteFile, CommitStatement, Parse, AfterParse, Unresolvable,
     ParseRaise, Raise, Link, Load, Categorize, CategorizeRaise, Refit, Refresh, Answer,
     AnswerError, Unlink, Delete, DeleteAudit, Resolve, DownloadAudit, Serve, Goto, Begin, Finish,
     OnlyMoves, TypeOK
<1>3. CASE Abort(p)
  BY <1>3 DEF Abort, Finish, OnlyMoves, TypeOK
<1>4. QED
  BY <1>1, <1>2, <1>3

(* From Tier 1 a request leads to a settled status or to its death.        *)
LEMMA ParseDecides ==
    ASSUME IInv, NEW p \in Process, At(p, "parse"), Start(p) \/ Continue(p) \/ Abort(p)
    PROVE  table'[proc[p].stmt].status # "pending" \/ proc[p].stmt \in dead'
<1> DEFINE s == proc[p].stmt
<1>1. s \in Statement
  BY BusyStatement DEF At
<1>2. CASE Abort(p)
  BY <1>2 DEF At, Abort, Upload
<1>3. CASE ParseRaise(p)
  BY <1>3 DEF ParseRaise, Raise
<1>4. CASE Parse(p) \/ Unresolvable(p)
  <2>1. Exists(s)
    BY <1>4 DEF Parse, Unresolvable
  <2>2. PICK st \in Settled : table' = [table EXCEPT ![s].status = st]
    BY <1>4, TierOneOutcome
  <2>3. table[s] \in Row
    BY <1>1, <2>1, Columns DEF IInv
  <2>4. table'[s] = [table[s] EXCEPT !.status = st]
    BY <1>1, <2>2 DEF IInv, TypeOK
  <2>5. table'[s].status = st
    BY <2>3, <2>4 DEF Row
  <2>6. QED
    BY <2>5 DEF Settled
<1>5. ~Start(p) /\ (Continue(p) => Parse(p) \/ Unresolvable(p) \/ ParseRaise(p))
  BY DEF At, Start, UploadStart, UploadByHint, DeleteLookup, DownloadLookup, Continue, Provision,
     WriteFile, CommitStatement, Link, Load, Categorize, CategorizeRaise, Refit, Refresh, Answer,
     AnswerError, Unlink, Delete, DeleteAudit, Resolve, DownloadAudit, Serve
<1>6. QED
  BY <1>2, <1>3, <1>4, <1>5

(* Only the commit of an upload makes a statement pending.                 *)
LEMMA MadePending ==
    ASSUME IInv, [Next]_vars, NEW s \in Statement,
           table'[s].status = "pending", table[s].status # "pending"
    PROVE  \E p \in Process : proc[p].stmt = s /\ CommitStatement(p)
<1>1. table' # table
  OBVIOUS
<1>2. \A p \in Process : Delete(p) => table'[s] \in {table[s], NoRow}
  BY DEF Delete, IInv, TypeOK
<1>3. NoRow.status = "none"
  BY DEF NoRow
<1>4. ASSUME NEW p \in Process, Parse(p) \/ Unresolvable(p)
      PROVE  FALSE
  <2>1. proc[p].pc = "parse" /\ Exists(proc[p].stmt)
    BY <1>4 DEF Parse, Unresolvable, At
  <2>2. proc[p].stmt \in Statement
    BY <2>1, BusyStatement
  <2>3. PICK st \in Settled : table' = [table EXCEPT ![proc[p].stmt].status = st]
    BY <1>4, TierOneOutcome
  <2>4. table[proc[p].stmt] \in Row
    BY <2>1, <2>2, Columns DEF IInv
  <2>5. table'[s] = table[s] \/ table'[s] = [table[s] EXCEPT !.status = st]
    BY <2>3 DEF IInv, TypeOK
  <2>6. s = proc[p].stmt
    BY <2>3 DEF IInv, TypeOK
  <2>7. table'[s].status = st \/ table'[s].status = table[s].status
    BY <2>4, <2>5, <2>6 DEF Row
  <2>8. QED
    BY <2>7 DEF Settled
<1>5. PICK p \in Process : CommitStatement(p)
  <2>1. Next
    BY <1>1 DEF vars
  <2>2. PICK p \in Process : Continue(p)
    BY <1>1, <2>1 DEF Next, Start, UploadStart, UploadByHint, DeleteLookup, DownloadLookup, Abort,
       CreateAccount, Mint, TokenExpires
  <2>3. CommitStatement(p) \/ Parse(p) \/ Unresolvable(p) \/ Delete(p)
    BY <1>1, <2>2 DEF Continue, Provision, WriteFile, ParseRaise, Link, Load, Categorize,
       CategorizeRaise, Refit, Refresh, Answer, AnswerError, Unlink, DeleteAudit, Resolve,
       DownloadAudit, Serve
  <2>4. QED
    BY <1>2, <1>3, <1>4, <2>3
<1>6. proc[p].stmt = s
  BY <1>5 DEF CommitStatement, IInv, TypeOK
<1>7. QED
  BY <1>5, <1>6

LEMMA DeadForGood == [Next]_vars => dead \subseteq dead'
<1> SUFFICES ASSUME [Next]_vars
             PROVE  dead \subseteq dead'
  OBVIOUS
<1>1. CASE UNCHANGED vars
  BY <1>1 DEF vars
<1>2. ASSUME NEW p \in Process, Start(p)
      PROVE  dead \subseteq dead'
  BY <1>2 DEF Start, UploadStart, UploadByHint, DeleteLookup, DownloadLookup
<1>3. ASSUME NEW p \in Process, Continue(p)
      PROVE  dead \subseteq dead'
  <2>1. CASE Provision(p) \/ WriteFile(p) \/ CommitStatement(p)
    BY <2>1 DEF Provision, WriteFile, CommitStatement
  <2>2. CASE Parse(p) \/ Unresolvable(p) \/ Link(p) \/ Load(p) \/ Categorize(p)
    BY <2>2 DEF Parse, Unresolvable, Link, Load, Categorize
  <2>3. CASE ParseRaise(p) \/ CategorizeRaise(p) \/ Refit(p)
    BY <2>3 DEF ParseRaise, CategorizeRaise, Refit, Raise
  <2>4. CASE Refresh(p) \/ Answer(p) \/ AnswerError(p)
    BY <2>4 DEF Refresh, Answer, AnswerError, Raise
  <2>5. CASE Unlink(p) \/ Delete(p) \/ DeleteAudit(p)
    BY <2>5 DEF Unlink, Delete, DeleteAudit
  <2>6. CASE Resolve(p) \/ DownloadAudit(p) \/ Serve(p)
    BY <2>6 DEF Resolve, DownloadAudit, Serve
  <2>7. QED
    BY <1>3, <2>1, <2>2, <2>3, <2>4, <2>5, <2>6 DEF Continue
<1>4. ASSUME NEW p \in Process, Abort(p)
      PROVE  dead \subseteq dead'
  BY <1>4 DEF Abort
<1>5. CASE (\E h \in Hint : CreateAccount(h)) \/ \E s \in Statement : Mint(s) \/ TokenExpires(s)
  BY <1>5 DEF CreateAccount, Mint, TokenExpires
<1>6. QED
  BY <1>1, <1>2, <1>3, <1>4, <1>5 DEF Next

(* While it is at Tier 1, an upload stays there or decides.                *)
LEMMA AlwaysDecides ==
    ASSUME IInv, [Next]_vars, NEW p \in Process, At(p, "parse")
    PROVE  Decides(p)
<1>1. CASE proc' = proc
  BY <1>1 DEF Decides
<1>2. ASSUME NEW q \in Process, Start(q) \/ Continue(q) \/ Abort(q)
      PROVE  Decides(p)
  <2>1. CASE q = p
    BY <1>2, <2>1, ParseDecides DEF Decides
  <2>2. CASE q # p
    BY <1>2, <2>2, MovesOne DEF OnlyMoves, Decides, IInv
  <2>3. QED
    BY <2>1, <2>2
<1>3. QED
  BY <1>1, <1>2 DEF Next, vars, CreateAccount, Mint, TokenExpires

LEMMA NextAttended == IInv /\ PendingAttended /\ [Next]_vars => PendingAttended'
<1> SUFFICES ASSUME IInv, PendingAttended, [Next]_vars, NEW s \in Statement,
                    table'[s].status = "pending"
             PROVE  Attended(s)'
  BY DEF PendingAttended
<1>1. CASE table[s].status = "pending"
  <2>1. CASE s \in dead
    BY <2>1, DeadForGood DEF Attended
  <2>2. CASE s \notin dead
    <3>1. PICK p \in Process : At(p, "parse") /\ proc[p].stmt = s
      BY <1>1, <2>2 DEF PendingAttended, Attended
    <3>2. Decides(p)
      BY <3>1, AlwaysDecides
    <3>3. QED
      BY <3>1, <3>2 DEF Decides, Attended, At
  <2>3. QED
    BY <2>1, <2>2
<1>2. CASE table[s].status # "pending"
  <2>1. PICK p \in Process : proc[p].stmt = s /\ CommitStatement(p)
    BY <1>2, MadePending
  <2>2. PICK r \in Proc : /\ proc' = [proc EXCEPT ![p] = r] /\ r.pc = "parse"
                          /\ r.stmt = proc[p].stmt
    <3>1. TypeOK /\ "parse" \in PC /\ Goto(p, "parse")
      BY <2>1 DEF IInv, PC, Upload, CommitStatement
    <3>2. QED
      BY <3>1, GotoKeeps
  <2>3. proc'[p] = r
    BY <2>2 DEF IInv, TypeOK
  <2>4. QED
    BY <2>1, <2>2, <2>3 DEF Attended, At
<1>3. QED
  BY <1>1, <1>2

LEMMA InitAttended == Init => PendingAttended
BY DEF Init, PendingAttended, NoRow

LEMMA StepInHand ==
    IInv /\ PendingAttended /\ [Next]_vars =>
        \A s \in Statement : table[s].status = "pending" =>
            \/ s \in dead
            \/ \E p \in Process : At(p, "parse") /\ proc[p].stmt = s /\ Decides(p)
BY AlwaysDecides DEF PendingAttended, Attended

(* A pending statement always has an upload that is about to settle it,    *)
(* and nothing that others do, a deletion included, puts it off: the next  *)
(* step of that upload settles the statement or is on record as its death  *)
(* (statement_service.py:81).  What PendingSettles says beyond this is     *)
(* that the upload is scheduled.                                           *)
THEOREM PendingHasUpload == Spec => PendingInHand
<1>1. Spec => []PendingAttended
  BY InitAttended, NextAttended, SpecIInv, PTL DEF Spec
<1>2. QED
  BY <1>1, StepInHand, SpecIInv, PTL DEF Spec, PendingInHand
=============================================================================
