------------------------------- MODULE Settings -------------------------------
(***************************************************************************)
(* The settings of GUI mode: the file connections.json, which every        *)
(* request of the settings pages reads, changes and writes back as a       *)
(* whole, and what the list of polled servers (module ServerList) is told  *)
(* afterwards.  Reads share a lock, a write has it alone; nothing holds it *)
(* from the read to the write.                                             *)
(*                                                                         *)
(* A password is how often it was encrypted: 0 in memory, where it is      *)
(* used, 1 in the file.  Names and addresses are left out, and with them   *)
(* the requests that end because a name is taken or a field is empty.      *)
(***************************************************************************)
EXTENDS Integers

CONSTANTS
  ServerKeys, CredKeys, (* keys: an add takes one that was never used      *)
  Editors,              (* requests in progress                            *)
  TRUSTED, OWN,         (* logins besides the credentials: Windows, and a  *)
                        (* login or connection string of the server's own  *)
  Descriptions,         (* a server's name, address and tags               *)
  MaxDepth,             (* bound: how often a password is encrypted        *)
  TORN,                 (* a file that os.WriteFile did not finish         *)
  NONE

Logins == CredKeys \cup {TRUSTED, OWN}
Depth  == 0..MaxDepth
Server == [login : Logins, secret : Depth, desc : Descriptions]

(* unchecked is history: the servers that were saved with a credential     *)
(* nobody had looked for, by an edit that named a missing one or by a      *)
(* deletion that found no use of it in a file newer than the one it saved. *)
Connections ==
  [creds : [CredKeys -> Depth \cup {NONE}], servers : [ServerKeys -> Server \cup {NONE}],
   unchecked : SUBSET ServerKeys]

ASSUME SettingsAssumption ==
  /\ MaxDepth \in Nat \ {0}
  /\ TRUSTED # OWN /\ {TRUSTED, OWN} \cap CredKeys = {}
  /\ NONE \notin Server \cup Depth \cup Connections /\ TORN \notin Connections

VARIABLES
  running,   (* IsItSQL runs                                               *)
  file,      (* connections.json                                           *)
  list,      (* the list: a server's settings, its password as it is used  *)
  pc, op, key, form, conn, (* of a request: its next step, which page it   *)
             (* is, the key it is about, what it is to save, and the       *)
             (* Connections it read                                        *)
  overlapped, startable, edited (* history of the time since the start:    *)
             (* two requests were in progress at once; what the start read *)
             (* was whole, every server in it had its credential, and it   *)
             (* was written back; the servers whose edits the list was told *)

requestVars == <<pc, op, key, form, conn>>
historyVars == <<overlapped, startable, edited>>
vars == <<running, file, list, requestVars, historyVars>>

Empty ==
  [creds |-> [c \in CredKeys |-> NONE], servers |-> [k \in ServerKeys |-> NONE],
   unchecked |-> {}]

NoServers == [k \in ServerKeys |-> NONE]

AllIdle ==
  /\ pc' = [e \in Editors |-> "idle"] /\ op' = [e \in Editors |-> NONE]
  /\ key' = [e \in Editors |-> NONE] /\ form' = [e \in Editors |-> NONE]
  /\ conn' = [e \in Editors |-> NONE]

Init ==
  /\ running = FALSE /\ file = Empty /\ list = NoServers
  /\ pc = [e \in Editors |-> "idle"] /\ op = [e \in Editors |-> NONE]
  /\ key = [e \in Editors |-> NONE] /\ form = [e \in Editors |-> NONE]
  /\ conn = [e \in Editors |-> NONE]
  /\ overlapped = FALSE /\ startable = FALSE /\ edited = {}

Users(c, a) == {k \in ServerKeys : a.servers[k] # NONE /\ a.servers[k].login = c}

(* Mutant: decrypts also where there is no password.                       *)
DecryptedAlways(s) == [s EXCEPT !.secret = @ - 1]

(* dpapi: what GetSQLServer and ReadConnectionsDecrypted do to a server,   *)
(* and what AddSQLServer and SaveSQLServer do.                             *)
Decrypted(s) == IF s.login = OWN THEN [s EXCEPT !.secret = @ - 1] ELSE s
Encrypted(s) == IF s.login = OWN THEN [s EXCEPT !.secret = @ + 1] ELSE s
-----------------------------------------------------------------------------
(* The pages, up to the call that changes the settings                     *)

Begin(e, o, k, f) ==
  /\ running /\ pc[e] = "idle"
  /\ pc' = [pc EXCEPT ![e] = "read"] /\ op' = [op EXCEPT ![e] = o]
  /\ key' = [key EXCEPT ![e] = k] /\ form' = [form EXCEPT ![e] = f]
  /\ overlapped' = (overlapped \/ \E d \in Editors : pc[d] # "idle")
  /\ UNCHANGED <<running, file, list, conn, startable, edited>>

Unused(k) ==
  /\ \A e \in Editors : key[e] # k
  /\ \A a \in {file} \cup {conn[e] : e \in Editors} :
       a \notin {TORN, NONE} =>
         /\ k \in ServerKeys => a.servers[k] = NONE
         /\ k \in CredKeys   => a.creds[k] = NONE
  /\ k \in ServerKeys => list[k] = NONE

(* The credential may come from a form that is older than its deletion.    *)
ServerAdd(e, k, l, d) ==
  /\ Unused(k)
  /\ Begin(e, "addServer", k, [login |-> l, desc |-> d, secret |-> 0])

(* GetSQLServer, then the form over it: an empty password leaves the one   *)
(* that was read, if there is one.                                         *)
ServerEdit(e, k, l, d, given) ==
  /\ file # TORN /\ file.servers[k] # NONE
  /\ given \/ l # OWN \/ file.servers[k].login = OWN
  /\ Begin(e, "editServer", k,
       [login |-> l, desc |-> d,
        secret |-> IF l = OWN /\ ~given THEN Decrypted(file.servers[k]).secret ELSE 0])

ServerDelete(e, k) ==
  /\ file # TORN /\ file.servers[k] # NONE
  /\ Begin(e, "deleteServer", k, NONE)

CredentialAdd(e, c) ==
  /\ Unused(c)
  /\ Begin(e, "addCredential", c, 0)

(* The credential of ReadConnections, with the password of the form if it  *)
(* has one.                                                                *)
CredentialEdit(e, c, given) ==
  /\ file # TORN /\ file.creds[c] # NONE
  /\ given \/ file.creds[c] < MaxDepth
  /\ Begin(e, "editCredential", c, IF given THEN 0 ELSE file.creds[c])

CredentialDelete(e, c) ==
  /\ file # TORN /\ file.creds[c] # NONE /\ Users(c, file) = {}
  /\ Begin(e, "deleteCredential", c, NONE)

Request(e) ==
  \/ \E k \in ServerKeys, l \in Logins, d \in Descriptions :
       ServerAdd(e, k, l, d) \/ \E given \in BOOLEAN : ServerEdit(e, k, l, d, given)
  \/ \E k \in ServerKeys : ServerDelete(e, k)
  \/ \E c \in CredKeys :
       CredentialAdd(e, c) \/ CredentialDelete(e, c)
       \/ \E given \in BOOLEAN : CredentialEdit(e, c, given)
-----------------------------------------------------------------------------
(* internal/settings                                                       *)

Ends(e, label) ==
  /\ pc' = [pc EXCEPT ![e] = label]
  /\ IF label = "idle"
     THEN /\ op' = [op EXCEPT ![e] = NONE] /\ key' = [key EXCEPT ![e] = NONE]
          /\ form' = [form EXCEPT ![e] = NONE]
     ELSE UNCHANGED <<op, key, form>>

(* Mutant: a credential is not looked for.                                 *)
RefusedUnchecked(e, a) ==
  CASE op[e] = "editServer" -> a.servers[key[e]] = NONE
    [] op[e] \in {"editCredential", "deleteCredential"} -> a.creds[key[e]] = NONE
    [] OTHER -> FALSE

(* What ends an operation before it saves.                                 *)
Refused(e, a) ==
  CASE op[e] = "addServer" -> form[e].login \in CredKeys /\ a.creds[form[e].login] = NONE
    [] op[e] = "editServer" -> a.servers[key[e]] = NONE
    [] op[e] \in {"editCredential", "deleteCredential"} -> a.creds[key[e]] = NONE
    [] OTHER -> FALSE

(* ReadConnections: an error ends the request.                             *)
Read(e) ==
  /\ pc[e] = "read"
  /\ \/ /\ file # TORN => Refused(e, file)
        /\ Ends(e, "idle")
        /\ UNCHANGED conn
     \/ /\ file # TORN /\ ~Refused(e, file)
        /\ conn' = [conn EXCEPT ![e] = file]
        /\ Ends(e, CASE op[e] = "deleteServer" /\ file.servers[key[e]] = NONE -> "list"
                     [] op[e] = "deleteCredential" -> "isUsed"
                     [] OTHER -> "save")
  /\ UNCHANGED <<running, file, list, historyVars>>

(* IsUsed reads the file once more.                                        *)
IsUsed(e) ==
  /\ pc[e] = "isUsed"
  /\ IF file = TORN \/ Users(key[e], file) # {}
     THEN Ends(e, "idle") /\ conn' = [conn EXCEPT ![e] = NONE]
     ELSE Ends(e, "save") /\ UNCHANGED conn
  /\ UNCHANGED <<running, file, list, historyVars>>

WithServer(a, k, s, dangles) ==
  [creds |-> a.creds, servers |-> [a.servers EXCEPT ![k] = s],
   unchecked |-> IF dangles THEN a.unchecked \cup {k} ELSE a.unchecked \ {k}]

WithCredential(a, c, password, users) ==
  [creds |-> [a.creds EXCEPT ![c] = password], servers |-> a.servers,
   unchecked |-> a.unchecked \cup users]

Dangles(e) == form[e].login \in CredKeys /\ conn[e].creds[form[e].login] = NONE

(* What an operation makes of the Connections it read.                     *)
Changed(e) ==
  LET a == conn[e]
      k == key[e]
  IN  CASE op[e] = "addServer"        -> WithServer(a, k, Encrypted(form[e]), FALSE)
        [] op[e] = "editServer"       -> WithServer(a, k, Encrypted(form[e]), Dangles(e))
        [] op[e] = "deleteServer"     -> WithServer(a, k, NONE, FALSE)
        [] op[e] = "addCredential"    -> WithCredential(a, k, 1, {})
        [] op[e] = "editCredential"   -> WithCredential(a, k, form[e] + 1, {})
        [] op[e] = "deleteCredential" -> WithCredential(a, k, NONE, Users(k, a))

OfServer(e) == op[e] \in {"addServer", "editServer", "deleteServer"}

Save(e) ==
  /\ pc[e] = "save"
  /\ conn' = [conn EXCEPT ![e] = NONE]
  /\ \/ /\ file' = Changed(e)
        /\ Ends(e, IF OfServer(e) THEN "list" ELSE "idle")
     \/ /\ file' \in {file, TORN}
        /\ Ends(e, "idle")
  /\ UNCHANGED <<running, list, historyVars>>

(* ConnectionString of a server: the credential is read from the file.     *)
CanConnect(s) == s.login \in CredKeys => file # TORN /\ file.creds[s.login] # NONE

(* UpdateFromSettings takes the new login, with the copy that was made     *)
(* before the password was encrypted, only if the description is new too;  *)
(* that its connection string cannot be made is not reported.              *)
Edited(s, f) ==
  CASE s.desc = f.desc -> s
    [] s.desc # f.desc /\ CanConnect(f)  -> f
    [] s.desc # f.desc /\ ~CanConnect(f) -> [s EXCEPT !.desc = f.desc]

(* Mutant: an edited server is listed as it is in the file.                *)
UpdateListEncrypted(e) ==
  /\ pc[e] = "list"
  /\ list' = [list EXCEPT ![key[e]] =
       CASE op[e] = "deleteServer" -> NONE
         [] op[e] = "addServer"    -> IF CanConnect(form[e]) THEN form[e] ELSE NONE
         [] op[e] = "editServer"   -> IF @ = NONE THEN NONE ELSE Edited(@, Encrypted(form[e]))]
  /\ edited' = IF op[e] = "editServer" THEN edited \cup {key[e]} ELSE edited \ {key[e]}
  /\ Ends(e, "idle")
  /\ conn' = [conn EXCEPT ![e] = NONE]
  /\ UNCHANGED <<running, file, overlapped, startable>>

(* Mutant: a server that is deleted is still polled.                       *)
UpdateListKeep(e) ==
  /\ pc[e] = "list"
  /\ list' = [list EXCEPT ![key[e]] =
       CASE op[e] = "deleteServer" -> @
         [] op[e] = "addServer"    -> IF CanConnect(form[e]) THEN form[e] ELSE NONE
         [] op[e] = "editServer"   -> IF @ = NONE THEN NONE ELSE Edited(@, form[e])]
  /\ edited' = IF op[e] = "editServer" THEN edited \cup {key[e]} ELSE edited \ {key[e]}
  /\ Ends(e, "idle")
  /\ conn' = [conn EXCEPT ![e] = NONE]
  /\ UNCHANGED <<running, file, overlapped, startable>>

(* AddFromSettings, UpdateFromSettings or Delete.                          *)
UpdateList(e) ==
  /\ pc[e] = "list"
  /\ list' = [list EXCEPT ![key[e]] =
       CASE op[e] = "deleteServer" -> NONE
         [] op[e] = "addServer"    -> IF CanConnect(form[e]) THEN form[e] ELSE NONE
         [] op[e] = "editServer"   -> IF @ = NONE THEN NONE ELSE Edited(@, form[e])]
  /\ edited' = IF op[e] = "editServer" THEN edited \cup {key[e]} ELSE edited \ {key[e]}
  /\ Ends(e, "idle")
  /\ conn' = [conn EXCEPT ![e] = NONE]
  /\ UNCHANGED <<running, file, overlapped, startable>>
-----------------------------------------------------------------------------
(* IsItSQL ends; in the middle of a write it leaves half a file.           *)
Crash ==
  /\ running
  /\ running' = FALSE
  /\ file' \in {file} \cup {TORN : e \in {d \in Editors : pc[d] = "save"}}
  /\ list' = NoServers
  /\ AllIdle
  /\ overlapped' = FALSE /\ startable' = FALSE /\ edited' = {}

Readable(a) == {k \in ServerKeys : a.servers[k] # NONE}

(* Mutant: a file that cannot be read is replaced by an empty one.         *)
StartOver ==
  /\ ~running
  /\ running' = TRUE
  /\ file' = IF file = TORN THEN Empty ELSE file
  /\ startable' = TRUE
  /\ list' = [k \in ServerKeys |->
       IF file # TORN /\ file.servers[k] # NONE THEN Decrypted(file.servers[k]) ELSE NONE]
  /\ UNCHANGED <<requestVars, overlapped, edited>>

(* setupConnectionsAsync reads the file and writes it back, then adds its  *)
(* servers in any order, up to the first whose connection string cannot be *)
(* made.  An error leaves IsItSQL running with what it has.                *)
Start ==
  /\ ~running
  /\ running' = TRUE
  /\ \/ /\ file = TORN
        /\ list' = NoServers /\ startable' = FALSE
        /\ UNCHANGED file
     \/ /\ file # TORN
        /\ file' \in {file, TORN}
        /\ list' = NoServers /\ startable' = FALSE
     \/ /\ file # TORN
        /\ UNCHANGED file
        /\ LET good == {k \in Readable(file) : CanConnect(file.servers[k])}
           IN  /\ startable' = (good = Readable(file))
               /\ \E added \in SUBSET good :
                    /\ good = Readable(file) => added = good
                    /\ list' = [k \in ServerKeys |->
                                  IF k \in added THEN Decrypted(file.servers[k]) ELSE NONE]
  /\ UNCHANGED <<requestVars, overlapped, edited>>

Step(e) == Read(e) \/ IsUsed(e) \/ Save(e) \/ UpdateList(e)

Next == (\E e \in Editors : Request(e) \/ Step(e)) \/ Crash \/ Start

Spec == Init /\ [][Next]_vars
-----------------------------------------------------------------------------
(* Every variable holds a value of its type.                               *)
TypeOK ==
  /\ running \in BOOLEAN /\ overlapped \in BOOLEAN /\ startable \in BOOLEAN
  /\ edited \subseteq ServerKeys
  /\ file \in Connections \cup {TORN}
  /\ list \in [ServerKeys -> Server \cup {NONE}]
  /\ pc \in [Editors -> {"idle", "read", "isUsed", "save", "list"}]
  /\ conn \in [Editors -> Connections \cup {NONE}]
  /\ \A e \in Editors : pc[e] = "save" => conn[e] # NONE
  /\ \A e \in Editors : pc[e] = "idle" => key[e] = NONE

(* A server's own password is encrypted once in the file, however often it *)
(* is edited with and without a new one and whatever requests overlap, and *)
(* is plain in the list, where it is used to connect (serverEditPage:      *)
(* "Keep a copy before I save it.  Save encrypts and I don't want that").  *)
ServerSecrets ==
  \A k \in ServerKeys :
    /\ file # TORN /\ file.servers[k] # NONE =>
         file.servers[k].secret = (IF file.servers[k].login = OWN THEN 1 ELSE 0)
    /\ list[k] # NONE => list[k].secret = 0

(* The same of credentials ("only update the password if one was passed    *)
(* in", SaveSQLCredential): GetSQLCredential, which decrypts once, returns *)
(* the password that was entered.                                          *)
CredentialSecrets ==
  file # TORN => \A c \in CredKeys : file.creds[c] \in {NONE, 1}

(* AddSQLServer's "test for valid connection key" is made on a read that   *)
(* other requests may have overtaken.  Because the file is written as a    *)
(* whole, a server in it has its credential all the same, except where     *)
(* nothing looked: SaveSQLServer checks no credential, and IsUsed reads    *)
(* the file again instead of asking the one that is saved.                 *)
CredentialsExist ==
  file # TORN =>
    \A k \in Readable(file) \ file.unchecked :
      file.servers[k].login \in CredKeys => file.creds[file.servers[k].login] # NONE

(* While requests come one at a time, and as long as the file can be read, *)
(* between two requests what is polled follows the file, also when saves   *)
(* fail and after a restart in the middle of one:                          *)
(*   - a server that is polled is in the file, under the description that  *)
(*     it has there (serverEditPage, serverDeletePage);                    *)
(*   - as long as nobody edited it, with the login that it has there;      *)
(*   - every server of the file is polled, if the start found the file     *)
(*     whole and every credential of its servers in it.                    *)
(* An edited server may be polled with an older login and connection       *)
(* string: UpdateFromSettings does not see that only the login changed,    *)
(* and ignores that its connection string cannot be made.  After a start   *)
(* that stopped at a server without its credential any of the others may   *)
(* be missing.                                                             *)
ListFollowsFile ==
  running /\ ~overlapped /\ file # TORN /\ (\A e \in Editors : pc[e] = "idle") =>
    \A k \in ServerKeys :
      /\ list[k] # NONE => file.servers[k] # NONE /\ list[k].desc = file.servers[k].desc
      /\ list[k] # NONE /\ k \notin edited => list[k] = Decrypted(file.servers[k])
      /\ startable /\ file.servers[k] # NONE => list[k] # NONE

(* A file that was cut short is there until someone repairs it: neither a  *)
(* request nor a start writes over it, except a request that had read it   *)
(* before.                                                                 *)
TornKept == [][file = TORN /\ (\A e \in Editors : pc[e] # "save") => file' = TORN]_vars
=============================================================================
