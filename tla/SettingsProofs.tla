---------------------------- MODULE SettingsProofs ----------------------------
(***************************************************************************)
(* Theorems about the settings of GUI mode, for any servers, credentials   *)
(* and number of requests at a time.  SInv adds to the properties what a   *)
(* request holds: the Connections it read are as good as the file was, the *)
(* password of its form is plain, and an add that is about to save has     *)
(* found its credential in the Connections it saves.                       *)
(***************************************************************************)
EXTENDS Settings, TLAPS

(* Passwords are encrypted once.                                           *)
Secret(s) == s.secret = (IF s.login = OWN THEN 1 ELSE 0)

HasCredential(a, s) == s.login \in CredKeys => a.creds[s.login] # NONE

Good(a) ==
  /\ a \in Connections
  /\ \A k \in ServerKeys : a.servers[k] # NONE =>
       /\ Secret(a.servers[k])
       /\ k \in a.unchecked \/ HasCredential(a, a.servers[k])

Ops == {"addServer", "editServer", "deleteServer",
        "addCredential", "editCredential", "deleteCredential"}

Form(e) ==
  /\ op[e] \in {"addServer", "editServer"} => form[e] \in Server /\ form[e].secret = 0
  /\ op[e] \in {"addCredential", "editCredential"} => form[e] \in 0..MaxDepth - 1
  /\ op[e] \in {"addServer", "editServer", "deleteServer"} => key[e] \in ServerKeys
  /\ op[e] \in {"addCredential", "editCredential", "deleteCredential"} => key[e] \in CredKeys

Holds(e) ==
  /\ pc[e] \in {"idle", "read", "isUsed", "save", "list"}
  /\ pc[e] # "idle" => op[e] \in Ops /\ Form(e)
  /\ pc[e] = "idle" => key[e] = NONE
  /\ pc[e] = "list" => op[e] \in {"addServer", "editServer", "deleteServer"}
  /\ pc[e] = "isUsed" => op[e] = "deleteCredential" /\ conn[e] # NONE
  /\ conn[e] # NONE => Good(conn[e])
  /\ pc[e] = "save" =>
       /\ conn[e] # NONE
       /\ op[e] = "addServer" => HasCredential(conn[e], form[e])

Requests ==
  /\ pc = [e \in Editors |-> pc[e]] /\ op = [e \in Editors |-> op[e]]
  /\ key = [e \in Editors |-> key[e]] /\ form = [e \in Editors |-> form[e]]
  /\ conn = [e \in Editors |-> conn[e]]
  /\ \A e \in Editors : Holds(e)

Plain == {s \in Server : s.secret = 0}

SInv ==
  /\ running \in BOOLEAN /\ overlapped \in BOOLEAN /\ startable \in BOOLEAN
  /\ edited \subseteq ServerKeys
  /\ file # TORN => Good(file)
  /\ list \in [ServerKeys -> Plain \cup {NONE}]
  /\ Requests

USE SettingsAssumption DEF SettingsAssumption
-----------------------------------------------------------------------------
(* What is used is what was entered, and what is saved is encrypted once.  *)
LEMMA DecryptedIs ==
  ASSUME NEW s \in Server, Secret(s)
  PROVE  Decrypted(s) \in Server /\ Decrypted(s).secret = 0 /\ Decrypted(s).login = s.login
  BY DEF Decrypted, Secret, Server, Depth

LEMMA EncryptedIs ==
  ASSUME NEW s \in Server, s.secret = 0
  PROVE  Encrypted(s) \in Server /\ Secret(Encrypted(s)) /\ Encrypted(s).login = s.login
  BY DEF Encrypted, Secret, Server, Depth

(* The file may hold the server that a request puts into it.               *)
LEMMA WithServerGood ==
  ASSUME NEW a, Good(a), NEW k \in ServerKeys, NEW s, NEW dangles \in BOOLEAN,
         s # NONE => s \in Server /\ Secret(s) /\ (dangles \/ HasCredential(a, s)),
         s \in Server \cup {NONE}
  PROVE  Good(WithServer(a, k, s, dangles))
  <1> DEFINE b == WithServer(a, k, s, dangles)
  <1>1. /\ a.creds \in [CredKeys -> Depth \cup {NONE}]
        /\ a.servers \in [ServerKeys -> Server \cup {NONE}]
        /\ a.unchecked \in SUBSET ServerKeys
    BY DEF Good, Connections
  <1>2. /\ b.creds = a.creds /\ b.servers = [a.servers EXCEPT ![k] = s]
        /\ b.unchecked = IF dangles THEN a.unchecked \cup {k} ELSE a.unchecked \ {k}
    BY DEF WithServer
  <1>3. b \in Connections
    <2>1. b = [creds |-> b.creds, servers |-> b.servers, unchecked |-> b.unchecked]
      BY DEF WithServer
    <2>2. b.servers \in [ServerKeys -> Server \cup {NONE}] BY <1>1, <1>2
    <2>3. b.unchecked \in SUBSET ServerKeys BY <1>1, <1>2
    <2> QED BY <1>1, <1>2, <2>1, <2>2, <2>3 DEF Connections
  <1>4. ASSUME NEW j \in ServerKeys, b.servers[j] # NONE
        PROVE  Secret(b.servers[j]) /\ (j \in b.unchecked \/ HasCredential(b, b.servers[j]))
    <2>1. CASE j = k BY <1>1, <1>2, <1>4, <2>1 DEF HasCredential
    <2>2. CASE j # k
      <3>1. b.servers[j] = a.servers[j] BY <1>1, <1>2, <2>2
      <3> QED BY <1>2, <1>4, <2>2, <3>1 DEF Good, HasCredential
    <2> QED BY <2>1, <2>2
  <1>5. Good(b)
    <2> HIDE DEF b
    <2> QED BY <1>3, <1>4 DEF Good
  <1> QED BY <1>5

(* The same of a credential, whose users nothing looked for may dangle.    *)
LEMMA WithCredentialGood ==
  ASSUME NEW a, Good(a), NEW c \in CredKeys, NEW p \in Depth \cup {NONE},
         NEW users \in SUBSET ServerKeys, p = NONE => Users(c, a) \subseteq users
  PROVE  Good(WithCredential(a, c, p, users))
  <1> DEFINE b == WithCredential(a, c, p, users)
  <1>1. /\ a.creds \in [CredKeys -> Depth \cup {NONE}]
        /\ a.servers \in [ServerKeys -> Server \cup {NONE}]
        /\ a.unchecked \in SUBSET ServerKeys
    BY DEF Good, Connections
  <1>2. /\ b.creds = [a.creds EXCEPT ![c] = p] /\ b.servers = a.servers
        /\ b.unchecked = a.unchecked \cup users
    BY DEF WithCredential
  <1>3. b \in Connections
    <2>1. b = [creds |-> b.creds, servers |-> b.servers, unchecked |-> b.unchecked]
      BY DEF WithCredential
    <2>2. b.creds \in [CredKeys -> Depth \cup {NONE}] BY <1>1, <1>2
    <2>3. b.unchecked \in SUBSET ServerKeys BY <1>1, <1>2
    <2> QED BY <1>1, <1>2, <2>1, <2>2, <2>3 DEF Connections
  <1>4. ASSUME NEW j \in ServerKeys, b.servers[j] # NONE
        PROVE  Secret(b.servers[j]) /\ (j \in b.unchecked \/ HasCredential(b, b.servers[j]))
    <2>1. Secret(a.servers[j]) /\ (j \in a.unchecked \/ HasCredential(a, a.servers[j]))
      BY <1>2, <1>4 DEF Good
    <2>2. CASE a.servers[j].login = c /\ p = NONE
      BY <1>2, <1>4, <2>1, <2>2 DEF Users
    <2>3. CASE ~(a.servers[j].login = c /\ p = NONE)
      BY <1>1, <1>2, <2>1, <2>3 DEF HasCredential, Depth
    <2> QED BY <2>2, <2>3
  <1>5. Good(b)
    <2> HIDE DEF b
    <2> QED BY <1>3, <1>4 DEF Good
  <1> QED BY <1>5

(* What a request saves is good.                                           *)
LEMMA ChangedGood ==
  ASSUME SInv, NEW e \in Editors, pc[e] = "save"
  PROVE  Good(Changed(e))
  <1>1. Holds(e) /\ Good(conn[e]) /\ op[e] \in Ops /\ Form(e) BY DEF SInv, Requests, Holds
  <1>2. CASE op[e] = "addServer"
    <2>1. Changed(e) = WithServer(conn[e], key[e], Encrypted(form[e]), FALSE)
      BY <1>2 DEF Changed
    <2>2. form[e] \in Server /\ form[e].secret = 0 /\ key[e] \in ServerKeys
      BY <1>1, <1>2 DEF Form
    <2>3. HasCredential(conn[e], Encrypted(form[e]))
      BY <1>1, <1>2, <2>2, EncryptedIs DEF Holds, HasCredential
    <2>4. Encrypted(form[e]) \in Server /\ Secret(Encrypted(form[e])) BY <2>2, EncryptedIs
    <2> QED BY <1>1, <2>1, <2>2, <2>3, <2>4, WithServerGood
  <1>3. CASE op[e] = "editServer"
    <2>1. Changed(e) = WithServer(conn[e], key[e], Encrypted(form[e]), Dangles(e))
      BY <1>3 DEF Changed
    <2>2. form[e] \in Server /\ form[e].secret = 0 /\ key[e] \in ServerKeys
      BY <1>1, <1>3 DEF Form
    <2>3. Dangles(e) \in BOOLEAN /\ (Dangles(e) \/ HasCredential(conn[e], Encrypted(form[e])))
      BY <2>2, EncryptedIs DEF Dangles, HasCredential
    <2>4. Encrypted(form[e]) \in Server /\ Secret(Encrypted(form[e])) BY <2>2, EncryptedIs
    <2> QED BY <1>1, <2>1, <2>2, <2>3, <2>4, WithServerGood
  <1>4. CASE op[e] = "deleteServer"
    <2>1. Changed(e) = WithServer(conn[e], key[e], NONE, FALSE) BY <1>4 DEF Changed
    <2>2. key[e] \in ServerKeys BY <1>1, <1>4 DEF Form
    <2> QED BY <1>1, <2>1, <2>2, WithServerGood
  <1>5. CASE op[e] = "addCredential"
    <2>1. Changed(e) = WithCredential(conn[e], key[e], 1, {}) BY <1>5 DEF Changed
    <2>2. key[e] \in CredKeys /\ 1 \in Depth BY <1>1, <1>5 DEF Form, Depth
    <2> QED BY <1>1, <2>1, <2>2, WithCredentialGood
  <1>6. CASE op[e] = "editCredential"
    <2>1. Changed(e) = WithCredential(conn[e], key[e], form[e] + 1, {}) BY <1>6 DEF Changed
    <2>2. key[e] \in CredKeys /\ form[e] + 1 \in Depth BY <1>1, <1>6 DEF Form, Depth
    <2> QED BY <1>1, <2>1, <2>2, WithCredentialGood
  <1>7. CASE op[e] = "deleteCredential"
    <2>1. Changed(e) = WithCredential(conn[e], key[e], NONE, Users(key[e], conn[e]))
      BY <1>7 DEF Changed
    <2>2. key[e] \in CredKeys /\ Users(key[e], conn[e]) \in SUBSET ServerKeys
      BY <1>1, <1>7 DEF Form, Users
    <2> QED BY <1>1, <2>1, <2>2, WithCredentialGood
  <1> QED BY <1>1, <1>2, <1>3, <1>4, <1>5, <1>6, <1>7 DEF Ops
-----------------------------------------------------------------------------
(* A request that goes on, or ends, with Connections that are good.        *)
LEMMA EndsHolds ==
  ASSUME Requests, NEW e \in Editors, pc[e] # "idle",
         NEW label \in {"idle", "isUsed", "save", "list"}, Ends(e, label),
         NEW a, conn' = [conn EXCEPT ![e] = a], a # NONE => Good(a),
         label = "save" => a # NONE /\ (op[e] = "addServer" => HasCredential(a, form[e])),
         label = "list" => op[e] \in {"addServer", "editServer", "deleteServer"},
         label = "isUsed" => a # NONE /\ op[e] = "deleteCredential"
  PROVE  Requests'
  <1>1. /\ pc' = [pc EXCEPT ![e] = label]
        /\ label = "idle" => /\ op' = [op EXCEPT ![e] = NONE]
                             /\ key' = [key EXCEPT ![e] = NONE]
                             /\ form' = [form EXCEPT ![e] = NONE]
        /\ label # "idle" => UNCHANGED <<op, key, form>>
    BY DEF Ends
  <1>2. /\ pc' = [d \in Editors |-> pc'[d]] /\ op' = [d \in Editors |-> op'[d]]
        /\ key' = [d \in Editors |-> key'[d]] /\ form' = [d \in Editors |-> form'[d]]
        /\ conn' = [d \in Editors |-> conn'[d]]
    BY <1>1 DEF Requests
  <1>3. Holds(e)'
    <2>1. pc'[e] = label /\ conn'[e] = a BY <1>1 DEF Requests
    <2>2. CASE label = "idle"
      <3>1. key'[e] = NONE BY <1>1, <2>2 DEF Requests
      <3> QED BY <2>1, <2>2, <3>1 DEF Holds, Good, HasCredential, Secret
    <2>3. CASE label # "idle"
      <3>1. op'[e] = op[e] /\ key'[e] = key[e] /\ form'[e] = form[e] BY <1>1, <2>3
      <3>2. op[e] \in Ops /\ Form(e) BY DEF Requests, Holds
      <3>3. op'[e] \in Ops /\ Form(e)' BY <3>1, <3>2 DEF Form
      <3> QED BY <2>1, <2>3, <3>1, <3>3 DEF Holds, Good, HasCredential, Secret
    <2> QED BY <2>2, <2>3
  <1>4. ASSUME NEW d \in Editors \ {e} PROVE Holds(d)'
    <2>1. /\ pc'[d] = pc[d] /\ op'[d] = op[d] /\ key'[d] = key[d] /\ form'[d] = form[d]
          /\ conn'[d] = conn[d]
      BY <1>1 DEF Requests
    <2>2. Holds(d) BY DEF Requests
    <2> QED BY <2>1, <2>2 DEF Holds, Form, Good, HasCredential, Secret
  <1> QED BY <1>2, <1>3, <1>4 DEF Requests

(* A page calls with the form it was given.                                *)
LEMMA BeginStep ==
  ASSUME SInv, NEW e \in Editors, NEW o \in Ops, NEW k, NEW f, Begin(e, o, k, f),
         o \in {"addServer", "editServer"} => f \in Server /\ f.secret = 0,
         o \in {"addCredential", "editCredential"} => f \in 0..MaxDepth - 1,
         o \in {"addServer", "editServer", "deleteServer"} => k \in ServerKeys,
         o \in {"addCredential", "editCredential", "deleteCredential"} => k \in CredKeys
  PROVE  SInv'
  <1>1. /\ pc' = [pc EXCEPT ![e] = "read"] /\ op' = [op EXCEPT ![e] = o]
        /\ key' = [key EXCEPT ![e] = k] /\ form' = [form EXCEPT ![e] = f]
        /\ UNCHANGED <<running, file, list, conn, startable, edited>> /\ overlapped' \in BOOLEAN
    BY DEF Begin, SInv
  <1>2. /\ pc' = [d \in Editors |-> pc'[d]] /\ op' = [d \in Editors |-> op'[d]]
        /\ key' = [d \in Editors |-> key'[d]] /\ form' = [d \in Editors |-> form'[d]]
        /\ conn' = [d \in Editors |-> conn'[d]]
    BY <1>1 DEF SInv, Requests
  <1>3. Holds(e)'
    <2>1. /\ pc'[e] = "read" /\ op'[e] = o /\ key'[e] = k /\ form'[e] = f
          /\ conn'[e] = conn[e]
      BY <1>1 DEF SInv, Requests
    <2>2. Form(e)' BY <2>1 DEF Form
    <2> QED BY <2>1, <2>2 DEF SInv, Requests, Holds, Good, HasCredential, Secret
  <1>4. ASSUME NEW d \in Editors \ {e} PROVE Holds(d)'
    <2>1. /\ pc'[d] = pc[d] /\ op'[d] = op[d] /\ key'[d] = key[d] /\ form'[d] = form[d]
          /\ conn'[d] = conn[d]
      BY <1>1 DEF SInv, Requests
    <2>2. Holds(d) BY DEF SInv, Requests
    <2> QED BY <2>1, <2>2 DEF Holds, Form, Good, HasCredential, Secret
  <1>5. Requests' BY <1>2, <1>3, <1>4 DEF Requests
  <1> QED BY <1>1, <1>5 DEF SInv, Good, HasCredential, Secret

(* What the pages pass on: a new password, or the one they read, decrypted. *)
LEMMA RequestStep == ASSUME SInv, NEW e \in Editors, Request(e) PROVE SInv'
  <1>1. ASSUME NEW k \in ServerKeys, NEW l \in Logins, NEW d \in Descriptions,
               ServerAdd(e, k, l, d)
        PROVE  SInv'
    <2> DEFINE f == [login |-> l, desc |-> d, secret |-> 0]
    <2>1. f \in Server /\ f.secret = 0 BY DEF Server, Depth
    <2>2. Begin(e, "addServer", k, f) BY <1>1 DEF ServerAdd
    <2> HIDE DEF f
    <2> QED BY <2>1, <2>2, BeginStep DEF Ops
  <1>2. ASSUME NEW k \in ServerKeys, NEW l \in Logins, NEW d \in Descriptions,
               NEW given \in BOOLEAN, ServerEdit(e, k, l, d, given)
        PROVE  SInv'
    <2> DEFINE f == [login |-> l, desc |-> d,
                     secret |-> IF l = OWN /\ ~given THEN Decrypted(file.servers[k]).secret ELSE 0]
    <2>1. Good(file) /\ file.servers[k] # NONE BY <1>2 DEF ServerEdit, SInv
    <2>2. file.servers[k] \in Server /\ Secret(file.servers[k])
      BY <2>1 DEF Good, Connections
    <2>3. Decrypted(file.servers[k]).secret = 0 BY <2>2, DecryptedIs
    <2>4. f \in Server /\ f.secret = 0 BY <2>3 DEF Server, Depth
    <2>5. Begin(e, "editServer", k, f) BY <1>2 DEF ServerEdit
    <2> HIDE DEF f
    <2> QED BY <2>4, <2>5, BeginStep DEF Ops
  <1>3. ASSUME NEW k \in ServerKeys, ServerDelete(e, k) PROVE SInv'
    BY <1>3, BeginStep DEF ServerDelete, Ops
  <1>4. ASSUME NEW c \in CredKeys, CredentialAdd(e, c) PROVE SInv'
    BY <1>4, BeginStep DEF CredentialAdd, Ops
  <1>5. ASSUME NEW c \in CredKeys, NEW given \in BOOLEAN, CredentialEdit(e, c, given)
        PROVE  SInv'
    <2> DEFINE p == IF given THEN 0 ELSE file.creds[c]
    <2>1. Good(file) /\ file.creds[c] # NONE /\ (given \/ file.creds[c] < MaxDepth)
      BY <1>5 DEF CredentialEdit, SInv
    <2>2. file.creds[c] \in Depth BY <2>1 DEF Good, Connections
    <2>3. p \in 0..MaxDepth - 1 BY <2>1, <2>2 DEF Depth
    <2>4. Begin(e, "editCredential", c, p) BY <1>5 DEF CredentialEdit
    <2> HIDE DEF p
    <2> QED BY <2>3, <2>4, BeginStep DEF Ops
  <1>6. ASSUME NEW c \in CredKeys, CredentialDelete(e, c) PROVE SInv'
    BY <1>6, BeginStep DEF CredentialDelete, Ops
  <1> QED BY <1>1, <1>2, <1>3, <1>4, <1>5, <1>6 DEF Request
-----------------------------------------------------------------------------
(* A read either ends the request or gives it the file.                    *)
LEMMA ReadStep == ASSUME SInv, NEW e \in Editors, Read(e) PROVE SInv'
  <1>1. pc[e] = "read" /\ UNCHANGED <<running, file, list, historyVars>> BY DEF Read
  <1>2. conn = [conn EXCEPT ![e] = conn[e]] /\ (conn[e] # NONE => Good(conn[e]))
    BY DEF SInv, Requests, Holds
  <1>3. Requests'
    <2>1. CASE Ends(e, "idle") /\ UNCHANGED conn
      BY <1>1, <1>2, <2>1, EndsHolds DEF SInv
    <2>2. CASE file # TORN /\ ~Refused(e, file) /\ conn' = [conn EXCEPT ![e] = file]
      <3> DEFINE label == CASE op[e] = "deleteServer" /\ file.servers[key[e]] = NONE -> "list"
                            [] op[e] = "deleteCredential" -> "isUsed"
                            [] OTHER -> "save"
      <3>1. Ends(e, label) BY <1>1, <2>2 DEF Read, Ends
      <3>2. label \in {"idle", "isUsed", "save", "list"} OBVIOUS
      <3>3. /\ label = "list" => op[e] = "deleteServer"
            /\ label = "isUsed" => op[e] = "deleteCredential"
        OBVIOUS
      <3>4. op[e] = "addServer" => HasCredential(file, form[e])
        BY <2>2 DEF Refused, HasCredential
      <3>5. Good(file) /\ file # NONE BY <2>2 DEF SInv, Good
      <3> HIDE DEF label
      <3> QED BY <1>1, <2>2, <3>1, <3>2, <3>3, <3>4, <3>5, EndsHolds DEF SInv
    <2> QED BY <2>1, <2>2 DEF Read
  <1> QED BY <1>1, <1>3 DEF SInv, historyVars, Good, HasCredential, Secret

(* So does the second read of a deletion.                                  *)
LEMMA IsUsedStep == ASSUME SInv, NEW e \in Editors, IsUsed(e) PROVE SInv'
  <1>1. /\ pc[e] = "isUsed" /\ UNCHANGED <<running, file, list, historyVars>>
        /\ \/ Ends(e, "idle") /\ conn' = [conn EXCEPT ![e] = NONE]
           \/ Ends(e, "save") /\ UNCHANGED conn
    BY DEF IsUsed
  <1>2. /\ conn = [conn EXCEPT ![e] = conn[e]] /\ conn[e] # NONE /\ Good(conn[e])
        /\ op[e] = "deleteCredential"
    BY <1>1 DEF SInv, Requests, Holds
  <1>3. Requests'
    <2>1. CASE Ends(e, "idle") /\ conn' = [conn EXCEPT ![e] = NONE]
      BY <1>1, <2>1, EndsHolds DEF SInv
    <2>2. CASE Ends(e, "save") /\ UNCHANGED conn
      BY <1>1, <1>2, <2>2, EndsHolds DEF SInv
    <2> QED BY <1>1, <2>1, <2>2
  <1> QED BY <1>1, <1>3 DEF SInv, historyVars, Good, HasCredential, Secret

(* A save that does not fail puts what is good into the file.              *)
LEMMA SaveStep == ASSUME SInv, NEW e \in Editors, Save(e) PROVE SInv'
  <1>1. /\ pc[e] = "save" /\ conn' = [conn EXCEPT ![e] = NONE]
        /\ UNCHANGED <<running, list, historyVars>> /\ file' \in {Changed(e), file, TORN}
    BY DEF Save
  <1>2. file' # TORN => Good(file')
    BY <1>1, ChangedGood DEF SInv
  <1>3. PICK label \in {"idle", "list"} :
          Ends(e, label) /\ (label = "list" => OfServer(e))
    BY DEF Save
  <1>4. Requests'
    BY <1>1, <1>3, EndsHolds DEF SInv, OfServer
  <1> QED BY <1>1, <1>2, <1>4 DEF SInv, historyVars, Good, HasCredential, Secret

(* The list is given the form, whose password is plain.                    *)
LEMMA UpdateListStep == ASSUME SInv, NEW e \in Editors, UpdateList(e) PROVE SInv'
  <1> DEFINE l == list[key[e]]
             f == form[e]
             x == CASE op[e] = "deleteServer" -> NONE
                    [] op[e] = "addServer"    -> IF CanConnect(f) THEN f ELSE NONE
                    [] op[e] = "editServer"   -> IF l = NONE THEN NONE ELSE Edited(l, f)
  <1>1. /\ pc[e] = "list" /\ Ends(e, "idle") /\ conn' = [conn EXCEPT ![e] = NONE]
        /\ UNCHANGED <<running, file, overlapped, startable>>
        /\ list' = [list EXCEPT ![key[e]] = x]
        /\ edited' \subseteq edited \cup {key[e]}
    BY DEF UpdateList
  <1>2. op[e] \in {"addServer", "editServer", "deleteServer"} /\ Form(e)
    BY <1>1 DEF SInv, Requests, Holds
  <1>3. key[e] \in ServerKeys /\ l \in Plain \cup {NONE} BY <1>2 DEF SInv, Form
  <1>4. x \in Plain \cup {NONE}
    <2>1. CASE op[e] = "deleteServer" BY <2>1
    <2>2. CASE op[e] # "deleteServer"
      <3>1. f \in Plain BY <1>2, <2>2 DEF Form, Plain
      <3>2. l # NONE => Edited(l, f) \in Plain
        BY <1>3, <3>1 DEF Edited, Plain, Server
      <3> QED BY <1>2, <2>2, <3>1, <3>2
    <2> QED BY <2>1, <2>2
  <1>5. list' \in [ServerKeys -> Plain \cup {NONE}]
    <2> HIDE DEF x
    <2> QED BY <1>1, <1>3, <1>4 DEF SInv
  <1>6. Requests' BY <1>1, EndsHolds DEF SInv
  <1> QED BY <1>1, <1>3, <1>5, <1>6 DEF SInv, Good, HasCredential, Secret

(* The end of IsItSQL leaves the file, or none that can be read.           *)
LEMMA CrashStep == ASSUME SInv, Crash PROVE SInv'
  <1>1. /\ running' = FALSE /\ file' \in {file, TORN}
        /\ overlapped' = FALSE /\ startable' = FALSE /\ edited' = {}
        /\ list' = NoServers /\ AllIdle
    BY DEF Crash
  <1>2. list' \in [ServerKeys -> Plain \cup {NONE}] BY <1>1 DEF NoServers
  <1>3. Requests' BY <1>1 DEF AllIdle, Requests, Holds
  <1> QED BY <1>1, <1>2, <1>3 DEF SInv, Good, HasCredential, Secret

(* The list is filled from the file, decrypted.                            *)
LEMMA StartStep == ASSUME SInv, Start PROVE SInv'
  <1>1. /\ running' = TRUE /\ startable' \in BOOLEAN
        /\ UNCHANGED <<requestVars, overlapped, edited>>
    BY DEF Start
  <1>2. Requests' BY <1>1 DEF SInv, Requests, requestVars, Holds, Form, Good, HasCredential, Secret
  <1>3. CASE file' \in {file, TORN} /\ list' = NoServers
    BY <1>1, <1>2, <1>3 DEF SInv, NoServers, Good, HasCredential, Secret
  <1>4. ASSUME file # TORN, file' = file,
               NEW added \in SUBSET Readable(file),
               list' = [k \in ServerKeys |->
                          IF k \in added THEN Decrypted(file.servers[k]) ELSE NONE]
        PROVE  SInv'
    <2>1. ASSUME NEW k \in added PROVE Decrypted(file.servers[k]) \in Plain
      <3>1. file.servers[k] \in Server /\ Secret(file.servers[k])
        BY <1>4, <2>1 DEF Readable, SInv, Good, Connections
      <3> QED BY <3>1, DecryptedIs DEF Plain
    <2>2. list' \in [ServerKeys -> Plain \cup {NONE}] BY <1>4, <2>1
    <2> QED BY <1>1, <1>2, <1>4, <2>2 DEF SInv, Good, HasCredential, Secret
  <1> QED BY <1>3, <1>4 DEF Start, Readable
-----------------------------------------------------------------------------
(* The empty file is good.                                                 *)
LEMMA Initially == Init => SInv
  <1> SUFFICES ASSUME Init PROVE SInv OBVIOUS
  <1>1. Good(Empty) BY DEF Good, Empty, Connections
  <1> QED BY <1>1 DEF Init, SInv, NoServers, Requests, Holds

(* SInv holds of every state.                                              *)
LEMMA Invariance == Spec => []SInv
  <1>1. ASSUME SInv, [Next]_vars PROVE SInv'
    <2>1. CASE UNCHANGED vars
      BY <1>1, <2>1 DEF vars, requestVars, historyVars, SInv, Requests, Holds, Form, Good, HasCredential, Secret
    <2> QED BY <1>1, <2>1, RequestStep, ReadStep, IsUsedStep, SaveStep, UpdateListStep, CrashStep,
               StartStep DEF Next, Step
  <1> QED BY Initially, <1>1, PTL DEF Spec

(* Every variable keeps its type.                                          *)
THEOREM TypeCorrect == Spec => []TypeOK
  <1>1. ASSUME SInv PROVE TypeOK
    BY <1>1 DEF SInv, Requests, Holds, Good, Plain, TypeOK
  <1> QED BY Invariance, <1>1, PTL

(* However requests overlap and wherever IsItSQL ends, a password of a     *)
(* server is encrypted once in the file and plain in the list (SaveSQLServer, *)
(* AddSQLServer, GetSQLServer, serverEditPage).                            *)
THEOREM SecretsCorrect == Spec => []ServerSecrets
  <1>1. ASSUME SInv PROVE ServerSecrets
    BY <1>1 DEF SInv, Good, Secret, Plain, ServerSecrets
  <1> QED BY Invariance, <1>1, PTL

(* A server in the file has its credential, unless it was saved by an      *)
(* operation that does not look for it (AddSQLServer, DeleteSQLCredential). *)
THEOREM CredentialsCorrect == Spec => []CredentialsExist
  <1>1. ASSUME SInv PROVE CredentialsExist
    BY <1>1 DEF SInv, Good, HasCredential, Readable, CredentialsExist
  <1> QED BY Invariance, <1>1, PTL

(* A file that was cut short is not written over, except by a request that *)
(* had read it before (ReadConnections, Save, setupConnectionsAsync).      *)
THEOREM TornCorrect == Spec => TornKept
  <1>1. ASSUME [Next]_vars, file = TORN, \A e \in Editors : pc[e] # "save" PROVE file' = TORN
    <2>1. ASSUME NEW e \in Editors, Request(e) PROVE file' = TORN
      BY <1>1, <2>1 DEF Request, ServerAdd, ServerEdit, ServerDelete, CredentialAdd,
                        CredentialEdit, CredentialDelete, Begin
    <2>2. ASSUME NEW e \in Editors, Step(e) PROVE file' = TORN
      BY <1>1, <2>2 DEF Step, Read, IsUsed, Save, UpdateList
    <2>3. CASE Crash \/ Start \/ UNCHANGED vars
      BY <1>1, <2>3 DEF Crash, Start, vars
    <2> QED BY <1>1, <2>1, <2>2, <2>3 DEF Next
  <1> QED BY <1>1, PTL DEF Spec, TornKept
-----------------------------------------------------------------------------
(* Requests that come one at a time keep the list and the file together.   *)
(* A request works with the file as it is; one that has saved, and has not *)
(* updated the list yet, is what the list lacks.                           *)

Follows(k) ==
  /\ list[k] # NONE => file.servers[k] # NONE /\ list[k].desc = file.servers[k].desc
  /\ list[k] # NONE /\ k \notin edited => list[k] = Decrypted(file.servers[k])
  /\ startable /\ file.servers[k] # NONE => list[k] # NONE

Pending(e) ==
  /\ op[e] = "deleteServer" => file.servers[key[e]] = NONE
  /\ op[e] # "deleteServer" => file.servers[key[e]] = Encrypted(form[e])
  /\ op[e] = "addServer" => HasCredential(file, form[e])
  /\ op[e] = "editServer" /\ startable => list[key[e]] # NONE

OneRequest ==
  /\ \A d, e \in Editors : pc[d] # "idle" /\ pc[e] # "idle" => d = e
  /\ \A e \in Editors :
       /\ pc[e] \in {"isUsed", "save"} => conn[e] = file
       /\ pc[e] = "save" /\ op[e] = "editServer" => file.servers[key[e]] # NONE
       /\ pc[e] = "list" => file # TORN /\ Pending(e)
  /\ file # TORN =>
       \A k \in ServerKeys : Follows(k) \/ \E e \in Editors : pc[e] = "list" /\ key[e] = k

LInv ==
  /\ ~running => \A e \in Editors : pc[e] = "idle"
  /\ running /\ ~overlapped => OneRequest

(* An encryption is undone by one decryption, and is of the password only. *)
LEMMA DecryptedEncrypted ==
  ASSUME NEW s \in Plain
  PROVE  Decrypted(Encrypted(s)) = s /\ Encrypted(s).desc = s.desc
  BY DEF Decrypted, Encrypted, Plain, Server, Depth

(* A request that begins while no other is in progress reads next.         *)
LEMMA ListRequest == ASSUME SInv, LInv, NEW e \in Editors, Request(e) PROVE LInv'
  <1>1. /\ running /\ pc[e] = "idle"
        /\ UNCHANGED <<running, file, list, conn, startable, edited>>
        /\ pc' = [pc EXCEPT ![e] = "read"]
        /\ overlapped' = (overlapped \/ \E d \in Editors : pc[d] # "idle")
    BY DEF Request, ServerAdd, ServerEdit, ServerDelete, CredentialAdd, CredentialEdit,
           CredentialDelete, Begin
  <1>2. ASSUME ~overlapped' PROVE OneRequest'
    <2>1. ~overlapped /\ OneRequest /\ \A d \in Editors : pc[d] = "idle"
      BY <1>1, <1>2 DEF LInv, SInv
    <2>2. \A d \in Editors : pc'[d] = IF d = e THEN "read" ELSE "idle"
      BY <1>1, <2>1 DEF SInv, Requests
    <2>3. file # TORN => \A k \in ServerKeys : Follows(k)' BY <1>1, <2>1 DEF OneRequest, Follows
    <2> QED BY <1>1, <2>2, <2>3 DEF OneRequest
  <1> QED BY <1>1, <1>2 DEF LInv

(* The steps of a request, when it is the only one.                        *)
LEMMA ListStep == ASSUME SInv, LInv, NEW e \in Editors, Step(e) PROVE LInv'
  <1>1. pc[e] # "idle" /\ running /\ running' /\ UNCHANGED <<overlapped, startable>>
    BY DEF Step, Read, IsUsed, Save, UpdateList, LInv, SInv, historyVars
  <1> SUFFICES ASSUME ~overlapped' PROVE OneRequest'
    BY <1>1 DEF LInv
  <1>3. OneRequest /\ Holds(e) BY <1>1 DEF LInv, SInv, Requests
  <1>4. ASSUME NEW d \in Editors \ {e} PROVE pc[d] = "idle"
    BY <1>1, <1>3 DEF OneRequest
  <1>5. PICK label \in {"idle", "isUsed", "save", "list"} : Ends(e, label)
    BY DEF Step, Read, IsUsed, Save, UpdateList
  <1>6. /\ pc'[e] = label /\ \A d \in Editors \ {e} : pc'[d] = "idle"
        /\ label # "idle" => UNCHANGED <<op, key, form>>
    BY <1>4, <1>5 DEF Ends, SInv, Requests
  <1>7. ASSUME NEW k \in ServerKeys, file # TORN, ~Follows(k) PROVE pc[e] = "list" /\ key[e] = k
    BY <1>3, <1>4, <1>7 DEF OneRequest
  <1>9. CASE Read(e)
    <2>1. pc[e] = "read" /\ UNCHANGED <<file, list, edited>> BY <1>9 DEF Read, historyVars
    <2>2. file # TORN => \A k \in ServerKeys : Follows(k)' BY <1>1, <1>7, <2>1 DEF Follows
    <2>3. CASE label = "idle"
      BY <1>6, <2>1, <2>2, <2>3 DEF OneRequest
    <2>4. CASE label # "idle"
      <3>1. file # TORN /\ ~Refused(e, file) /\ conn' = [conn EXCEPT ![e] = file]
        BY <1>5, <1>9, <2>4 DEF Read, Ends, SInv, Requests
      <3>2. conn'[e] = file BY <3>1 DEF SInv, Requests
      <3>3. label = "list" => op[e] = "deleteServer" /\ file.servers[key[e]] = NONE
        BY <1>5, <1>6, <1>9, <2>1, <2>4 DEF Read, Ends, SInv, Requests
      <3>4. label = "list" => Pending(e)' BY <1>6, <2>1, <3>3 DEF Pending
      <3>5. op[e] = "editServer" => file.servers[key[e]] # NONE BY <3>1 DEF Refused
      <3> QED BY <1>6, <2>1, <2>2, <2>4, <3>1, <3>2, <3>4, <3>5 DEF OneRequest
    <2> QED BY <2>3, <2>4
  <1>10. CASE IsUsed(e)
    <2>1. /\ pc[e] = "isUsed" /\ UNCHANGED <<file, list, edited>> /\ label \in {"idle", "save"}
          /\ op[e] = "deleteCredential"
      BY <1>3, <1>5, <1>6, <1>10 DEF IsUsed, Ends, SInv, Requests, historyVars, Holds
    <2>2. file # TORN => \A k \in ServerKeys : Follows(k)' BY <1>1, <1>7, <2>1 DEF Follows
    <2>3. label = "save" => conn' = conn
      BY <1>6, <1>10 DEF IsUsed, Ends, SInv, Requests
    <2> QED BY <1>3, <1>6, <2>1, <2>2, <2>3 DEF OneRequest
  <1>11. CASE Save(e)
    <2>1. /\ pc[e] = "save" /\ UNCHANGED <<list, edited>> /\ conn[e] = file
          /\ \/ file' = Changed(e) /\ Ends(e, IF OfServer(e) THEN "list" ELSE "idle")
             \/ file' \in {file, TORN} /\ Ends(e, "idle")
      BY <1>3, <1>11 DEF Save, OneRequest, historyVars
    <2>2. Good(file) /\ file # TORN BY <1>3, <2>1 DEF Holds, Good
    <2>3. op[e] \in Ops /\ Form(e) BY <1>3, <2>1 DEF Holds
    <2>4. CASE file' \in {file, TORN} /\ Ends(e, "idle")
      <3>1. label = "idle" BY <1>6, <2>4 DEF Ends, SInv, Requests
      <3>2. file' # TORN => \A k \in ServerKeys : Follows(k)'
        BY <1>1, <1>7, <2>1, <2>2, <2>4 DEF Follows
      <3> QED BY <1>6, <3>1, <3>2 DEF OneRequest
    <2>5. CASE file' = Changed(e) /\ Ends(e, IF OfServer(e) THEN "list" ELSE "idle")
      <3>1. label = IF OfServer(e) THEN "list" ELSE "idle"
        BY <1>6, <2>5 DEF Ends, SInv, Requests
      <3>2. file' # TORN BY <2>1, <2>5, ChangedGood DEF Good
      <3>3. CASE OfServer(e)
        <4>1. PICK s : /\ file'.servers = [file.servers EXCEPT ![key[e]] = s]
                       /\ s = IF op[e] = "deleteServer" THEN NONE ELSE Encrypted(form[e])
                       /\ file'.creds = file.creds
          BY <2>1, <2>5, <3>3 DEF Changed, WithServer, OfServer
        <4>2. key[e] \in ServerKeys /\ file.servers \in [ServerKeys -> Server \cup {NONE}]
          BY <2>2, <2>3, <3>3 DEF OfServer, Form, Good, Connections
        <4>3. Pending(e)'
          <5>1. file'.servers[key[e]] = s BY <4>1, <4>2
          <5>2. op'[e] = op[e] /\ key'[e] = key[e] /\ form'[e] = form[e] BY <1>6, <3>1, <3>3
          <5>3. op[e] = "addServer" => HasCredential(file', form[e])
            BY <1>3, <2>1, <4>1 DEF Holds, HasCredential
          <5>4. op[e] = "editServer" /\ startable => list[key[e]] # NONE
            BY <1>3, <1>7, <2>1, <2>2, <4>2 DEF OneRequest, Follows
          <5> QED BY <1>1, <2>1, <4>1, <5>1, <5>2, <5>3, <5>4 DEF Pending, HasCredential
        <4>4. ASSUME NEW k \in ServerKeys, k # key[e] PROVE Follows(k)'
          <5>1. file'.servers[k] = file.servers[k] BY <4>1, <4>2, <4>4
          <5> QED BY <1>1, <1>7, <2>1, <2>2, <5>1 DEF Follows
        <4>5. pc'[e] = "list" /\ key'[e] = key[e] BY <1>6, <3>1, <3>3
        <4> QED BY <1>6, <3>2, <4>3, <4>4, <4>5 DEF OneRequest
      <3>4. CASE ~OfServer(e)
        <4>1. file'.servers = file.servers
          BY <2>1, <2>3, <2>5, <3>4 DEF Changed, WithCredential, OfServer, Ops
        <4>2. \A k \in ServerKeys : Follows(k)' BY <1>1, <1>7, <2>1, <2>2, <4>1 DEF Follows
        <4> QED BY <1>6, <3>1, <3>4, <4>2 DEF OneRequest
      <3> QED BY <3>3, <3>4
    <2> QED BY <2>1, <2>4, <2>5
  <1>12. CASE UpdateList(e)
    <2>1. pc[e] = "list" /\ UNCHANGED file /\ Ends(e, "idle") BY <1>12 DEF UpdateList
    <2>2. label = "idle" BY <1>6, <2>1 DEF Ends, SInv, Requests
    <2>3. /\ op[e] \in {"addServer", "editServer", "deleteServer"} /\ Form(e)
          /\ Pending(e) /\ file # TORN
      BY <1>3, <2>1 DEF Holds, OneRequest, Ops
    <2>4. key[e] \in ServerKeys BY <2>3 DEF Form
    <2>5. /\ \A k \in ServerKeys \ {key[e]} : list'[k] = list[k] /\ (k \in edited' <=> k \in edited)
          /\ op[e] = "deleteServer" => list'[key[e]] = NONE
          /\ op[e] = "addServer" => list'[key[e]] = IF CanConnect(form[e]) THEN form[e] ELSE NONE
          /\ op[e] = "editServer" =>
               /\ key[e] \in edited'
               /\ list'[key[e]] = IF list[key[e]] = NONE THEN NONE
                                  ELSE Edited(list[key[e]], form[e])
      BY <1>12, <2>3, <2>4 DEF UpdateList, SInv
    <2>6. ASSUME NEW k \in ServerKeys, k = key[e] PROVE Follows(k)'
      <3> USE <2>6
      <3>1. CASE op[e] = "deleteServer" BY <1>1, <2>1, <2>3, <2>5, <3>1 DEF Follows, Pending
      <3>2. CASE op[e] # "deleteServer"
        <4>1. form[e] \in Plain BY <2>3, <3>2 DEF Form, Plain
        <4>2. Encrypted(form[e]) \in Server BY <4>1, EncryptedIs DEF Plain
        <4>3. file'.servers[key[e]] = Encrypted(form[e]) /\ file'.servers[key[e]] # NONE
          BY <2>1, <2>3, <3>2, <4>2 DEF Pending
        <4>4. /\ Decrypted(Encrypted(form[e])) = form[e]
              /\ Encrypted(form[e]).desc = form[e].desc /\ form[e] # NONE
          BY <4>1, DecryptedEncrypted DEF Plain
        <4>5. CASE op[e] = "addServer"
          <5>1. CanConnect(form[e]) BY <2>3, <4>5 DEF Pending, HasCredential, CanConnect
          <5> QED BY <2>5, <4>3, <4>4, <4>5, <5>1 DEF Follows
        <4>6. CASE op[e] = "editServer"
          <5>1. list[key[e]] \in Plain \cup {NONE} BY <2>4 DEF SInv
          <5>2. list[key[e]] # NONE =>
                  /\ Edited(list[key[e]], form[e]).desc = form[e].desc
                  /\ Edited(list[key[e]], form[e]) # NONE
            BY <4>1, <5>1 DEF Edited, Plain, Server
          <5>3. startable' => list[key[e]] # NONE BY <1>1, <2>3, <4>6 DEF Pending
          <5> QED BY <2>5, <4>3, <4>4, <4>6, <5>2, <5>3 DEF Follows
        <4> QED BY <2>3, <3>2, <4>5, <4>6
      <3> QED BY <3>1, <3>2
    <2>7. ASSUME NEW k \in ServerKeys \ {key[e]} PROVE Follows(k)'
      BY <1>1, <1>7, <2>1, <2>3, <2>5, <2>7 DEF Follows
    <2> QED BY <1>6, <2>2, <2>6, <2>7 DEF OneRequest
  <1> QED BY <1>9, <1>10, <1>11, <1>12 DEF Step

(* A crash ends every request; a start fills the list from the file.       *)
LEMMA ListRestart == ASSUME SInv, LInv, Crash \/ Start \/ UNCHANGED vars PROVE LInv'
  <1>1. CASE Crash BY <1>1 DEF Crash, AllIdle, LInv
  <1>2. CASE Start
    <2>1. ~running /\ running' /\ UNCHANGED requestVars /\ \A e \in Editors : pc[e] = "idle"
      BY <1>2 DEF Start, LInv
    <2> DEFINE good == {k \in Readable(file) : CanConnect(file.servers[k])}
               filled(added) == [k \in ServerKeys |->
                                   IF k \in added THEN Decrypted(file.servers[k]) ELSE NONE]
    <2>2. ASSUME NEW k \in ServerKeys, file' # TORN PROVE Follows(k)'
      <3>1. CASE list' = NoServers /\ startable' = FALSE
        BY <3>1 DEF NoServers, Follows
      <3>2. ASSUME file # TORN, file' = file, NEW added \in SUBSET Readable(file),
                   startable' => added = Readable(file), list' = filled(added)
            PROVE  Follows(k)'
        <4>1. file.servers[k] # NONE => file.servers[k] \in Server /\ Secret(file.servers[k])
          BY <3>2 DEF SInv, Good, Connections
        <4>2. file.servers[k] # NONE =>
                /\ Decrypted(file.servers[k]) # NONE
                /\ Decrypted(file.servers[k]).desc = file.servers[k].desc
          BY <4>1, DecryptedIs DEF Decrypted, Server
        <4>3. list'[k] = IF k \in added THEN Decrypted(file.servers[k]) ELSE NONE BY <3>2
        <4> HIDE DEF filled
        <4> QED BY <3>2, <4>2, <4>3 DEF Follows, Readable
      <3>3. \/ list' = NoServers /\ startable' = FALSE
            \/ /\ file # TORN /\ file' = file /\ startable' = (good = Readable(file))
               /\ \E added \in SUBSET good :
                    (good = Readable(file) => added = good) /\ list' = filled(added)
        BY <1>2, Zenon DEF Start
      <3>4. good \subseteq Readable(file) OBVIOUS
      <3> HIDE DEF good, filled
      <3> QED BY <3>1, <3>2, <3>3, <3>4
    <2>3. OneRequest' BY <2>1, <2>2 DEF OneRequest, requestVars
    <2> QED BY <2>1, <2>3 DEF LInv
  <1>3. CASE UNCHANGED vars
    BY <1>3 DEF vars, requestVars, historyVars, LInv, OneRequest, Follows, Pending, HasCredential
  <1> QED BY <1>1, <1>2, <1>3

(* While requests come one at a time, between two of them, what is polled  *)
(* is in the file under its description there, with its login there unless *)
(* it was edited; and after a start that could add every server, every     *)
(* server of the file is polled.  Saves may fail and IsItSQL may end       *)
(* anywhere (serverEditPage, UpdateFromSettings, setupConnectionsAsync).   *)
THEOREM ListCorrect == Spec => []ListFollowsFile
  <1>1. Init => LInv BY DEF Init, LInv
  <1>2. SInv /\ LInv /\ [Next]_vars => LInv'
    BY ListRequest, ListStep, ListRestart DEF Next
  <1>3. ASSUME SInv, LInv PROVE ListFollowsFile
    BY <1>3 DEF LInv, OneRequest, Follows, ListFollowsFile
  <1> QED BY Invariance, <1>1, <1>2, <1>3, PTL DEF Spec
=============================================================================
