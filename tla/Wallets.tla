------------------------------ MODULE Wallets ------------------------------
(***************************************************************************)
(* The wallet managers (wallet/): how the key of a relayer is made, found    *)
(* again after a restart and used to sign, with each signing provider a      *)
(* configuration may name (exactly one: SigningProvider::validate).  There   *)
(* is one manager per network.  A relayer's row keeps the address its key    *)
(* had when the row was written; the manager finds the key by wallet index   *)
(* and chain.  Addresses are identified with keys, keys with the order in    *)
(* which the provider got them.                                              *)
(***************************************************************************)
EXTENDS Integers, Sequences, FiniteSets, SequencesExt

CONSTANTS
  Slot,        \* handlers and queue loops that may be in a wallet manager
  Relayer,
  Chain,
  ChainOf,     \* of each relayer
  IndexOf,     \* its wallet index
  SourceOf,    \* the relayer it is cloned from, or NoRelayer
  MaxKeys,     \* bounds the keys the provider ever holds
  MaxFaults,   \* bounds the faults of the provider and the restarts
  NoRelayer, NoKey, NoName, Nobody, Idle, Anywhere

Backend == {"mnemonic", "private_keys", "aws_kms", "turnkey", "privy", "fireblocks", "pkcs11"}
Signing == {"sign", "typed"}
Recording == {"create", "clone", "import"}

ASSUME WalletsAssumption ==
  /\ ChainOf \in [Relayer -> Chain]
  /\ IndexOf \in [Relayer -> Nat]
  /\ SourceOf \in [Relayer -> Relayer \cup {NoRelayer}]
  /\ NoRelayer \notin Relayer
  /\ Nobody \notin Slot
  /\ Anywhere \notin Chain
  /\ {MaxKeys, MaxFaults} \subseteq Nat

VARIABLES
  backend,  \* the signing provider of the configuration
  newest,   \* Privy lists the newest wallet first
  keys,     \* what the provider holds
  row,      \* the address in each relayer's row
  known,    \* what each network's manager remembers: wallet -> key
  call,     \* the calls under way
  mutex,    \* who holds each manager's map across an await
  left      \* faults that may still strike

vars == <<backend, newest, keys, row, known, call, mutex, left>>

Cloned(r) == SourceOf[r] # NoRelayer

\* cloned_from_chain_id_or_default
LookupChain(r) == IF Cloned(r) THEN ChainOf[SourceOf[r]] ELSE ChainOf[r]

\* What the provider knows the relayer's key by: an alias, a label, a vault's name, a path.
Name(r) ==
  CASE backend \in {"aws_kms", "pkcs11"} -> <<IndexOf[r], LookupChain(r)>>
    [] backend = "fireblocks" -> <<IndexOf[r], ChainOf[r]>>
    [] OTHER -> <<IndexOf[r], Anywhere>>

\* Mutant: the entry of a clone is kept under the chain it signs for.
CacheKeyOfSigningChain(r) == <<IndexOf[r], ChainOf[r]>>

\* What the manager remembers it by.
CacheKey(r) == Name(r)

Named(n) == {k \in DOMAIN keys : keys[k].name = n /\ keys[k].listed}

Oldest(ks) == CHOOSE k \in ks : \A j \in ks : k <= j
Latest(ks) == CHOOSE k \in ks : \A j \in ks : k >= j

\* Privy's wallets have no names: the index is the position in the listing.
Position(i) == IF newest THEN Len(keys) - i ELSE i + 1

\* The key the provider shows for n.  Of two Turnkey accounts with the same last number in
\* their paths the one listed last stays in the map.
Shown(n) ==
  CASE backend = "privy" -> IF Position(n[1]) \in DOMAIN keys THEN Position(n[1]) ELSE NoKey
    [] backend # "privy" /\ Named(n) = {} -> NoKey
    [] backend = "turnkey" /\ Named(n) # {} -> Latest(Named(n))
    [] OTHER -> Oldest(Named(n))

Names == {Name(r) : r \in Relayer}
Listed == {n \in Names : Shown(n) # NoKey}

TypeOK ==
  /\ backend \in Backend
  /\ newest \in BOOLEAN
  /\ keys \in Seq([name : Names \cup {NoName}, listed : BOOLEAN, own : BOOLEAN])
  /\ row \in [Relayer -> Nat \cup {NoKey}]
  /\ \A c \in Chain : \A n \in DOMAIN known[c] : known[c][n] \in Nat
  /\ \A s \in Slot : call[s] # Idle =>
       /\ call[s].op \in Signing \cup Recording \cup {"address"}
       /\ call[s].relayer \in Relayer
  /\ mutex \in [Chain -> Slot \cup {Nobody}]
  /\ left \in 0..MaxFaults

NothingKnown == [n \in {} |-> NoKey]

\* Keys of a mnemonic or of the configuration's list are there from the start.
Derived == {"mnemonic", "private_keys"}

Init ==
  /\ backend \in Backend
  /\ newest \in IF backend = "privy" THEN BOOLEAN ELSE {FALSE}
  /\ keys = IF backend \in Derived
              THEN SetToSeq({[name |-> n, listed |-> TRUE, own |-> TRUE] : n \in Names})
              ELSE <<>>
  /\ row = [r \in Relayer |-> NoKey]
  /\ known = [c \in Chain |-> NothingKnown]
  /\ call = [s \in Slot |-> Idle]
  /\ mutex = [c \in Chain |-> Nobody]
  /\ left = MaxFaults

-----------------------------------------------------------------------------
(***************************************************************************)
(* Steps of a call.                                                         *)
(***************************************************************************)
At(s, place) == call[s] # Idle /\ call[s].at = place

ManagerOf(s) == ChainOf[call[s].relayer]
NameOf(s) == Name(call[s].relayer)
MemoOf(s) == CacheKey(call[s].relayer)
Remembered(s) == MemoOf(s) \in DOMAIN known[ManagerOf(s)]
Free(s) == mutex[ManagerOf(s)] = Nobody

Goes(s, place, key) == call' = [call EXCEPT ![s].at = place, ![s].key = key]

Remember(s, key) ==
  known' = [known EXCEPT ![ManagerOf(s)] = (MemoOf(s) :> key) @@ @]

\* entry().or_insert(): what another call remembered meanwhile stays.
RememberFirst(s, key) ==
  known' = [known EXCEPT ![ManagerOf(s)] = @ @@ (MemoOf(s) :> key)]

Full == Len(keys) >= MaxKeys

Make(name) ==
  /\ ~Full
  /\ keys' = Append(keys, [name |-> name, listed |-> TRUE, own |-> TRUE])

\* Mutant: a guard outlives its call.
NeverReleased(s) == mutex

\* The guards of a call are dropped with it.
Released(s) == [c \in Chain |-> IF mutex[c] = s THEN Nobody ELSE mutex[c]]

Leaves(s) ==
  /\ call' = [call EXCEPT ![s] = Idle]
  /\ mutex' = Released(s)

Config == <<backend, newest>>
Provider == <<keys, left>>
Memory == <<known, mutex>>

\* create_relayer takes the next index of its chain.
NextIndex(r) ==
  \A q \in Relayer : ~Cloned(q) /\ ChainOf[q] = ChainOf[r] /\ IndexOf[q] < IndexOf[r]
                       => row[q] # NoKey

\* What is asked of a recorded relayer's wallet.  Only Turnkey signs typed data in another way
\* than transactions and texts, and only Turnkey changes anything to find an address (get_nonce).
Uses ==
  IF backend = "turnkey" THEN {"sign", "typed", "address"} ELSE {"sign"}

\* Creating and importing take relayer_creation_mutex; cloning does not.
NobodyRecords == \A s \in Slot : call[s] # Idle => call[s].op \notin {"create", "import"}

NewRow(r) ==
  /\ row[r] = NoKey
  /\ \A s \in Slot : call[s] # Idle => call[s].relayer # r

Create(r) == NewRow(r) /\ ~Cloned(r) /\ NextIndex(r) /\ NobodyRecords

\* Private keys alone make no relayers on demand: start-up imports them.
CanClone == backend \notin {"fireblocks", "private_keys"}

Clone(r) == NewRow(r) /\ Cloned(r) /\ CanClone /\ row[SourceOf[r]] # NoKey

Begin(s, r, op) ==
  /\ call[s] = Idle
  /\ CASE op = "create" -> Create(r)
       [] op = "clone" -> Clone(r)
       [] OTHER -> row[r] # NoKey
  /\ call' = [call EXCEPT ![s] = [relayer |-> r, op |-> op, at |-> "enter", key |-> NoKey]]
  /\ UNCHANGED <<Config, Provider, Memory, row>>

\* A KMS key made by somebody else and in no row yet is brought in (import_relayer).
BeginImport(s, r, k) ==
  /\ backend = "aws_kms"
  /\ call[s] = Idle
  /\ Create(r)
  /\ k \in DOMAIN keys
  /\ keys[k].name = NoName /\ ~keys[k].own
  /\ \A q \in Relayer : row[q] # k
  /\ call' = [call EXCEPT ![s] = [relayer |-> r, op |-> "import", at |-> "adopt", key |-> k]]
  /\ UNCHANGED <<Config, Provider, Memory, row>>

\* A call ends with an error, or with its client gone, at any await.
Abandon(s) ==
  /\ call[s] # Idle
  /\ Leaves(s)
  /\ UNCHANGED <<Config, Provider, known, row>>

\* The provider's quota of keys.
Refused(s) ==
  /\ \E place \in {"kms_make", "pkcs11_make", "vault_make", "account_make"} : At(s, place)
  /\ Full
  /\ Leaves(s)
  /\ UNCHANGED <<Config, Provider, known, row>>

\* The manager signs with the key it found.
Sign(s) ==
  /\ backend \notin {"pkcs11", "fireblocks"}
  /\ At(s, "ready")
  /\ call[s].op \in Signing
  /\ Goes(s, "signed", call[s].key)
  /\ UNCHANGED <<Config, Provider, Memory, row>>

\* A signature or an address is returned; a new row keeps the address.
Return(s) ==
  LET r == call[s].relayer
      key == call[s].key
      recorded == \/ call[s].op \in {"create", "import"}
                  \/ call[s].op = "clone" /\ key = row[SourceOf[r]]
  IN /\ IF call[s] # Idle /\ call[s].op \in Signing THEN At(s, "signed") ELSE At(s, "ready")
     /\ row' = IF recorded THEN [row EXCEPT ![r] = key] ELSE row
     /\ Leaves(s)
     /\ UNCHANGED <<Config, Provider, known>>

-----------------------------------------------------------------------------
(***************************************************************************)
(* A mnemonic derives the key of any index, a list of private keys holds    *)
(* it: the whole lookup is under the map's mutex without an await.          *)
(***************************************************************************)
Derive(s) ==
  /\ backend \in Derived
  /\ At(s, "enter")
  /\ Goes(s, "ready", IF Remembered(s) THEN known[ManagerOf(s)][MemoOf(s)] ELSE Shown(NameOf(s)))
  /\ Remember(s, call'[s].key)
  /\ UNCHANGED <<Config, Provider, mutex, row>>

MnemonicLookup(s) == backend = "mnemonic" /\ Derive(s)
PrivateKeyLookup(s) == backend = "private_keys" /\ Derive(s)

-----------------------------------------------------------------------------
(***************************************************************************)
(* AWS KMS.                                                                 *)
(***************************************************************************)
Recall(s, place) ==
  IF Remembered(s) THEN Goes(s, "ready", known[ManagerOf(s)][MemoOf(s)])
                   ELSE Goes(s, place, NoKey)

KmsEnter(s) ==
  /\ backend = "aws_kms"
  /\ At(s, "enter")
  /\ Recall(s, "kms_find")
  /\ UNCHANGED <<Config, Provider, Memory, row>>

\* describe_key by alias.  A clone needs the alias of its source: without it the call is
\* abandoned.
KmsFind(s) ==
  /\ At(s, "kms_find")
  /\ \/ /\ Shown(NameOf(s)) # NoKey
        /\ Goes(s, "kms_open", Shown(NameOf(s)))
        /\ UNCHANGED mutex
     \/ /\ Shown(NameOf(s)) = NoKey
        /\ ~Cloned(call[s].relayer)
        /\ Goes(s, "kms_make", NoKey)
        /\ UNCHANGED mutex
     \/ /\ Shown(NameOf(s)) = NoKey
        /\ Cloned(call[s].relayer)
        /\ Leaves(s)
  /\ UNCHANGED <<Config, Provider, known, row>>

KmsMake(s) ==
  /\ At(s, "kms_make")
  /\ Make(NoName)
  /\ Goes(s, "kms_alias", Len(keys) + 1)
  /\ UNCHANGED <<Config, left, Memory, row>>

Renamed(k, name) == keys' = [keys EXCEPT ![k].name = name]

\* create_alias: when it fails the key is used all the same, without a name.  Two calls never
\* make the key of one relayer at a time, so an alias in the way is one more failure.
KmsAlias(s) ==
  /\ At(s, "kms_alias")
  /\ \/ /\ Shown(NameOf(s)) = NoKey
        /\ Renamed(call[s].key, NameOf(s))
        /\ UNCHANGED left
     \/ /\ left > 0
        /\ left' = left - 1
        /\ UNCHANGED keys
  /\ Goes(s, "kms_open", call[s].key)
  /\ UNCHANGED <<Config, Memory, row>>

KmsOpen(s) ==
  /\ At(s, "kms_open")
  /\ Remember(s, call[s].key)
  /\ Goes(s, "ready", call[s].key)
  /\ UNCHANGED <<Config, Provider, mutex, row>>

\* import_existing_key: the alias of the new index must be free.
KmsAdopt(s) ==
  /\ At(s, "adopt")
  /\ IF Shown(NameOf(s)) = NoKey
       THEN /\ Renamed(call[s].key, NameOf(s))
            /\ Goes(s, "ready", call[s].key)
            /\ UNCHANGED mutex
       ELSE /\ Leaves(s)
            /\ UNCHANGED keys
  /\ UNCHANGED <<Config, left, known, row>>

-----------------------------------------------------------------------------
(***************************************************************************)
(* PKCS#11: a key pair is labelled as it is made.                           *)
(***************************************************************************)
Pkcs11Enter(s) ==
  /\ backend = "pkcs11"
  /\ At(s, "enter")
  /\ Recall(s, "pkcs11_find")
  /\ UNCHANGED <<Config, Provider, Memory, row>>

Pkcs11Find(s) ==
  /\ At(s, "pkcs11_find")
  /\ Goes(s, IF Shown(NameOf(s)) = NoKey THEN "pkcs11_make" ELSE "pkcs11_open", NoKey)
  /\ UNCHANGED <<Config, Provider, Memory, row>>

Pkcs11Make(s) ==
  /\ At(s, "pkcs11_make")
  /\ Make(NameOf(s))
  /\ Goes(s, "pkcs11_open", NoKey)
  /\ UNCHANGED <<Config, left, Memory, row>>

\* derive_address_from_key reads the public key by its label.
Pkcs11Open(s) ==
  /\ At(s, "pkcs11_open")
  /\ Remember(s, Shown(NameOf(s)))
  /\ Goes(s, "ready", Shown(NameOf(s)))
  /\ UNCHANGED <<Config, Provider, mutex, row>>

\* sign_hash finds the private key by its label again, and signs if it is still the
\* remembered one.
Pkcs11Sign(s) ==
  /\ backend = "pkcs11"
  /\ At(s, "ready")
  /\ call[s].op \in Signing
  /\ IF Shown(NameOf(s)) = call[s].key
       THEN Goes(s, "signed", Shown(NameOf(s))) /\ UNCHANGED mutex
       ELSE Leaves(s)
  /\ UNCHANGED <<Config, Provider, known, row>>

-----------------------------------------------------------------------------
(***************************************************************************)
(* Fireblocks: a vault account per wallet, sought on the first page of the  *)
(* accounts only.                                                           *)
(***************************************************************************)
FireblocksEnter(s) ==
  /\ backend = "fireblocks"
  /\ At(s, "enter")
  /\ Recall(s, "vault_find")
  /\ UNCHANGED <<Config, Provider, Memory, row>>

VaultFind(s) ==
  /\ At(s, "vault_find")
  /\ LET vault == Shown(NameOf(s))
     IN Goes(s, IF vault = NoKey THEN "vault_make" ELSE "vault_asset", vault)
  /\ UNCHANGED <<Config, Provider, Memory, row>>

VaultMake(s) ==
  /\ At(s, "vault_make")
  /\ Make(NameOf(s))
  /\ Goes(s, "vault_asset", Len(keys) + 1)
  /\ UNCHANGED <<Config, left, Memory, row>>

VaultAsset(s) ==
  /\ At(s, "vault_asset")
  /\ Remember(s, call[s].key)
  /\ Goes(s, "ready", call[s].key)
  /\ UNCHANGED <<Config, Provider, mutex, row>>

\* A raw signature is asked for and polled for sixty times, then given up.
FireblocksSign(s) ==
  /\ backend = "fireblocks"
  /\ At(s, "ready")
  /\ call[s].op \in Signing
  /\ \/ Goes(s, "signed", call[s].key) /\ UNCHANGED mutex
     \/ Leaves(s)
  /\ UNCHANGED <<Config, Provider, known, row>>

-----------------------------------------------------------------------------
(***************************************************************************)
(* Turnkey and Privy keep a map of all the provider's accounts.             *)
(***************************************************************************)
Everything == [n \in Listed |-> Shown(n)]

Loaded(m) == Everything @@ m

\* A new wallet, and Turnkey's get_address, reload the map first.
Reloads(s) ==
  \/ call[s].op \in Recording
  \/ backend = "turnkey" /\ call[s].op = "address"

\* load_accounts, load_wallets, then a look into the map.  An error answer of Turnkey counts
\* as an empty list.
Load(s) ==
  /\ backend \in {"turnkey", "privy"}
  /\ At(s, "enter")
  /\ Reloads(s)
  /\ Free(s)
  /\ LET m == ManagerOf(s)
     IN /\ \/ /\ known' = [known EXCEPT ![m] = Loaded(@)]
              /\ UNCHANGED left
           \/ /\ backend = "turnkey"
              /\ left > 0
              /\ left' = left - 1
              /\ UNCHANGED known
        /\ IF MemoOf(s) \in DOMAIN known'[m] THEN Goes(s, "ready", known'[m][MemoOf(s)])
                                            ELSE Goes(s, "account_make", NoKey)
  /\ UNCHANGED <<Config, keys, mutex, row>>

\* Turnkey refuses a second account of one path.
TurnkeyMake(s) ==
  /\ backend = "turnkey"
  /\ At(s, "account_make")
  /\ IF \E k \in Named(NameOf(s)) : keys[k].own
       THEN Leaves(s) /\ UNCHANGED keys
       ELSE Make(NameOf(s)) /\ Goes(s, "account_keep", Len(keys) + 1) /\ UNCHANGED mutex
  /\ UNCHANGED <<Config, left, known, row>>

PrivyMake(s) ==
  /\ backend = "privy"
  /\ At(s, "account_make")
  /\ Make(NoName)
  /\ Goes(s, "account_keep", Len(keys) + 1)
  /\ UNCHANGED <<Config, left, Memory, row>>

\* The address returned is the new account's, whatever the map says.
AccountKeep(s) ==
  /\ At(s, "account_keep")
  /\ Free(s)
  /\ RememberFirst(s, call[s].key)
  /\ Goes(s, "ready", call[s].key)
  /\ UNCHANGED <<Config, Provider, mutex, row>>

\* Without an entry: WalletNotFound.
Missing(s) ==
  /\ backend \in {"turnkey", "privy"}
  /\ At(s, "enter")
  /\ ~Reloads(s)
  /\ Free(s)
  /\ ~Remembered(s)
  /\ Leaves(s)
  /\ UNCHANGED <<Config, Provider, known, row>>

Entry(s) ==
  /\ At(s, "enter")
  /\ ~Reloads(s)
  /\ Free(s)
  /\ Remembered(s)
  /\ UNCHANGED <<Config, Provider, known, row>>

Remembers(s) == known[ManagerOf(s)][MemoOf(s)]

\* sign_transaction, sign_text: the guard is dropped before the request.
TurnkeySign(s) ==
  /\ backend = "turnkey"
  /\ Entry(s)
  /\ call[s].op # "typed"
  /\ Goes(s, "ready", Remembers(s))
  /\ UNCHANGED mutex

\* sign_typed_data locks the map again while its first guard lives: it waits for itself.
TurnkeyTypedData(s) ==
  /\ backend = "turnkey"
  /\ Entry(s)
  /\ call[s].op = "typed"
  /\ Goes(s, "relock", Remembers(s))
  /\ mutex' = [mutex EXCEPT ![ManagerOf(s)] = s]

\* Privy signs with the guard held over the request.
PrivySign(s) ==
  /\ backend = "privy"
  /\ Entry(s)
  /\ Goes(s, "ready", Remembers(s))
  /\ mutex' = [mutex EXCEPT ![ManagerOf(s)] = s]

-----------------------------------------------------------------------------
(***************************************************************************)
(* What happens around the managers.                                        *)
(***************************************************************************)
Strike == left > 0 /\ left' = left - 1

\* The process ends and starts again: load_providers makes new managers, and Turnkey and
\* Privy read their accounts at once.
Restart ==
  /\ Strike
  /\ call' = [s \in Slot |-> Idle]
  /\ mutex' = [c \in Chain |-> Nobody]
  /\ \/ known' = [c \in Chain |-> IF backend \in {"turnkey", "privy"} THEN Everything
                                                                     ELSE NothingKnown]
     \/ backend = "turnkey" /\ known' = [c \in Chain |-> NothingKnown]
  /\ UNCHANGED <<Config, keys, row>>

\* Somebody else adds to what the provider holds: a key of the AWS account, a wallet of the
\* Privy application, an account of the Turnkey wallet under another path.
Outsider(r) ==
  /\ backend \in {"aws_kms", "privy", "turnkey"}
  /\ Strike
  /\ ~Full
  /\ keys' = Append(keys, [name |-> IF backend = "turnkey" THEN Name(r) ELSE NoName,
                           listed |-> TRUE, own |-> FALSE])
  /\ UNCHANGED <<Config, row, known, call, mutex>>

\* A vault leaves the first page of Fireblocks' accounts.
Bury(k) ==
  /\ backend = "fireblocks"
  /\ keys[k].listed
  /\ Strike
  /\ keys' = [keys EXCEPT ![k].listed = FALSE]
  /\ UNCHANGED <<Config, row, known, call, mutex>>

Kms(s) == KmsEnter(s) \/ KmsFind(s) \/ KmsMake(s) \/ KmsAlias(s) \/ KmsOpen(s) \/ KmsAdopt(s)

Pkcs11(s) == Pkcs11Enter(s) \/ Pkcs11Find(s) \/ Pkcs11Make(s) \/ Pkcs11Open(s)
             \/ Pkcs11Sign(s)

Fireblocks(s) == FireblocksEnter(s) \/ VaultFind(s) \/ VaultMake(s) \/ VaultAsset(s)
                 \/ FireblocksSign(s)

Accounts(s) ==
  \/ Load(s) \/ TurnkeyMake(s) \/ PrivyMake(s) \/ AccountKeep(s)
  \/ Missing(s) \/ TurnkeySign(s) \/ TurnkeyTypedData(s) \/ PrivySign(s)

Proceeds(s) ==
  \/ MnemonicLookup(s) \/ PrivateKeyLookup(s)
  \/ Kms(s) \/ Pkcs11(s) \/ Fireblocks(s) \/ Accounts(s)
  \/ Refused(s) \/ Sign(s) \/ Return(s)

Next ==
  \/ \E s \in Slot :
       \/ Proceeds(s)
       \/ Abandon(s)
       \/ \E r \in Relayer :
            \/ \E op \in Uses \cup {"create", "clone"} : Begin(s, r, op)
            \/ \E k \in DOMAIN keys : BeginImport(s, r, k)
  \/ Restart
  \/ \E r \in Relayer : Outsider(r)
  \/ \E k \in DOMAIN keys : Bury(k)

Spec == Init /\ [][Next]_vars

\* The mutex is FIFO: a call that waits for it gets its turn.
Fairness == \A s \in Slot : SF_vars(Proceeds(s))

FairSpec == Spec /\ Fairness

-----------------------------------------------------------------------------
(***************************************************************************)
(* Properties.                                                              *)
(***************************************************************************)
\* Privy lists the newest wallet first, so each one made after r's moves it down the listing.
MovedDown(r) == backend = "privy" /\ newest /\ Len(keys) > row[r]

\* The provider does not hold the key of r under r's name and under no other's: it shows
\* another (a vault off the first page, a listing in another order) or has done so, KMS let a
\* key of r go without its alias, or two Turnkey accounts end in r's number.
Misnamed(r, key) ==
  \/ Shown(Name(r)) # row[r]
  \/ MovedDown(r)
  \/ backend = "aws_kms" /\ keys[key].name = NoName
  \/ backend = "turnkey" /\ Cardinality(Named(Name(r))) > 1

\* A relayer signs with the key its row holds the address of, through restarts and beside any
\* other call, as long as the provider names its key properly (get_or_initialize_signer,
\* get_or_create_wallet, get_or_create_vault_account, load_wallets, load_accounts).
SignsAsItself ==
  \A s \in Slot :
    At(s, "signed")
      => call[s].key = row[call[s].relayer] \/ Misnamed(call[s].relayer, call[s].key)

\* Turnkey's sign_typed_data has locked its manager's map twice.
Jammed == \E s \in Slot : At(s, "relock")

\* A call into a wallet manager comes back, whatever else is in the manager, unless typed
\* data was to be signed with Turnkey.
EveryCallReturns == \A s \in Slot : call[s] # Idle ~> call[s] = Idle \/ Jammed
=============================================================================
