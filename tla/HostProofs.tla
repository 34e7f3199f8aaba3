------------------------------ MODULE HostProofs ------------------------------
(***************************************************************************)
(* Proofs about Host, for all accounts, transactions, programs, depths and *)
(* numbers of operations.                                                  *)
(***************************************************************************)
EXTENDS Host, SumProofs

------------------------------------------------------------------------------
(* What operations do to one account.                                      *)

(* An account of a map: an address outside of it has no data.              *)
Entry(x) == x \in Account /\ (~x.exists => x = NoAccount)

(* What no operation takes back while a frame is open: presence, nonces,   *)
(* code, the touch, the warmth.                                            *)
Grown(x, y) ==
  /\ x.exists => y.exists
  /\ y.nonce >= x.nonce
  /\ x.code # EmptyCode => y.code = x.code
  /\ x.erasable => y.erasable
  /\ x.access_status = "WARM" => y.access_status = "WARM"

(* All but the storing of code at the end of a creation keep codes.        *)
Kept(x, y) == Grown(x, y) /\ y.code = x.code

SameContents(x, y) ==
  y.nonce = x.nonce /\ y.balance = x.balance /\ y.code = x.code /\ y.storage = x.storage

(* The types of the fields of an account.                                  *)
LEMMA AccountTypes ==
  ASSUME NEW x \in Account
  PROVE  /\ x.exists \in BOOLEAN /\ x.nonce \in 0 .. NonceMax /\ x.balance \in Int /\ x.code \in Code
         /\ x.storage \in Nat /\ x.erasable \in BOOLEAN /\ x.access_status \in {"COLD", "WARM"}
         /\ x.nonce \in Nat
  BY NonceMaxAssumption DEF Account

(* The account of an address outside the map is well formed.               *)
LEMMA NoAccountType == NoAccount \in Account /\ Entry(NoAccount)
  BY NonceMaxAssumption DEF NoAccount, Account, EmptyCode, Code, Entry

(* An account that does not change takes nothing back.                     *)
LEMMA GrownReflexive ==
  ASSUME NEW x \in Account
  PROVE  Kept(x, x)
  BY AccountTypes DEF Kept, Grown

(* Two changes in a row that take nothing back.                            *)
LEMMA GrownTransitive ==
  ASSUME NEW x \in Account, NEW y \in Account, NEW z \in Account, Grown(x, y), Grown(y, z)
  PROVE  Grown(x, z)
<1>1. x.nonce \in Nat /\ y.nonce \in Nat /\ z.nonce \in Nat
  BY AccountTypes
<1>2. z.nonce >= x.nonce
  BY <1>1 DEF Grown
<1> QED
  BY <1>2 DEF Grown

(* get_or_insert() changes only presence, and only of an absent account.   *)
LEMMA InsertEntry ==
  ASSUME NEW x, Entry(x), NEW e \in BOOLEAN
  PROVE  /\ Entry(get_or_insert(x, e)) /\ get_or_insert(x, e) \in Account /\ get_or_insert(x, e).exists
         /\ SameContents(x, get_or_insert(x, e)) /\ Kept(x, get_or_insert(x, e))
         /\ get_or_insert(x, e).access_status = x.access_status
         /\ x.exists => get_or_insert(x, e) = x
<1>1. CASE x.exists
  BY <1>1, GrownReflexive DEF Entry, get_or_insert, SameContents
<1>2. CASE ~x.exists
  <2> DEFINE y == [NoAccount EXCEPT !.exists = TRUE, !.erasable = e]
  <2>1. x = NoAccount /\ get_or_insert(x, e) = y
    BY <1>2 DEF Entry, get_or_insert
  <2>2. /\ y \in Account /\ y.exists /\ y.nonce = 0 /\ y.balance = 0 /\ y.code = EmptyCode /\ y.storage = 0
        /\ y.access_status = "COLD"
    <3>1. NoAccount \in Account
      BY NoAccountType
    <3>2. /\ NoAccount.nonce = 0 /\ NoAccount.balance = 0 /\ NoAccount.code = EmptyCode
          /\ NoAccount.storage = 0 /\ NoAccount.access_status = "COLD"
      BY DEF NoAccount
    <3> QED
      BY <3>1, <3>2 DEF Account
  <2> HIDE DEF y
  <2>3. /\ ~x.exists /\ x.nonce = 0 /\ x.balance = 0 /\ x.code = EmptyCode /\ x.storage = 0
        /\ ~x.erasable /\ x.access_status = "COLD"
    BY <2>1 DEF NoAccount
  <2> QED
    BY <2>1, <2>2, <2>3 DEF Entry, SameContents, Kept, Grown
<1> QED
  BY <1>1, <1>2

(* touch() leaves an account that exists and is erasable, with the same    *)
(* contents.                                                               *)
LEMMA TouchEntry ==
  ASSUME NEW x, Entry(x)
  PROVE  /\ Entry(touch(x)) /\ touch(x).exists /\ touch(x).erasable
         /\ SameContents(x, touch(x)) /\ Kept(x, touch(x))
<1> DEFINE y == get_or_insert(x, FALSE)
           z == [y EXCEPT !.erasable = TRUE]
<1>1. /\ y \in Account /\ y.exists /\ SameContents(x, y) /\ Kept(x, y)
  BY InsertEntry
<1>2. touch(x) = z
  BY DEF touch
<1> HIDE DEF y
<1>3. /\ z \in Account /\ z.exists = y.exists /\ z.nonce = y.nonce /\ z.balance = y.balance
      /\ z.code = y.code /\ z.storage = y.storage /\ z.erasable /\ z.access_status = y.access_status
  BY <1>1 DEF Account
<1> HIDE DEF z
<1> QED
  BY <1>1, <1>2, <1>3 DEF Entry, SameContents, Kept, Grown

(* access_account() leaves an account that exists and is warm, with the    *)
(* same contents.                                                          *)
LEMMA AccessEntry ==
  ASSUME NEW x, Entry(x)
  PROVE  /\ Entry(access_account(x)) /\ access_account(x).exists
         /\ access_account(x).access_status = "WARM"
         /\ SameContents(x, access_account(x)) /\ Kept(x, access_account(x))
<1> DEFINE y == get_or_insert(x, TRUE)
           z == [y EXCEPT !.access_status = "WARM"]
<1>1. /\ y \in Account /\ y.exists /\ SameContents(x, y) /\ Kept(x, y)
  BY InsertEntry
<1>2. access_account(x) = z
  BY DEF access_account
<1> HIDE DEF y
<1>3. /\ z \in Account /\ z.exists = y.exists /\ z.nonce = y.nonce /\ z.balance = y.balance
      /\ z.code = y.code /\ z.storage = y.storage /\ z.erasable = y.erasable /\ z.access_status = "WARM"
  BY <1>1 DEF Account
<1> HIDE DEF z
<1> QED
  BY <1>1, <1>2, <1>3 DEF Entry, SameContents, Kept, Grown

(* create() on an address that is free.                                    *)
LEMMA NewEntry ==
  ASSUME NEW x, Entry(x), ~collision(x)
  PROVE  /\ Entry(new_account(x)) /\ new_account(x).exists /\ new_account(x).nonce = 1
         /\ new_account(x).balance = x.balance /\ new_account(x).code = EmptyCode /\ Kept(x, new_account(x))
<1> DEFINE y == get_or_insert(x, FALSE)
           z == [y EXCEPT !.nonce = 1, !.storage = 0]
<1>1. /\ y \in Account /\ y.exists /\ SameContents(x, y) /\ Kept(x, y)
  BY InsertEntry
<1>2. new_account(x) = z
  BY DEF new_account
<1>3. x.nonce = 0 /\ x.code = EmptyCode
  BY DEF collision, Entry, NoAccount
<1>4. 1 \in 0 .. NonceMax
  BY NonceMaxAssumption
<1> HIDE DEF y
<1>5. /\ z \in Account /\ z.exists = y.exists /\ z.nonce = 1 /\ z.balance = y.balance
      /\ z.code = y.code /\ z.storage = 0 /\ z.erasable = y.erasable /\ z.access_status = y.access_status
  BY <1>1, <1>4 DEF Account
<1> HIDE DEF z
<1> QED
  BY <1>1, <1>2, <1>3, <1>5 DEF Entry, SameContents, Kept, Grown

(* Changes of one field of an account in the map.                          *)
LEMMA FieldUpdates ==
  ASSUME NEW x, Entry(x), x.exists
  PROVE  /\ \A v \in Int : LET y == [x EXCEPT !.balance = v]
                           IN /\ Entry(y) /\ y.exists /\ Kept(x, y) /\ y.balance = v
                              /\ y.nonce = x.nonce /\ y.storage = x.storage /\ y.code = x.code
         /\ \A n \in 0 .. NonceMax : n >= x.nonce =>
              LET y == [x EXCEPT !.nonce = n]
              IN /\ Entry(y) /\ y.exists /\ Kept(x, y) /\ y.nonce = n
                 /\ y.balance = x.balance /\ y.storage = x.storage /\ y.code = x.code
         /\ \A v \in Nat : LET y == [x EXCEPT !.storage = v]
                           IN /\ Entry(y) /\ y.exists /\ Kept(x, y) /\ y.storage = v
                              /\ y.balance = x.balance /\ y.nonce = x.nonce /\ y.code = x.code
         /\ \A c \in Code : LET y == [x EXCEPT !.code = c]
                            IN /\ Entry(y) /\ y.exists /\ (x.code = EmptyCode => Grown(x, y)) /\ y.code = c
                               /\ y.balance = x.balance /\ y.nonce = x.nonce /\ y.storage = x.storage
                               /\ y.access_status = x.access_status
<1> USE DEF Entry
<1>1. x \in Account /\ x.nonce \in Nat
  BY AccountTypes
<1>2. ASSUME NEW v \in Int
      PROVE  LET y == [x EXCEPT !.balance = v]
             IN /\ Entry(y) /\ y.exists /\ Kept(x, y) /\ y.balance = v
                /\ y.nonce = x.nonce /\ y.storage = x.storage /\ y.code = x.code
  BY <1>1 DEF Account, Kept, Grown
<1>3. ASSUME NEW n \in 0 .. NonceMax, n >= x.nonce
      PROVE  LET y == [x EXCEPT !.nonce = n]
             IN /\ Entry(y) /\ y.exists /\ Kept(x, y) /\ y.nonce = n
                /\ y.balance = x.balance /\ y.storage = x.storage /\ y.code = x.code
  BY <1>1, <1>3 DEF Account, Kept, Grown
<1>4. ASSUME NEW v \in Nat
      PROVE  LET y == [x EXCEPT !.storage = v]
             IN /\ Entry(y) /\ y.exists /\ Kept(x, y) /\ y.storage = v
                /\ y.balance = x.balance /\ y.nonce = x.nonce /\ y.code = x.code
  BY <1>1 DEF Account, Kept, Grown
<1>5. ASSUME NEW c \in Code
      PROVE  LET y == [x EXCEPT !.code = c]
             IN /\ Entry(y) /\ y.exists /\ (x.code = EmptyCode => Grown(x, y)) /\ y.code = c
                /\ y.balance = x.balance /\ y.nonce = x.nonce /\ y.storage = x.storage
                /\ y.access_status = x.access_status
  BY <1>1 DEF Account, Grown
<1> QED
  BY <1>2, <1>3, <1>4, <1>5

------------------------------------------------------------------------------
(* What operations do to the map of accounts.                              *)

Good(accs) == accs \in [Address -> Account] /\ \A a \in Address : Entry(accs[a])

Covered(accs) == \A a \in Address : accs[a].balance >= 0

Later(old, new) == \A a \in Address : Grown(old[a], new[a])

Advanced(old, new) == \A a \in Address : Kept(old[a], new[a])

SameBalances(old, new) == \A a \in Address : new[a].balance = old[a].balance

SameWorld(old, new) == \A a \in Address : SameContents(old[a], new[a])

(* Accounts with the same contents are the same world.                     *)
LEMMA SameWorlds ==
  ASSUME NEW old, NEW new, SameWorld(old, new)
  PROVE  World(new) = World(old) /\ SameBalances(old, new)
  BY DEF SameWorld, SameContents, World, Contents, SameBalances

(* Accounts of the same world have the same contents.                      *)
LEMMA WorldsSame ==
  ASSUME NEW old, NEW new, World(new) = World(old)
  PROVE  SameWorld(old, new)
<1> SUFFICES ASSUME NEW a \in Address PROVE SameContents(old[a], new[a])
  BY DEF SameWorld
<1>1. Contents(old[a]) = World(old)[a] /\ Contents(new[a]) = World(new)[a]
  BY DEF World
<1>2. Contents(old[a]) = Contents(new[a])
  BY <1>1
<1> QED
  BY <1>2 DEF Contents, SameContents

(* Accounts that kept their codes are later ones.                          *)
LEMMA AdvancedIsLater ==
  ASSUME NEW old, NEW new, Advanced(old, new)
  PROVE  Later(old, new)
  BY DEF Advanced, Later, Kept

(* Accounts that do not change are advanced ones.                          *)
LEMMA AdvancedReflexive ==
  ASSUME NEW old, Good(old)
  PROVE  Advanced(old, old)
  BY GrownReflexive DEF Advanced, Good

(* Later than later accounts.                                              *)
LEMMA LaterTransitive ==
  ASSUME NEW a1, NEW a2, NEW a3, Good(a1), Good(a2), Good(a3), Later(a1, a2), Later(a2, a3)
  PROVE  Later(a1, a3)
  BY GrownTransitive DEF Later, Good

(* Advanced from advanced accounts.                                        *)
LEMMA AdvancedTransitive ==
  ASSUME NEW a1, NEW a2, NEW a3, Good(a1), Good(a2), Good(a3), Advanced(a1, a2), Advanced(a2, a3)
  PROVE  Advanced(a1, a3)
<1> SUFFICES ASSUME NEW a \in Address PROVE Kept(a1[a], a3[a])
  BY DEF Advanced
<1>1. Grown(a1[a], a3[a])
  BY GrownTransitive DEF Good, Advanced, Kept
<1> QED
  BY <1>1 DEF Advanced, Kept

(* Another account for one address.                                        *)
Put(accs, a, y) == [accs EXCEPT ![a] = y]

(* One account is replaced, the others stay.                               *)
LEMMA MapUpdate ==
  ASSUME NEW accs, Good(accs), NEW a \in Address, NEW y, Entry(y)
  PROVE  /\ Good(Put(accs, a, y))
         /\ Put(accs, a, y)[a] = y
         /\ \A b \in Address : b # a => Put(accs, a, y)[b] = accs[b]
  BY DEF Good, Entry, Put

(* One account is replaced by an advanced one.                             *)
LEMMA MapAdvance ==
  ASSUME NEW accs, Good(accs), NEW a \in Address, NEW y, Entry(y), Kept(accs[a], y)
  PROVE  Advanced(accs, Put(accs, a, y))
<1> DEFINE new == Put(accs, a, y)
<1>1. new[a] = y /\ \A b \in Address : b # a => new[b] = accs[b]
  BY MapUpdate
<1> HIDE DEF new
<1>2. \A b \in Address : Kept(accs[b], new[b])
  BY <1>1, GrownReflexive DEF Good
<1> QED
  BY <1>2 DEF Advanced, new

(* One account is replaced by one of the same contents.                    *)
LEMMA MapSameWorld ==
  ASSUME NEW accs, Good(accs), NEW a \in Address, NEW y, Entry(y), SameContents(accs[a], y)
  PROVE  SameWorld(accs, Put(accs, a, y))
<1> DEFINE new == Put(accs, a, y)
<1>1. new[a] = y /\ \A b \in Address : b # a => new[b] = accs[b]
  BY MapUpdate
<1> HIDE DEF new
<1> QED
  BY <1>1 DEF SameWorld, SameContents, new

(* Host::access_account and touch() change nothing of the world.           *)
Warmed(accs, a) == [accs EXCEPT ![a] = access_account(@)]

(* Warming an address changes no world and takes nothing back.             *)
LEMMA AccessMap ==
  ASSUME NEW accs, Good(accs), NEW a \in Address
  PROVE  /\ Good(Warmed(accs, a)) /\ Advanced(accs, Warmed(accs, a)) /\ SameWorld(accs, Warmed(accs, a))
         /\ Warmed(accs, a)[a].exists /\ Warmed(accs, a)[a].access_status = "WARM"
<1> DEFINE y == access_account(accs[a])
<1>1. /\ Entry(y) /\ Kept(accs[a], y) /\ SameContents(accs[a], y)
      /\ y.exists /\ y.access_status = "WARM"
  BY AccessEntry DEF Good
<1>2. Warmed(accs, a) = Put(accs, a, y)
  BY DEF Put, Warmed
<1> HIDE DEF y
<1>3. Put(accs, a, y)[a] = y
  BY <1>1, MapUpdate
<1> QED
  BY <1>1, <1>2, <1>3, MapUpdate, MapAdvance, MapSameWorld

Touched(accs, a) == [accs EXCEPT ![a] = touch(@)]

(* Touching an address changes no world and takes nothing back.            *)
LEMMA TouchMap ==
  ASSUME NEW accs, Good(accs), NEW a \in Address
  PROVE  /\ Good(Touched(accs, a)) /\ Advanced(accs, Touched(accs, a)) /\ SameWorld(accs, Touched(accs, a))
         /\ Touched(accs, a)[a].exists /\ Touched(accs, a)[a].erasable
<1> DEFINE y == touch(accs[a])
<1>1. /\ Entry(y) /\ Kept(accs[a], y) /\ SameContents(accs[a], y) /\ y.exists /\ y.erasable
  BY TouchEntry DEF Good
<1>2. Touched(accs, a) = Put(accs, a, y)
  BY DEF Put, Touched
<1> HIDE DEF y
<1>3. Put(accs, a, y)[a] = y
  BY <1>1, MapUpdate
<1> QED
  BY <1>1, <1>2, <1>3, MapUpdate, MapAdvance, MapSameWorld

(* Another balance, nonce, storage or code.                                *)
WithBalance(accs, a, v) == [accs EXCEPT ![a].balance = v]
WithNonce(accs, a, n) == [accs EXCEPT ![a].nonce = n]
WithStorage(accs, a, v) == [accs EXCEPT ![a].storage = v]
WithCode(accs, a, c) == [accs EXCEPT ![a].code = c]

(* Another balance of one account.                                         *)
LEMMA BalanceMap ==
  ASSUME NEW accs, Good(accs), NEW a \in Address, accs[a].exists, NEW v \in Int
  PROVE  /\ Good(WithBalance(accs, a, v)) /\ Advanced(accs, WithBalance(accs, a, v))
         /\ \A b \in Address :
              /\ WithBalance(accs, a, v)[b].balance = IF b = a THEN v ELSE accs[b].balance
              /\ WithBalance(accs, a, v)[b].nonce = accs[b].nonce
              /\ WithBalance(accs, a, v)[b].storage = accs[b].storage
              /\ WithBalance(accs, a, v)[b].code = accs[b].code
<1> DEFINE y == [accs[a] EXCEPT !.balance = v]
           new == WithBalance(accs, a, v)
<1>1. /\ Entry(y) /\ Kept(accs[a], y) /\ y.balance = v /\ y.nonce = accs[a].nonce
      /\ y.storage = accs[a].storage /\ y.code = accs[a].code
  BY FieldUpdates DEF Good
<1>2. new = Put(accs, a, y)
  BY DEF Put, WithBalance
<1> HIDE DEF y, new
<1>3. Good(new) /\ Advanced(accs, new) /\ new[a] = y /\ \A b \in Address : b # a => new[b] = accs[b]
  BY <1>1, <1>2, MapUpdate, MapAdvance
<1>4. \A b \in Address : /\ new[b].balance = IF b = a THEN v ELSE accs[b].balance
                         /\ new[b].nonce = accs[b].nonce /\ new[b].storage = accs[b].storage
                         /\ new[b].code = accs[b].code
  BY <1>1, <1>3
<1> QED
  BY <1>3, <1>4 DEF new

(* A nonce of one account that is not smaller.                             *)
LEMMA NonceMap ==
  ASSUME NEW accs, Good(accs), NEW a \in Address, accs[a].exists, NEW n \in 0 .. NonceMax,
         n >= accs[a].nonce
  PROVE  /\ Good(WithNonce(accs, a, n)) /\ Advanced(accs, WithNonce(accs, a, n))
         /\ \A b \in Address :
              /\ WithNonce(accs, a, n)[b].nonce = IF b = a THEN n ELSE accs[b].nonce
              /\ WithNonce(accs, a, n)[b].balance = accs[b].balance
              /\ WithNonce(accs, a, n)[b].storage = accs[b].storage
              /\ WithNonce(accs, a, n)[b].code = accs[b].code
<1> DEFINE y == [accs[a] EXCEPT !.nonce = n]
           new == WithNonce(accs, a, n)
<1>1. /\ Entry(y) /\ Kept(accs[a], y) /\ y.nonce = n /\ y.balance = accs[a].balance
      /\ y.storage = accs[a].storage /\ y.code = accs[a].code
  BY FieldUpdates DEF Good
<1>2. new = Put(accs, a, y)
  BY DEF Put, WithNonce
<1> HIDE DEF y, new
<1>3. Good(new) /\ Advanced(accs, new) /\ new[a] = y /\ \A b \in Address : b # a => new[b] = accs[b]
  BY <1>1, <1>2, MapUpdate, MapAdvance
<1>4. \A b \in Address : /\ new[b].nonce = IF b = a THEN n ELSE accs[b].nonce
                         /\ new[b].balance = accs[b].balance /\ new[b].storage = accs[b].storage
                         /\ new[b].code = accs[b].code
  BY <1>1, <1>3
<1> QED
  BY <1>3, <1>4 DEF new

(* Another storage of one account.                                         *)
LEMMA StorageMap ==
  ASSUME NEW accs, Good(accs), NEW a \in Address, accs[a].exists, NEW v \in Nat
  PROVE  /\ Good(WithStorage(accs, a, v)) /\ Advanced(accs, WithStorage(accs, a, v))
         /\ \A b \in Address :
              /\ WithStorage(accs, a, v)[b].nonce = accs[b].nonce
              /\ WithStorage(accs, a, v)[b].balance = accs[b].balance
              /\ WithStorage(accs, a, v)[b].code = accs[b].code
<1> DEFINE y == [accs[a] EXCEPT !.storage = v]
           new == WithStorage(accs, a, v)
<1>1. /\ Entry(y) /\ Kept(accs[a], y) /\ y.nonce = accs[a].nonce /\ y.balance = accs[a].balance
      /\ y.code = accs[a].code
  BY FieldUpdates DEF Good
<1>2. new = Put(accs, a, y)
  BY DEF Put, WithStorage
<1> HIDE DEF y, new
<1>3. Good(new) /\ Advanced(accs, new) /\ new[a] = y /\ \A b \in Address : b # a => new[b] = accs[b]
  BY <1>1, <1>2, MapUpdate, MapAdvance
<1>4. \A b \in Address : /\ new[b].nonce = accs[b].nonce /\ new[b].balance = accs[b].balance
                         /\ new[b].code = accs[b].code
  BY <1>1, <1>3
<1> QED
  BY <1>3, <1>4 DEF new

(* Code stored where there was none.                                       *)
LEMMA CodeMap ==
  ASSUME NEW accs, Good(accs), NEW a \in Address, accs[a].exists, accs[a].code = EmptyCode, NEW c \in Code
  PROVE  /\ Good(WithCode(accs, a, c)) /\ Later(accs, WithCode(accs, a, c))
         /\ \A b \in Address :
              /\ WithCode(accs, a, c)[b].nonce = accs[b].nonce
              /\ WithCode(accs, a, c)[b].balance = accs[b].balance
              /\ WithCode(accs, a, c)[b].code = IF b = a THEN c ELSE accs[b].code
<1> DEFINE y == [accs[a] EXCEPT !.code = c]
           new == WithCode(accs, a, c)
<1>1. /\ Entry(y) /\ Grown(accs[a], y) /\ y.nonce = accs[a].nonce /\ y.balance = accs[a].balance
      /\ y.code = c
  BY FieldUpdates DEF Good
<1>2. new = Put(accs, a, y)
  BY DEF Put, WithCode
<1> HIDE DEF y, new
<1>3. Good(new) /\ new[a] = y /\ \A b \in Address : b # a => new[b] = accs[b]
  BY <1>1, <1>2, MapUpdate
<1>4. \A b \in Address : /\ new[b].nonce = accs[b].nonce /\ new[b].balance = accs[b].balance
                         /\ new[b].code = IF b = a THEN c ELSE accs[b].code
  BY <1>1, <1>3
<1>5. \A b \in Address : Grown(accs[b], new[b])
  BY <1>1, <1>3, GrownReflexive DEF Good, Kept
<1> QED
  BY <1>3, <1>4, <1>5 DEF new, Later

(* The account of a new contract.                                          *)
Created(accs, a) == [accs EXCEPT ![a] = new_account(@)]

(* create() on a free address: nonce 1, no code, balances stay.            *)
LEMMA CreatedMap ==
  ASSUME NEW accs, Good(accs), NEW a \in Address, ~collision(accs[a])
  PROVE  /\ Good(Created(accs, a)) /\ Advanced(accs, Created(accs, a))
         /\ Created(accs, a)[a].exists /\ Created(accs, a)[a].nonce = 1 /\ Created(accs, a)[a].code = EmptyCode
         /\ \A b \in Address : /\ Created(accs, a)[b].balance = accs[b].balance
                               /\ b # a => Created(accs, a)[b] = accs[b]
<1> DEFINE y == new_account(accs[a])
           new == Created(accs, a)
<1>1. /\ Entry(y) /\ Kept(accs[a], y) /\ y.exists /\ y.nonce = 1 /\ y.balance = accs[a].balance
      /\ y.code = EmptyCode
  BY NewEntry DEF Good
<1>2. new = Put(accs, a, y)
  BY DEF Put, Created
<1> HIDE DEF y, new
<1>3. Good(new) /\ Advanced(accs, new) /\ new[a] = y /\ \A b \in Address : b # a => new[b] = accs[b]
  BY <1>1, <1>2, MapUpdate, MapAdvance
<1>4. \A b \in Address : new[b].balance = accs[b].balance
  BY <1>1, <1>3
<1> QED
  BY <1>1, <1>3, <1>4 DEF new

(* A transfer moves v, even if both accounts are one.                      *)
Moved(old, new, from, to, v) ==
  \A a \in Address :
    new[a].balance = old[a].balance - (IF a = from THEN v ELSE 0) + (IF a = to THEN v ELSE 0)

(* transfer() moves the value and nothing else.                            *)
LEMMA TransferMap ==
  ASSUME NEW accs, Good(accs), NEW from \in Address, NEW to \in Address, NEW v \in Nat,
         accs[from].exists, accs[to].exists
  PROVE  /\ Good(transfer(accs, from, to, v)) /\ Advanced(accs, transfer(accs, from, to, v))
         /\ Moved(accs, transfer(accs, from, to, v), from, to, v)
         /\ \A a \in Address : /\ transfer(accs, from, to, v)[a].nonce = accs[a].nonce
                               /\ transfer(accs, from, to, v)[a].storage = accs[a].storage
                               /\ transfer(accs, from, to, v)[a].code = accs[a].code
<1> DEFINE x == accs[from].balance - v
           paid == WithBalance(accs, from, x)
           z == paid[to].balance + v
           new == WithBalance(paid, to, z)
<1>1. \A a \in Address : accs[a].balance \in Int
  BY AccountTypes DEF Good
<1>2. x \in Int
  BY <1>1
<1>3. transfer(accs, from, to, v) = new
  BY DEF transfer, WithBalance
<1> HIDE DEF x
<1>4. /\ Good(paid) /\ Advanced(accs, paid)
      /\ \A b \in Address : /\ paid[b].balance = IF b = from THEN x ELSE accs[b].balance
                            /\ paid[b].nonce = accs[b].nonce /\ paid[b].storage = accs[b].storage
                            /\ paid[b].code = accs[b].code
  BY <1>2, BalanceMap
<1> HIDE DEF paid
<1>5. paid[to].exists
  BY <1>4 DEF Advanced, Kept, Grown
<1>6. z \in Int
  BY <1>1, <1>2, <1>4
<1> HIDE DEF z
<1>7. /\ Good(new) /\ Advanced(paid, new)
      /\ \A b \in Address : /\ new[b].balance = IF b = to THEN z ELSE paid[b].balance
                            /\ new[b].nonce = paid[b].nonce /\ new[b].storage = paid[b].storage
                            /\ new[b].code = paid[b].code
  BY <1>4, <1>5, <1>6, BalanceMap
<1> HIDE DEF new
<1>8. Advanced(accs, new)
  BY <1>4, <1>7, AdvancedTransitive
<1>9. Moved(accs, new, from, to, v)
  <2> SUFFICES ASSUME NEW a \in Address
               PROVE  new[a].balance = accs[a].balance - (IF a = from THEN v ELSE 0) + (IF a = to THEN v ELSE 0)
    BY DEF Moved
  <2>1. /\ new[a].balance = IF a = to THEN paid[to].balance + v ELSE paid[a].balance
        /\ paid[a].balance = IF a = from THEN accs[from].balance - v ELSE accs[a].balance
        /\ accs[a].balance \in Int
    BY <1>1, <1>4, <1>7 DEF x, z
  <2> QED
    BY <2>1
<1> QED
  BY <1>3, <1>4, <1>7, <1>8, <1>9

(* A transfer that the sender's balance covers overdraws nobody.           *)
LEMMA MovedCovered ==
  ASSUME NEW old, NEW new, Good(old), NEW from \in Address, NEW to \in Address, NEW v \in Nat,
         Moved(old, new, from, to, v), Covered(old), old[from].balance >= v
  PROVE  Covered(new)
<1> SUFFICES ASSUME NEW a \in Address PROVE new[a].balance >= 0
  BY DEF Covered
<1>1. old[a].balance \in Int /\ old[a].balance >= 0 /\ (a = from => old[a].balance >= v)
  BY AccountTypes DEF Good, Covered
<1> QED
  BY <1>1 DEF Moved

------------------------------------------------------------------------------
(* Host::call on a map of accounts.                                        *)

(* What the callers of Host::call guarantee of a message to an address: a  *)
(* DELEGATECALL stays on its account, the value of others is covered.      *)
MessageOK(accs, msg, to) ==
  /\ msg.kind \in {"CALL", "DELEGATECALL"} \cup Creates
  /\ msg.sender \in Address /\ to \in Address /\ msg.value \in Nat
  /\ accs[msg.sender].exists
  /\ msg.kind = "DELEGATECALL" => accs[to].exists
  /\ msg.kind # "DELEGATECALL" => accs[msg.sender].balance >= msg.value

(* Calls are no creations.                                                 *)
LEMMA KindsDiffer ==
  "CALL" \notin Creates /\ "DELEGATECALL" \notin Creates
  BY DEF Creates

(* prepare_message(): only a nonce and the warmth of the new address       *)
(* change.                                                                 *)
LEMMA PreparedMap ==
  ASSUME NEW accs, Good(accs), NEW msg, NEW to, MessageOK(accs, msg, to), ~nonce_exhausted(accs, msg)
  PROVE  /\ Good(prepared(accs, msg, to)) /\ Advanced(accs, prepared(accs, msg, to))
         /\ SameBalances(accs, prepared(accs, msg, to))
         /\ depth # 0 /\ msg.kind \notin Creates => prepared(accs, msg, to) = accs
         /\ msg.kind \in Creates => prepared(accs, msg, to)[to].access_status = "WARM"
         /\ \A a \in Address :
              /\ prepared(accs, msg, to)[a].nonce =
                   accs[a].nonce + (IF bumps_nonce(msg) /\ a = msg.sender THEN 1 ELSE 0)
              /\ prepared(accs, msg, to)[a].storage = accs[a].storage
              /\ prepared(accs, msg, to)[a].code = accs[a].code
<1> DEFINE n == accs[msg.sender].nonce + 1
           bumped == IF bumps_nonce(msg) THEN WithNonce(accs, msg.sender, n) ELSE accs
           new == prepared(accs, msg, to)
<1>1. /\ msg.sender \in Address /\ to \in Address /\ accs[msg.sender].exists
      /\ accs \in [Address -> Account] /\ \A a \in Address : accs[a] \in Account
  BY DEF MessageOK, Good
<1>2. \A a \in Address : accs[a].nonce \in Nat /\ accs[a].nonce <= NonceMax
  BY <1>1, AccountTypes
<1>3. new = IF msg.kind \in Creates THEN Warmed(bumped, to) ELSE bumped
  BY DEF prepared, Warmed, WithNonce
<1>4. bumps_nonce(msg) => n \in 0 .. NonceMax /\ n >= accs[msg.sender].nonce
  BY <1>1, <1>2, NonceMaxAssumption DEF nonce_exhausted
<1> HIDE DEF new
<1>5. /\ Good(bumped) /\ Advanced(accs, bumped)
      /\ \A a \in Address :
           /\ bumped[a].nonce = accs[a].nonce + (IF bumps_nonce(msg) /\ a = msg.sender THEN 1 ELSE 0)
           /\ bumped[a].balance = accs[a].balance
           /\ bumped[a].storage = accs[a].storage
           /\ bumped[a].code = accs[a].code
  <2>1. CASE bumps_nonce(msg)
    <3>1. n \in 0 .. NonceMax /\ n >= accs[msg.sender].nonce /\ n = accs[msg.sender].nonce + 1
      BY <1>4, <2>1
    <3> HIDE DEF n
    <3> DEFINE b == WithNonce(accs, msg.sender, n)
    <3>2. bumped = b
      BY <2>1
    <3>3. /\ Good(b) /\ Advanced(accs, b)
          /\ \A a \in Address :
               /\ b[a].nonce = IF a = msg.sender THEN n ELSE accs[a].nonce
               /\ b[a].balance = accs[a].balance
               /\ b[a].storage = accs[a].storage
               /\ b[a].code = accs[a].code
      BY <1>1, <3>1, NonceMap
    <3> HIDE DEF b, bumped
    <3> QED
      BY <1>2, <2>1, <3>1, <3>2, <3>3
  <2>2. CASE ~bumps_nonce(msg)
    BY <1>2, <2>2, AdvancedReflexive
  <2> QED
    BY <2>1, <2>2
<1>6. depth # 0 /\ msg.kind \notin Creates => bumped = accs
  BY DEF bumps_nonce
<1> HIDE DEF bumped
<1>7. CASE msg.kind \in Creates
  <2>0. new = Warmed(bumped, to)
    BY <1>3, <1>7
  <2>1. /\ Good(new) /\ Advanced(bumped, new) /\ SameWorld(bumped, new) /\ new[to].access_status = "WARM"
    BY <1>1, <1>5, <2>0, AccessMap
  <2>2. Advanced(accs, new)
    BY <1>5, <2>1, AdvancedTransitive
  <2>3. \A a \in Address : /\ new[a].nonce = bumped[a].nonce /\ new[a].balance = bumped[a].balance
                           /\ new[a].storage = bumped[a].storage /\ new[a].code = bumped[a].code
    BY <2>1 DEF SameWorld, SameContents
  <2> QED
    BY <1>5, <1>7, <2>1, <2>2, <2>3 DEF SameBalances, new
<1>8. CASE msg.kind \notin Creates
  BY <1>3, <1>5, <1>6, <1>8 DEF SameBalances, new
<1> QED
  BY <1>7, <1>8

(* What execute_message() and create() begin with, by the kind of message. *)
LEMMA EnteredCases ==
  ASSUME NEW accs, NEW msg, NEW to, msg.kind \in {"CALL", "DELEGATECALL"} \cup Creates
  PROVE  /\ msg.kind \in Creates /\ collision(accs[to]) => entered(accs, msg, to) = accs
         /\ msg.kind \in Creates /\ ~collision(accs[to]) =>
              entered(accs, msg, to) = transfer(Created(accs, to), msg.sender, to, msg.value)
         /\ msg.kind = "CALL" =>
              entered(accs, msg, to) = transfer(Touched(accs, to), msg.sender, to, msg.value)
         /\ msg.kind = "DELEGATECALL" => entered(accs, msg, to) = accs
<1> DEFINE k == msg.kind
           c == collision(accs[to])
           x == transfer(Created(accs, to), msg.sender, to, msg.value)
           y == transfer(Touched(accs, to), msg.sender, to, msg.value)
<1>1. entered(accs, msg, to) =
        CASE k \in Creates /\ c -> accs
          [] k \in Creates /\ ~c -> x
          [] k = "CALL" -> y
          [] OTHER -> accs
  BY DEF entered, Created, Touched
<1>2. k \in {"CALL", "DELEGATECALL"} \cup Creates
  OBVIOUS
<1> HIDE DEF k, c, x, y
<1>3. k \in Creates /\ c => entered(accs, msg, to) = accs
  BY <1>1, KindsDiffer
<1>4. k \in Creates /\ ~c => entered(accs, msg, to) = x
  BY <1>1, KindsDiffer
<1>5. k = "CALL" => entered(accs, msg, to) = y
  BY <1>1, KindsDiffer
<1>6. k = "DELEGATECALL" => entered(accs, msg, to) = accs
  BY <1>1, KindsDiffer
<1> QED
  BY <1>3, <1>4, <1>5, <1>6 DEF k, c, x, y

(* What a message runs, by its kind.                                       *)
LEMMA RunsCases ==
  ASSUME NEW accs, NEW msg, NEW to, msg.kind \in {"CALL", "DELEGATECALL"} \cup Creates
  PROVE  /\ msg.kind \in Creates => runs(accs, msg, to) = IF collision(accs[to]) THEN "failed" ELSE "code"
         /\ msg.kind \notin Creates /\ msg.code_address \in Precompiles => runs(accs, msg, to) = "precompile"
         /\ msg.kind \notin Creates /\ msg.code_address \notin Precompiles =>
              runs(accs, msg, to) = IF accs[msg.code_address].code = EmptyCode THEN "nothing" ELSE "code"
<1> DEFINE k == msg.kind
           p == msg.code_address \in Precompiles
           x == IF collision(accs[to]) THEN "failed" ELSE "code"
           y == IF accs[msg.code_address].code = EmptyCode THEN "nothing" ELSE "code"
<1>1. runs(accs, msg, to) =
        CASE k \in Creates -> x
          [] k \notin Creates /\ p -> "precompile"
          [] OTHER -> y
  BY DEF runs
<1> HIDE DEF k, p, x, y
<1>2. k \in Creates => runs(accs, msg, to) = x
  BY <1>1
<1>3. k \notin Creates /\ p => runs(accs, msg, to) = "precompile"
  BY <1>1
<1>4. k \notin Creates /\ ~p => runs(accs, msg, to) = y
  BY <1>1
<1> QED
  BY <1>2, <1>3, <1>4 DEF k, p, x, y

(* The beginning of a message takes nothing back, moves its value at most, *)
(* and makes the address of a creation taken.                              *)
LEMMA EnteredMap ==
  ASSUME NEW accs, Good(accs), NEW msg, NEW to, MessageOK(accs, msg, to)
  PROVE  /\ Good(entered(accs, msg, to)) /\ Advanced(accs, entered(accs, msg, to))
         /\ \/ SameBalances(accs, entered(accs, msg, to))
            \/ msg.kind # "DELEGATECALL" /\ Moved(accs, entered(accs, msg, to), msg.sender, to, msg.value)
         /\ Covered(accs) => Covered(entered(accs, msg, to))
         /\ runs(accs, msg, to) # "failed" => entered(accs, msg, to)[to].exists
         /\ msg.kind \in Creates /\ runs(accs, msg, to) # "failed" =>
              /\ ~collision(accs[to])
              /\ entered(accs, msg, to)[to].nonce # 0
              /\ entered(accs, msg, to)[to].code = EmptyCode
         /\ msg.kind \notin Creates /\ (msg.kind = "CALL" => msg.value = 0) =>
              SameWorld(accs, entered(accs, msg, to))
         /\ \A a \in Address : accs[a].nonce # 0 => entered(accs, msg, to)[a].nonce = accs[a].nonce
<1> DEFINE e == entered(accs, msg, to)
           v == msg.value
<1>1. /\ msg.kind \in {"CALL", "DELEGATECALL"} \cup Creates
      /\ msg.sender \in Address /\ to \in Address /\ v \in Nat /\ accs[msg.sender].exists
      /\ msg.kind = "DELEGATECALL" => accs[to].exists
      /\ msg.kind # "DELEGATECALL" => accs[msg.sender].balance >= v
      /\ \A a \in Address : accs[a].balance \in Int
  BY AccountTypes DEF MessageOK, Good
<1>2. CASE e = accs
  <2>1. SameWorld(accs, e) /\ SameBalances(accs, e) /\ Advanced(accs, e)
    BY <1>2, AdvancedReflexive DEF SameWorld, SameContents, SameBalances
  <2>2. msg.kind \in Creates => collision(accs[to]) \/ e = transfer(Created(accs, to), msg.sender, to, v)
    BY <1>1, EnteredCases
  <2>3. ASSUME msg.kind \in Creates, collision(accs[to]) PROVE runs(accs, msg, to) = "failed"
    BY <1>1, <2>3, RunsCases
  <2>4. ASSUME msg.kind \in Creates, ~collision(accs[to]) PROVE FALSE
    <3>1. Good(Created(accs, to)) /\ Advanced(accs, Created(accs, to)) /\ Created(accs, to)[to].nonce = 1
          /\ Created(accs, to)[to].exists
      BY <1>1, <2>4, CreatedMap
    <3>2. Created(accs, to)[msg.sender].exists
      BY <1>1, <3>1 DEF Advanced, Kept, Grown
    <3>3. transfer(Created(accs, to), msg.sender, to, v)[to].nonce = 1
      BY <1>1, <3>1, <3>2, TransferMap
    <3>4. accs[to].nonce = 1 /\ Entry(accs[to])
      BY <1>1, <1>2, <2>2, <2>4, <3>3 DEF Good
    <3> QED
      BY <2>4, <3>4 DEF collision, Entry, NoAccount
  <2>5. ASSUME msg.kind = "CALL" PROVE e[to].exists
    <3>1. e = transfer(Touched(accs, to), msg.sender, to, v)
      BY <1>1, <2>5, EnteredCases
    <3>2. /\ Good(Touched(accs, to)) /\ Advanced(accs, Touched(accs, to)) /\ Touched(accs, to)[to].exists
      BY <1>1, TouchMap
    <3>3. Touched(accs, to)[msg.sender].exists
      BY <1>1, <3>2 DEF Advanced, Kept, Grown
    <3>4. Advanced(Touched(accs, to), e)
      BY <1>1, <3>1, <3>2, <3>3, TransferMap
    <3> QED
      BY <1>1, <3>2, <3>4 DEF Advanced, Kept, Grown
  <2> QED
    BY <1>1, <1>2, <2>1, <2>3, <2>4, <2>5 DEF Good
<1>3. CASE e # accs
  <2> DEFINE b == IF msg.kind = "CALL" THEN Touched(accs, to) ELSE Created(accs, to)
  <2>1. \/ msg.kind = "CALL"
        \/ msg.kind \in Creates /\ ~collision(accs[to])
    BY <1>1, <1>3, EnteredCases
  <2>2. e = transfer(b, msg.sender, to, v)
    BY <1>1, <2>1, EnteredCases, KindsDiffer
  <2>3. /\ Good(b) /\ Advanced(accs, b) /\ b[to].exists /\ SameBalances(accs, b)
        /\ msg.kind = "CALL" => SameWorld(accs, b)
        /\ msg.kind \in Creates => b[to].nonce = 1 /\ b[to].code = EmptyCode
        /\ \A a \in Address : accs[a].nonce # 0 => b[a].nonce = accs[a].nonce
    <3>1. CASE msg.kind = "CALL"
      <4>1. Good(b) /\ Advanced(accs, b) /\ b[to].exists /\ SameWorld(accs, b)
        BY <1>1, <3>1, TouchMap
      <4> HIDE DEF b
      <4>2. SameBalances(accs, b) /\ \A a \in Address : b[a].nonce = accs[a].nonce
        BY <4>1 DEF SameWorld, SameContents, SameBalances
      <4> QED
        BY <3>1, <4>1, <4>2, KindsDiffer
    <3>2. CASE msg.kind \in Creates /\ ~collision(accs[to])
      <4>1. /\ Good(b) /\ Advanced(accs, b) /\ b[to].exists /\ b[to].nonce = 1 /\ b[to].code = EmptyCode
            /\ \A a \in Address : b[a].balance = accs[a].balance /\ (a # to => b[a] = accs[a])
        BY <1>1, <3>2, CreatedMap, KindsDiffer
      <4>2. accs[to].nonce = 0
        <5>1. Entry(accs[to])
          BY <1>1 DEF Good
        <5> QED
          BY <3>2, <5>1 DEF collision, Entry, NoAccount
      <4> HIDE DEF b
      <4> QED
        BY <3>2, <4>1, <4>2, KindsDiffer DEF SameBalances
    <3> QED
      BY <2>1, <3>1, <3>2
  <2> HIDE DEF b
  <2>4. b[msg.sender].exists
    BY <1>1, <2>3 DEF Advanced, Kept, Grown
  <2>5. /\ Good(e) /\ Advanced(b, e) /\ Moved(b, e, msg.sender, to, v)
        /\ \A a \in Address : e[a].nonce = b[a].nonce /\ e[a].storage = b[a].storage /\ e[a].code = b[a].code
    BY <1>1, <2>2, <2>3, <2>4, TransferMap
  <2> HIDE DEF e
  <2>6. Advanced(accs, e) /\ e[to].exists
    <3>1. Advanced(accs, e)
      BY <2>3, <2>5, AdvancedTransitive
    <3>2. e[to].exists
      BY <1>1, <2>3, <2>5 DEF Advanced, Kept, Grown
    <3> QED
      BY <3>1, <3>2
  <2>7. Moved(accs, e, msg.sender, to, v)
    BY <2>3, <2>5 DEF Moved, SameBalances
  <2>8. msg.kind # "DELEGATECALL"
    BY <2>1, KindsDiffer
  <2>9. Covered(accs) => Covered(e)
    BY <1>1, <2>7, <2>8, MovedCovered
  <2>10. ASSUME msg.kind = "CALL", v = 0 PROVE SameWorld(accs, e)
    <3> SUFFICES ASSUME NEW a \in Address PROVE SameContents(accs[a], e[a])
      BY DEF SameWorld
    <3>1. e[a].balance = accs[a].balance
      BY <1>1, <2>7, <2>10 DEF Moved
    <3>2. SameContents(accs[a], b[a])
      BY <2>3, <2>10 DEF SameWorld
    <3> QED
      BY <2>5, <3>1, <3>2 DEF SameContents
  <2>11. \A a \in Address : accs[a].nonce # 0 => e[a].nonce = accs[a].nonce
    BY <2>3, <2>5
  <2>12. msg.kind \in Creates => e[to].nonce # 0 /\ e[to].code = EmptyCode /\ ~collision(accs[to])
    BY <1>1, <2>1, <2>3, <2>5, KindsDiffer
  <2> QED
    BY <1>1, <2>5, <2>6, <2>7, <2>8, <2>9, <2>10, <2>11, <2>12 DEF e
<1> QED
  BY <1>2, <1>3

------------------------------------------------------------------------------
(* The stack of messages.                                                  *)

Senders(accs) == \A t \in Transactions : accs[t.sender].exists

FrameOK(f) ==
  /\ f \in Frame
  /\ Good(f.snapshot) /\ Covered(f.snapshot) /\ Senders(f.snapshot)
  /\ f.kind \in Creates =>
       /\ f.runs \in {"code", "failed"}
       /\ ~f.static_mode
       /\ f.snapshot[f.recipient].access_status = "WARM"
       /\ f.runs # "failed" => ~collision(f.snapshot[f.recipient])

(* accs and len, accounts and number of logs, are of a moment at which the *)
(* message f was open: now, or when a message under it was opened.         *)
Under(f, accs, len) ==
  /\ Later(f.snapshot, accs)
  /\ accs[f.sender].exists
  /\ f.runs # "failed" => accs[f.recipient].exists
  /\ f.kind \in Creates /\ f.runs # "failed" =>
       accs[f.recipient].nonce # 0 /\ accs[f.recipient].code = EmptyCode
  /\ f.static_mode => SameWorld(f.snapshot, accs) /\ f.logs_snapshot = len
  /\ f.logs_snapshot <= len

(* The open messages fs, when accounts and number of logs are accs and len.*)
StackOK(fs, accs, len) ==
  /\ fs \in Seq(Frame)
  /\ Good(accs) /\ Covered(accs) /\ Senders(accs)
  /\ \A k \in 1 .. Len(fs) : FrameOK(fs[k]) /\ Under(fs[k], accs, len)
  /\ \A j, k \in 1 .. Len(fs) : j < k =>
       /\ fs[j].runs = "code"
       /\ fs[j].static_mode => fs[k].static_mode
       /\ Under(fs[j], fs[k].snapshot, fs[k].logs_snapshot)

(* The types of the fields of a message.                                   *)
LEMMA FrameTypes ==
  ASSUME NEW f \in Frame
  PROVE  /\ f.kind \in {"CALL", "DELEGATECALL"} \cup Creates /\ f.sender \in Address /\ f.recipient \in Address
         /\ f.value \in Nat /\ f.static_mode \in BOOLEAN /\ f.gas \in Nat
         /\ f.runs \in {"code", "nothing", "precompile", "failed"}
         /\ f.snapshot \in [Address -> Account] /\ f.logs_snapshot \in Nat /\ f.id \in Nat
  BY DEF Frame

(* The innermost message.                                                  *)
LEMMA TopOfStack ==
  ASSUME NEW fs \in Seq(Frame), fs # <<>>
  PROVE  Len(fs) \in Nat \ {0} /\ Len(fs) \in 1 .. Len(fs) /\ fs[Len(fs)] \in Frame
  OBVIOUS

(* The messages without the innermost one.                                 *)
LEMMA FrontOfStack ==
  ASSUME NEW fs \in Seq(Frame), fs # <<>>
  PROVE  /\ SubSeq(fs, 1, Len(fs) - 1) \in Seq(Frame)
         /\ Len(SubSeq(fs, 1, Len(fs) - 1)) = Len(fs) - 1
         /\ \A k \in 1 .. Len(fs) - 1 : SubSeq(fs, 1, Len(fs) - 1)[k] = fs[k]
<1>1. Len(fs) \in Nat \ {0} /\ Len(fs) - 1 \in Nat /\ Len(fs) - 1 <= Len(fs)
  OBVIOUS
<1> DEFINE f == SubSeq(fs, 1, Len(fs) - 1)
<1>2. f = [k \in 1 .. Len(fs) - 1 |-> fs[k]]
  BY <1>1
<1>3. f \in [1 .. Len(fs) - 1 -> Frame]
  <2>1. \A k \in 1 .. Len(fs) - 1 : fs[k] \in Frame
    BY <1>1
  <2> HIDE DEF f
  <2> QED
    BY <1>2, <2>1
<1>4. \A k \in 1 .. Len(fs) - 1 : f[k] = fs[k]
  BY <1>2
<1> HIDE DEF f
<1>5. f \in Seq(Frame) /\ Len(f) = Len(fs) - 1
  BY <1>1, <1>3
<1> QED
  BY <1>4, <1>5 DEF f

(* The senders' accounts stay.                                             *)
LEMMA SendersKept ==
  ASSUME NEW accs, NEW new, Senders(accs), Later(accs, new)
  PROVE  Senders(new)
<1> SUFFICES ASSUME NEW t \in Transactions PROVE new[t.sender].exists
  BY DEF Senders
<1>1. t.sender \in Address
  BY TransactionsAssumption DEF Transaction
<1> QED
  BY <1>1 DEF Senders, Later, Grown

(* A message stays open while accounts advance.                            *)
LEMMA UnderAdvance ==
  ASSUME NEW f, FrameOK(f), NEW accs, NEW new, NEW len \in Nat, NEW len2 \in Nat, Under(f, accs, len),
         Good(accs), Good(new), Advanced(accs, new), len <= len2,
         f.static_mode => SameWorld(accs, new) /\ len2 = len
  PROVE  Under(f, new, len2)
<1>1. /\ f \in Frame /\ f.sender \in Address /\ f.recipient \in Address /\ f.logs_snapshot \in Nat
      /\ Good(f.snapshot)
  BY FrameTypes DEF FrameOK
<1>2. Later(f.snapshot, new)
  BY <1>1, AdvancedIsLater, LaterTransitive DEF Under
<1>3. new[f.sender].exists /\ (f.runs # "failed" => new[f.recipient].exists)
  BY <1>1 DEF Under, Advanced, Kept, Grown
<1>4. ASSUME f.kind \in Creates, f.runs # "failed"
      PROVE  new[f.recipient].nonce # 0 /\ new[f.recipient].code = EmptyCode
  <2>1. accs[f.recipient].nonce \in Nat /\ new[f.recipient].nonce \in Nat
    BY <1>1, AccountTypes DEF Good
  <2>2. Kept(accs[f.recipient], new[f.recipient])
    BY <1>1 DEF Advanced
  <2> QED
    BY <1>4, <2>1, <2>2 DEF Under, Kept, Grown
<1>5. f.static_mode => SameWorld(f.snapshot, new) /\ f.logs_snapshot = len2
  BY DEF Under, SameWorld, SameContents
<1>6. f.logs_snapshot <= len2
  BY <1>1 DEF Under
<1> QED
  BY <1>2, <1>3, <1>4, <1>5, <1>6 DEF Under

(* The running message changes accounts, or logs.                          *)
LEMMA StackGrow ==
  ASSUME NEW fs, NEW accs, NEW new, NEW len \in Nat, NEW len2 \in Nat, StackOK(fs, accs, len),
         Good(new), Covered(new), Advanced(accs, new), len <= len2,
         fs # <<>> /\ fs[Len(fs)].static_mode => SameWorld(accs, new) /\ len2 = len
  PROVE  StackOK(fs, new, len2)
<1>1. fs \in Seq(Frame) /\ Good(accs) /\ Senders(accs)
  BY DEF StackOK
<1>2. Senders(new)
  BY <1>1, AdvancedIsLater, SendersKept
<1>3. ASSUME NEW k \in 1 .. Len(fs)
      PROVE  FrameOK(fs[k]) /\ Under(fs[k], new, len2)
  <2>1. FrameOK(fs[k]) /\ Under(fs[k], accs, len)
    BY DEF StackOK
  <2>2. fs # <<>> /\ Len(fs) \in 1 .. Len(fs) /\ (k = Len(fs) \/ k < Len(fs))
    BY <1>1
  <2>3. fs[k].static_mode => fs[Len(fs)].static_mode
    BY <2>2 DEF StackOK
  <2> QED
    BY <1>1, <2>1, <2>2, <2>3, UnderAdvance
<1> QED
  BY <1>1, <1>2, <1>3 DEF StackOK

(* The running message ends with an exception.                             *)
Failed(f) == [f EXCEPT !.runs = "failed"]

(* A message that failed is otherwise the same.                            *)
LEMMA FailedFrame ==
  ASSUME NEW f \in Frame
  PROVE  /\ Failed(f) \in Frame /\ Failed(f).kind = f.kind /\ Failed(f).sender = f.sender
         /\ Failed(f).recipient = f.recipient /\ Failed(f).value = f.value
         /\ Failed(f).static_mode = f.static_mode /\ Failed(f).gas = f.gas /\ Failed(f).runs = "failed"
         /\ Failed(f).snapshot = f.snapshot /\ Failed(f).logs_snapshot = f.logs_snapshot /\ Failed(f).id = f.id
  BY DEF Frame, Failed

FailTop(fs) == [fs EXCEPT ![Len(fs)] = Failed(fs[Len(fs)])]

(* Only the innermost message fails.                                       *)
LEMMA FailTopFrames ==
  ASSUME NEW fs \in Seq(Frame), fs # <<>>
  PROVE  /\ FailTop(fs) \in Seq(Frame) /\ Len(FailTop(fs)) = Len(fs)
         /\ \A k \in 1 .. Len(fs) : FailTop(fs)[k] = IF k = Len(fs) THEN Failed(fs[k]) ELSE fs[k]
<1>1. Len(fs) \in 1 .. Len(fs) /\ Failed(fs[Len(fs)]) \in Frame
  BY TopOfStack, FailedFrame
<1> QED
  BY <1>1 DEF FailTop

(* The failure of the innermost message leaves the stack consistent.       *)
LEMMA StackFail ==
  ASSUME NEW fs, NEW accs, NEW len, StackOK(fs, accs, len), fs # <<>>
  PROVE  StackOK(FailTop(fs), accs, len)
<1> DEFINE n == Len(fs)
           gs == FailTop(fs)
<1>1. fs \in Seq(Frame)
  BY DEF StackOK
<1>2. n \in Nat \ {0} /\ n \in 1 .. n /\ fs[n] \in Frame
  BY <1>1, TopOfStack
<1>3. /\ gs \in Seq(Frame) /\ Len(gs) = n
      /\ \A k \in 1 .. n : gs[k] = IF k = n THEN Failed(fs[n]) ELSE fs[k]
  BY <1>1, FailTopFrames
<1> HIDE DEF gs
<1>4. ASSUME NEW k \in 1 .. n
      PROVE  FrameOK(gs[k]) /\ Under(gs[k], accs, len)
  <2>1. FrameOK(fs[k]) /\ Under(fs[k], accs, len)
    BY DEF StackOK
  <2>2. CASE k = n
    <3>1. gs[k] = Failed(fs[k])
      BY <1>3, <2>2
    <3> QED
      BY <1>2, <2>1, <2>2, <3>1, FailedFrame DEF FrameOK, Under
  <2> QED
    BY <1>3, <2>1, <2>2
<1>5. ASSUME NEW j \in 1 .. n, NEW k \in 1 .. n, j < k
      PROVE  /\ gs[j].runs = "code"
             /\ gs[j].static_mode => gs[k].static_mode
             /\ Under(gs[j], gs[k].snapshot, gs[k].logs_snapshot)
  <2>1. /\ fs[j].runs = "code"
        /\ fs[j].static_mode => fs[k].static_mode
        /\ Under(fs[j], fs[k].snapshot, fs[k].logs_snapshot)
    BY <1>5 DEF StackOK
  <2>2. gs[j] = fs[j]
    BY <1>2, <1>3, <1>5
  <2>3. gs[k].static_mode = fs[k].static_mode /\ gs[k].snapshot = fs[k].snapshot
        /\ gs[k].logs_snapshot = fs[k].logs_snapshot
    BY <1>2, <1>3, FailedFrame
  <2> QED
    BY <2>1, <2>2, <2>3
<1>6. Good(accs) /\ Covered(accs) /\ Senders(accs)
  BY DEF StackOK
<1>7. StackOK(gs, accs, len)
  BY <1>3, <1>4, <1>5, <1>6 DEF StackOK
<1> QED
  BY <1>7 DEF gs

(* A message is opened; its snapshot is taken before its value moves.      *)
LEMMA StackPush ==
  ASSUME NEW fs, NEW f, NEW new, NEW len \in Nat,
         StackOK(fs, f.snapshot, len), FrameOK(f), f.logs_snapshot = len,
         fs # <<>> => fs[Len(fs)].runs = "code",
         fs # <<>> /\ fs[Len(fs)].static_mode => f.static_mode,
         Good(new), Covered(new), Advanced(f.snapshot, new),
         f.static_mode => SameWorld(f.snapshot, new),
         Under(f, new, len)
  PROVE  StackOK(Append(fs, f), new, len)
<1> DEFINE n == Len(fs)
           gs == Append(fs, f)
<1>1. fs \in Seq(Frame) /\ f \in Frame /\ n \in Nat
  BY DEF StackOK, FrameOK
<1>2. /\ gs \in Seq(Frame) /\ Len(gs) = n + 1 /\ gs[n + 1] = f
      /\ \A k \in 1 .. n : gs[k] = fs[k]
  BY <1>1
<1> HIDE DEF gs
<1>3. StackOK(fs, new, len)
  BY StackGrow DEF FrameOK
<1>4. ASSUME NEW k \in 1 .. n + 1
      PROVE  FrameOK(gs[k]) /\ Under(gs[k], new, len)
  <2>1. CASE k = n + 1
    BY <1>2, <2>1
  <2>2. CASE k \in 1 .. n
    BY <1>2, <1>3, <2>2 DEF StackOK
  <2> QED
    BY <1>1, <2>1, <2>2
<1>5. ASSUME NEW j \in 1 .. n + 1, NEW k \in 1 .. n + 1, j < k
      PROVE  /\ gs[j].runs = "code"
             /\ gs[j].static_mode => gs[k].static_mode
             /\ Under(gs[j], gs[k].snapshot, gs[k].logs_snapshot)
  <2>1. j \in 1 .. n /\ gs[j] = fs[j] /\ n \in 1 .. n /\ fs # <<>>
    BY <1>1, <1>2, <1>5
  <2>2. CASE k = n + 1
    <3>1. fs[n].runs = "code" /\ (fs[n].static_mode => f.static_mode)
      BY <2>1
    <3>2. fs[j].runs = "code" /\ (fs[j].static_mode => f.static_mode)
      <4>1. CASE j = n
        BY <3>1, <4>1
      <4>2. CASE j < n
        BY <2>1, <3>1, <4>2 DEF StackOK
      <4> QED
        BY <1>1, <2>1, <4>1, <4>2
    <3>3. Under(fs[j], f.snapshot, len)
      BY <2>1 DEF StackOK
    <3> QED
      BY <1>2, <2>1, <2>2, <3>2, <3>3
  <2>3. CASE k \in 1 .. n
    BY <1>2, <1>5, <2>1, <2>3 DEF StackOK
  <2> QED
    BY <1>1, <2>2, <2>3
<1>6. Senders(new)
  BY <1>3 DEF StackOK
<1>7. StackOK(gs, new, len)
  BY <1>2, <1>4, <1>5, <1>6 DEF StackOK
<1> QED
  BY <1>7 DEF gs

(* The running message ends; a failure brings back what it had saved.      *)
LEMMA StackPop ==
  ASSUME NEW fs, NEW accs, NEW len, StackOK(fs, accs, len), fs # <<>>
  PROVE  /\ StackOK(SubSeq(fs, 1, Len(fs) - 1), accs, len)
         /\ StackOK(SubSeq(fs, 1, Len(fs) - 1), fs[Len(fs)].snapshot, fs[Len(fs)].logs_snapshot)
<1> DEFINE n == Len(fs)
           gs == SubSeq(fs, 1, Len(fs) - 1)
           f == fs[n]
<1>1. fs \in Seq(Frame)
  BY DEF StackOK
<1>2. n \in Nat \ {0} /\ n \in 1 .. n /\ f \in Frame
  BY <1>1, TopOfStack
<1>3. gs \in Seq(Frame) /\ Len(gs) = n - 1 /\ \A k \in 1 .. n - 1 : gs[k] = fs[k]
  BY <1>1, FrontOfStack
<1> HIDE DEF gs
<1>4. StackOK(gs, accs, len)
  BY <1>2, <1>3, SMTT(30) DEF StackOK
<1>5. FrameOK(f)
  BY <1>2 DEF StackOK
<1>6. \A k \in 1 .. n - 1 : Under(fs[k], f.snapshot, f.logs_snapshot) /\ FrameOK(fs[k])
  BY <1>2 DEF StackOK
<1>7. StackOK(gs, f.snapshot, f.logs_snapshot)
  <2> HIDE DEF f
  <2> QED
    BY <1>2, <1>3, <1>4, <1>5, <1>6 DEF StackOK, FrameOK
<1> QED
  BY <1>4, <1>7 DEF gs, f

(* The code of a new contract is stored: no other open message is about    *)
(* that address, which had no code when they were opened.                  *)
LEMMA StackCode ==
  ASSUME NEW fs, NEW accs, NEW len, StackOK(fs, accs, len), fs # <<>>, NEW c \in Code,
         fs[Len(fs)].kind \in Creates, fs[Len(fs)].runs # "failed"
  PROVE  /\ StackOK(SubSeq(fs, 1, Len(fs) - 1), WithCode(accs, fs[Len(fs)].recipient, c), len)
         /\ Good(WithCode(accs, fs[Len(fs)].recipient, c))
         /\ Later(accs, WithCode(accs, fs[Len(fs)].recipient, c))
         /\ accs[fs[Len(fs)].recipient].exists /\ accs[fs[Len(fs)].recipient].code = EmptyCode
         /\ \A j \in 1 .. Len(fs) - 1 :
              fs[j].kind \in Creates => fs[j].recipient # fs[Len(fs)].recipient
<1> DEFINE n == Len(fs)
           f == fs[n]
           gs == SubSeq(fs, 1, n - 1)
           to == f.recipient
           new == WithCode(accs, to, c)
<1>1. fs \in Seq(Frame) /\ Good(accs) /\ Covered(accs) /\ Senders(accs)
  BY DEF StackOK
<1>2. n \in Nat \ {0} /\ n \in 1 .. n /\ f \in Frame
  BY <1>1, TopOfStack
<1>3. FrameOK(f) /\ Under(f, accs, len) /\ to \in Address
  BY <1>2, FrameTypes DEF StackOK
<1>4. accs[to].exists /\ accs[to].nonce # 0 /\ accs[to].code = EmptyCode
  BY <1>3 DEF Under
<1>5. ~f.static_mode /\ ~collision(f.snapshot[to])
  BY <1>3 DEF FrameOK
<1>6. gs \in Seq(Frame) /\ Len(gs) = n - 1 /\ \A k \in 1 .. n - 1 : gs[k] = fs[k]
  BY <1>1, FrontOfStack
<1>7. StackOK(gs, accs, len)
  BY StackPop
<1> HIDE DEF gs
<1>8. /\ Good(new) /\ Later(accs, new)
      /\ \A b \in Address : /\ new[b].nonce = accs[b].nonce /\ new[b].balance = accs[b].balance
                            /\ new[b].code = IF b = to THEN c ELSE accs[b].code
  BY <1>1, <1>3, <1>4, CodeMap
<1> HIDE DEF new
<1>9. Covered(new) /\ Senders(new)
  BY <1>1, <1>8, SendersKept DEF Covered
<1>10. ASSUME NEW j \in 1 .. n - 1
       PROVE  /\ FrameOK(fs[j]) /\ Under(fs[j], accs, len) /\ fs[j].runs = "code" /\ ~fs[j].static_mode
              /\ fs[j].kind \in Creates => fs[j].recipient # to
  <2>1. j \in 1 .. n /\ j < n
    BY <1>2
  <2>2. /\ FrameOK(fs[j]) /\ Under(fs[j], accs, len) /\ fs[j].runs = "code"
        /\ fs[j].static_mode => f.static_mode
        /\ Under(fs[j], f.snapshot, f.logs_snapshot)
    BY <1>2, <2>1 DEF StackOK
  <2>3. ~fs[j].static_mode
    BY <1>5, <2>2
  <2>4. ASSUME fs[j].kind \in Creates PROVE fs[j].recipient # to
    <3>1. f.snapshot[fs[j].recipient].nonce # 0 /\ f.snapshot[fs[j].recipient].exists
      BY <2>2, <2>4 DEF Under
    <3> QED
      BY <1>5, <3>1 DEF collision
  <2> QED
    BY <2>2, <2>3, <2>4
<1>11. ASSUME NEW j \in 1 .. n - 1
       PROVE  Under(fs[j], new, len)
  <2> DEFINE g == fs[j]
  <2>1. /\ FrameOK(g) /\ Under(g, accs, len) /\ g.runs = "code" /\ ~g.static_mode
        /\ g.kind \in Creates => g.recipient # to
    BY <1>10
  <2> HIDE DEF g
  <2>2. g.sender \in Address /\ g.recipient \in Address /\ Good(g.snapshot)
    BY <2>1, FrameTypes DEF FrameOK
  <2>3. Later(g.snapshot, new)
    BY <1>1, <1>8, <2>1, <2>2, LaterTransitive DEF Under
  <2>4. new[g.sender].exists /\ new[g.recipient].exists
    BY <1>8, <2>1, <2>2 DEF Under, Later, Grown
  <2>5. g.kind \in Creates => new[g.recipient].nonce # 0 /\ new[g.recipient].code = EmptyCode
    BY <1>8, <2>1, <2>2 DEF Under
  <2>6. Under(g, new, len)
    BY <2>1, <2>3, <2>4, <2>5 DEF Under
  <2> QED
    BY <2>6 DEF g
<1>12. StackOK(gs, new, len)
  BY <1>2, <1>6, <1>7, <1>8, <1>9, <1>11 DEF StackOK
<1> QED
  BY <1>4, <1>8, <1>10, <1>12 DEF gs, new

------------------------------------------------------------------------------
(* Transactions: prices and costs.                                         *)

(* The types of the fields of a transaction.                               *)
LEMMA TransactionTypes ==
  ASSUME NEW t \in Transactions
  PROVE  /\ t.sender \in Address /\ t.to \in Address \cup {NoAddress} /\ t.value \in Nat /\ t.gas_limit \in Nat
         /\ t.max_gas_price \in Nat /\ t.max_priority_gas_price \in Nat
         /\ t.access_list \in Seq([addr : Address, keys : Nat])
         /\ compute_tx_intrinsic_cost(t) \in Nat \ {0}
  BY TransactionsAssumption DEF Transaction

(* Products of numbers are monotone.                                       *)
LEMMA Products ==
  ASSUME NEW a \in Nat, NEW b \in Nat, NEW c \in Nat, b <= c
  PROVE  a * b \in Nat /\ a * b <= a * c
<1>1. PICK d \in Nat : c = b + d
  BY c - b \in Nat
<1>2. a * c = a * b + a * d /\ a * d \in Nat /\ a * b \in Nat
  BY <1>1
<1> QED
  BY <1>2

(* What validation has established of a transaction and its sender.        *)
LEMMA ValidFacts ==
  ASSUME NEW t, NEW x, valid_transaction(x, t)
  PROVE  /\ ~(t.max_gas_price < base_fee)
         /\ x.code = EmptyCode /\ x.nonce # NonceMax
         /\ ~(x.balance < tx_cost_limit(t))
         /\ ~(compute_tx_intrinsic_cost(t) > t.gas_limit)
<1>1. \A i \in 1 .. 8 : ~checks(x, t)[i].fails
  BY DEF valid_transaction, failed_checks
<1>2. ~checks(x, t)[3].fails /\ ~checks(x, t)[4].fails /\ ~checks(x, t)[5].fails
      /\ ~checks(x, t)[7].fails /\ ~checks(x, t)[8].fails
  BY <1>1
<1>3. checks(x, t)[3].fails <=> (t.max_gas_price < base_fee)
  BY DEF checks
<1>4. checks(x, t)[4].fails <=> (x.code # EmptyCode)
  BY DEF checks
<1>5. checks(x, t)[5].fails <=> (x.nonce = NonceMax)
  BY DEF checks
<1>6. checks(x, t)[7].fails <=> (x.balance < tx_cost_limit(t))
  BY DEF checks
<1>7. checks(x, t)[8].fails <=> (compute_tx_intrinsic_cost(t) > t.gas_limit)
  BY DEF checks
<1> QED
  BY <1>2, <1>3, <1>4, <1>5, <1>6, <1>7

(* A transaction that pays at least the base fee.                          *)
Priced(t) == t.max_gas_price >= base_fee

(* Prices are numbers and the prepayment is at most what validation asks   *)
(* for.                                                                    *)
LEMMA Prices ==
  ASSUME NEW t \in Transactions, Priced(t)
  PROVE  /\ priority_gas_price(t) \in Nat /\ effective_gas_price(t) \in Nat
         /\ effective_gas_price(t) = base_fee + priority_gas_price(t)
         /\ effective_gas_price(t) <= t.max_gas_price
         /\ tx_max_cost(t) \in Nat /\ tx_max_cost(t) <= t.gas_limit * t.max_gas_price
<1>1. /\ t.max_gas_price \in Nat /\ t.max_priority_gas_price \in Nat /\ t.gas_limit \in Nat
      /\ base_fee \in Nat /\ t.max_gas_price >= base_fee
  BY TransactionTypes, BlockAssumption DEF Priced
<1>2. /\ priority_gas_price(t) \in Nat /\ effective_gas_price(t) \in Nat
      /\ effective_gas_price(t) = base_fee + priority_gas_price(t)
      /\ effective_gas_price(t) <= t.max_gas_price
  BY <1>1 DEF priority_gas_price, effective_gas_price, min
<1>3. tx_max_cost(t) \in Nat /\ tx_max_cost(t) <= t.gas_limit * t.max_gas_price
  BY <1>1, <1>2, Products DEF tx_max_cost
<1> QED
  BY <1>2, <1>3

(* The sender of a valid transaction can pay for gas and value.            *)
LEMMA CostCovered ==
  ASSUME NEW t \in Transactions, NEW x \in Account, valid_transaction(x, t)
  PROVE  Priced(t) /\ x.balance >= tx_max_cost(t) + t.value
<1>1. /\ t.max_gas_price \in Nat /\ base_fee \in Nat /\ x.balance \in Int /\ t.value \in Nat
      /\ t.gas_limit * t.max_gas_price \in Nat
  BY TransactionTypes, BlockAssumption, AccountTypes, Products
<1>2. Priced(t)
  BY <1>1, ValidFacts DEF Priced
<1>3. tx_max_cost(t) \in Nat /\ tx_max_cost(t) <= t.gas_limit * t.max_gas_price
  BY <1>2, Prices
<1>4. ~(x.balance < t.gas_limit * t.max_gas_price + t.value)
  BY ValidFacts DEF tx_cost_limit
<1> DEFINE m == t.gas_limit * t.max_gas_price
<1>5. x.balance >= tx_max_cost(t) + t.value
  <2> HIDE DEF m
  <2>1. m \in Nat /\ tx_max_cost(t) <= m /\ ~(x.balance < m + t.value)
    BY <1>1, <1>3, <1>4 DEF m
  <2> QED
    BY <1>1, <1>3, <2>1
<1> QED
  BY <1>2, <1>5

(* The gas used is part of the limit and not 0.                            *)
LEMMA GasUsed ==
  ASSUME NEW limit \in Nat, NEW left \in Nat, left < limit, NEW refund \in Int
  PROVE  /\ (limit - left) - min(refund, (limit - left) \div 5) \in Nat \ {0}
         /\ refund >= 0 => (limit - left) - min(refund, (limit - left) \div 5) <= limit
<1>1. limit - left \in 1 .. limit
  OBVIOUS
<1> DEFINE u == limit - left
           q == u \div 5
<1>2. u \in 1 .. limit /\ q \in 0 .. u - 1
  BY <1>1
<1> HIDE DEF u, q
<1>3. u - min(refund, q) \in Nat \ {0} /\ (refund >= 0 => u - min(refund, q) <= limit)
  BY <1>2 DEF min
<1> QED
  BY <1>3 DEF u, q

(* The prepayment and the addresses warm from the start.                   *)
LEMMA ChargedMap ==
  ASSUME NEW accs, Good(accs), Covered(accs), Senders(accs), NEW t \in Transactions,
         valid_transaction(accs[t.sender], t)
  PROVE  /\ Good(charged(accs, t)) /\ Advanced(accs, charged(accs, t)) /\ Covered(charged(accs, t))
         /\ charged(accs, t)[t.sender].balance >= t.value
         /\ \A a \in Address :
              /\ charged(accs, t)[a].balance = accs[a].balance - (IF a = t.sender THEN tx_max_cost(t) ELSE 0)
              /\ charged(accs, t)[a].nonce = accs[a].nonce
              /\ charged(accs, t)[a].storage = accs[a].storage
              /\ charged(accs, t)[a].code = accs[a].code
<1> DEFINE v == accs[t.sender].balance - tx_max_cost(t)
           paid == WithBalance(accs, t.sender, v)
           W == warm_addresses(t)
           new == charged(accs, t)
<1>1. t.sender \in Address /\ t.value \in Nat /\ accs[t.sender] \in Account /\ accs[t.sender].exists
  BY TransactionTypes DEF Good, Senders
<1>2. Priced(t) /\ accs[t.sender].balance >= tx_max_cost(t) + t.value /\ tx_max_cost(t) \in Nat
  BY <1>1, CostCovered, Prices
<1>3. v \in Int /\ v >= t.value /\ v >= 0
  BY <1>1, <1>2, AccountTypes
<1>4. \A a \in Address : accs[a].balance \in Int /\ accs[a].balance >= 0
  BY AccountTypes DEF Good, Covered
<1>5. new = [a \in Address |-> IF a \in W THEN access_account(paid[a]) ELSE paid[a]]
  BY DEF charged, WithBalance
<1>6. /\ Good(paid) /\ Advanced(accs, paid)
      /\ \A b \in Address : /\ paid[b].balance = IF b = t.sender THEN v ELSE accs[b].balance
                            /\ paid[b].nonce = accs[b].nonce /\ paid[b].storage = accs[b].storage
                            /\ paid[b].code = accs[b].code
  <2> HIDE DEF v
  <2> QED
    BY <1>1, <1>3, BalanceMap
<1> HIDE DEF paid, W, new
<1>7. ASSUME NEW a \in Address
      PROVE  Entry(new[a]) /\ Kept(paid[a], new[a]) /\ SameContents(paid[a], new[a])
  <2>1. Entry(paid[a]) /\ paid[a] \in Account
    BY <1>6 DEF Good
  <2>2. new[a] = IF a \in W THEN access_account(paid[a]) ELSE paid[a]
    BY <1>5
  <2>3. SameContents(paid[a], paid[a]) /\ Kept(paid[a], paid[a])
    BY <2>1, GrownReflexive DEF SameContents
  <2> QED
    BY <2>1, <2>2, <2>3, AccessEntry
<1>8. Good(new)
  BY <1>5, <1>7 DEF Good, Entry
<1>9. Advanced(accs, new)
  <2>1. Advanced(paid, new)
    BY <1>7 DEF Advanced
  <2> QED
    BY <1>6, <1>8, <2>1, AdvancedTransitive
<1>10. \A a \in Address :
              /\ new[a].balance = accs[a].balance - (IF a = t.sender THEN tx_max_cost(t) ELSE 0)
              /\ new[a].nonce = accs[a].nonce
              /\ new[a].storage = accs[a].storage
              /\ new[a].code = accs[a].code
  BY <1>4, <1>6, <1>7 DEF SameContents
<1>11. Covered(new) /\ new[t.sender].balance >= t.value
  BY <1>1, <1>3, <1>4, <1>10 DEF Covered
<1> QED
  BY <1>8, <1>9, <1>10, <1>11 DEF new

(* Nobody is overdrawn by gas g but the sender of a transaction, and that  *)
(* one by no more than what gas beyond the limit costs.                    *)
Bounded(accs, t, g) ==
  \A a \in Address :
    \/ accs[a].balance >= 0
    \/ a = t.sender /\ g > t.gas_limit /\ accs[a].balance >= (t.gas_limit - g) * effective_gas_price(t)

(* The refund of the sender, or what it has still to pay, and the fee of   *)
(* the coinbase.                                                           *)
LEMMA SettledMap ==
  ASSUME NEW accs, Good(accs), Covered(accs), Senders(accs), tx \in Transactions, Priced(tx),
         NEW g \in Nat \ {0}
  PROVE  /\ Good(settled(accs, g)) /\ Advanced(accs, settled(accs, g)) /\ Bounded(settled(accs, g), tx, g)
         /\ tx_max_cost(tx) - g * effective_gas_price(tx) \in Int /\ g * priority_gas_price(tx) \in Nat
         /\ \A a \in Address :
              /\ settled(accs, g)[a].balance = accs[a].balance
                   + (IF a = tx.sender THEN tx_max_cost(tx) - g * effective_gas_price(tx) ELSE 0)
                   + (IF a = coinbase THEN g * priority_gas_price(tx) ELSE 0)
              /\ settled(accs, g)[a].nonce = accs[a].nonce
              /\ settled(accs, g)[a].storage = accs[a].storage
              /\ settled(accs, g)[a].code = accs[a].code
<1> DEFINE r == tx_max_cost(tx) - g * effective_gas_price(tx)
           p == g * priority_gas_price(tx)
           s == tx.sender
           x == accs[s].balance + r
           refunded == WithBalance(accs, s, x)
           touched == Touched(refunded, coinbase)
           y == touched[coinbase].balance + p
           new == WithBalance(touched, coinbase, y)
<1>1. s \in Address /\ coinbase \in Address /\ accs[s].exists /\ tx.gas_limit \in Nat /\ g \in Nat
  BY TransactionTypes, AddressAssumption DEF Senders
<1>2. r \in Int /\ p \in Nat /\ r = (tx.gas_limit - g) * effective_gas_price(tx) /\ (g <= tx.gas_limit => r >= 0)
  <2> DEFINE e == effective_gas_price(tx)
             n == tx.gas_limit
  <2>1. priority_gas_price(tx) \in Nat /\ e \in Nat /\ n \in Nat /\ g \in Nat
    BY <1>1, Prices
  <2>2. r = n * e - g * e
    BY DEF tx_max_cost
  <2>3. p \in Nat
    BY <2>1, Products
  <2> HIDE DEF r, p, e, n
  <2>4. n * e \in Int /\ g * e \in Int /\ (n - g) * e = n * e - g * e
    BY <2>1
  <2>5. r \in Int /\ r = (n - g) * e
    BY <2>2, <2>4
  <2>6. ASSUME g <= n PROVE r >= 0
    <3> DEFINE d == n - g
    <3>1. d \in Nat /\ r = d * e
      BY <2>1, <2>5, <2>6
    <3> HIDE DEF d
    <3>2. d * e \in Nat
      BY <2>1, <3>1, Products
    <3> QED
      BY <3>1, <3>2
  <2> QED
    BY <2>3, <2>5, <2>6 DEF e, n
<1>3. settled(accs, g) = new
  BY DEF settled, WithBalance, Touched
<1>4. \A a \in Address : accs[a].balance \in Int /\ accs[a].balance >= 0
  BY AccountTypes DEF Good, Covered
<1> HIDE DEF r, p
<1>5. x \in Int
  BY <1>1, <1>2, <1>4
<1>6. /\ Good(refunded) /\ Advanced(accs, refunded)
      /\ \A b \in Address : /\ refunded[b].balance = IF b = s THEN x ELSE accs[b].balance
                            /\ refunded[b].nonce = accs[b].nonce /\ refunded[b].storage = accs[b].storage
                            /\ refunded[b].code = accs[b].code
  <2> HIDE DEF x, s
  <2> QED
    BY <1>1, <1>5, BalanceMap
<1> HIDE DEF refunded
<1>7. /\ Good(touched) /\ Advanced(refunded, touched) /\ SameWorld(refunded, touched)
      /\ touched[coinbase].exists
  BY <1>1, <1>6, TouchMap
<1> HIDE DEF touched
<1>8. touched[coinbase].balance \in Int /\ y \in Int
  <2>1. touched[coinbase].balance \in Int
    BY <1>1, <1>7, AccountTypes DEF Good
  <2> QED
    BY <1>2, <2>1
<1>9. /\ Good(new) /\ Advanced(touched, new)
      /\ \A b \in Address : /\ new[b].balance = IF b = coinbase THEN y ELSE touched[b].balance
                            /\ new[b].nonce = touched[b].nonce /\ new[b].storage = touched[b].storage
                            /\ new[b].code = touched[b].code
  <2> HIDE DEF y
  <2> QED
    BY <1>1, <1>7, <1>8, BalanceMap
<1> HIDE DEF new
<1>10. Advanced(accs, new)
  BY <1>6, <1>7, <1>9, AdvancedTransitive
<1>11. ASSUME NEW a \in Address
       PROVE  /\ new[a].balance = accs[a].balance + (IF a = s THEN r ELSE 0) + (IF a = coinbase THEN p ELSE 0)
              /\ new[a].nonce = accs[a].nonce /\ new[a].storage = accs[a].storage /\ new[a].code = accs[a].code
  <2>1. SameContents(refunded[a], touched[a])
    BY <1>7 DEF SameWorld
  <2>2. accs[a].balance \in Int
    BY <1>4
  <2>3. touched[a].balance = IF a = s THEN accs[a].balance + r ELSE accs[a].balance
    BY <1>6, <2>1 DEF SameContents
  <2>4. new[a].balance = IF a = coinbase THEN touched[a].balance + p ELSE touched[a].balance
    BY <1>9
  <2>5. new[a].balance = accs[a].balance + (IF a = s THEN r ELSE 0) + (IF a = coinbase THEN p ELSE 0)
    BY <1>2, <2>2, <2>3, <2>4
  <2>6. new[a].nonce = accs[a].nonce /\ new[a].storage = accs[a].storage /\ new[a].code = accs[a].code
    BY <1>6, <1>9, <2>1 DEF SameContents
  <2> QED
    BY <2>5, <2>6
<1>12. ASSUME NEW a \in Address
       PROVE  \/ new[a].balance >= 0
              \/ a = tx.sender /\ g > tx.gas_limit /\ new[a].balance >= (tx.gas_limit - g) * effective_gas_price(tx)
  <2>1. accs[a].balance \in Int /\ accs[a].balance >= 0
    BY <1>4
  <2>2. new[a].balance = accs[a].balance + (IF a = s THEN r ELSE 0) + (IF a = coinbase THEN p ELSE 0)
    BY <1>11
  <2>3. CASE a # s \/ g <= tx.gas_limit
    BY <1>2, <2>1, <2>2, <2>3
  <2>4. CASE a = s /\ g > tx.gas_limit
    <3>1. new[a].balance >= r
      BY <1>2, <2>1, <2>2, <2>4
    <3>2. new[a].balance >= (tx.gas_limit - g) * effective_gas_price(tx)
      BY <1>2, <3>1
    <3> QED
      BY <2>4, <3>2 DEF s
  <2> QED
    BY <1>1, <2>3, <2>4
<1>13. Bounded(new, tx, g)
  BY <1>12 DEF Bounded
<1> QED
  BY <1>2, <1>3, <1>9, <1>10, <1>11, <1>13 DEF r, p

------------------------------------------------------------------------------
(* Results of messages.                                                    *)

(* A refund is below zero at most in a transaction that succeeds and is    *)
(* not the first of the block.                                             *)
RefundOK(r) == r.gas_refund \in Int /\ (txs = 1 \/ r.status # "SUCCESS" => r.gas_refund >= 0)

(* The types of results; a failed message does not succeed.                *)
LEMMA ResultTypes ==
  ASSUME NEW f \in Frame, NEW r \in vm_results(f)
  PROVE  /\ r \in [status : {"SUCCESS", "REVERT", "FAILURE"}, gas_left : 0 .. f.gas, gas_refund : Int, output : Code]
         /\ RefundOK(r)
         /\ r.status = "SUCCESS" => f.runs # "failed"
<1> DEFINE succeeded == [status : {"SUCCESS"}, gas_left : gas_left_of(f), gas_refund : gas_refunds,
                         output : IF f.kind \in Creates THEN Codes ELSE {EmptyCode}]
           reverted == [status : {"REVERT"}, gas_left : gas_left_of(f), gas_refund : {0}, output : {EmptyCode}]
           R == [status : {"SUCCESS", "REVERT", "FAILURE"}, gas_left : 0 .. f.gas, gas_refund : Int, output : Code]
           nothing == {q \in succeeded : q.gas_left = f.gas /\ q.gas_refund = 0}
           precompiled == {Failure} \cup {q \in succeeded : q.gas_refund = 0}
<1>1. vm_results(f) = CASE f.runs = "failed" -> {Failure}
                        [] f.runs = "nothing" -> nothing
                        [] f.runs = "precompile" -> precompiled
                        [] OTHER -> {Failure} \cup succeeded \cup reverted
  BY DEF vm_results
<1>2. /\ f.gas \in Nat /\ 0 \in 0 .. f.gas /\ Codes \subseteq Code
      /\ gas_left_of(f) \subseteq 0 .. f.gas
      /\ gas_refunds \subseteq Int /\ \A x \in gas_refunds : txs = 1 => x >= 0
  <2>1. f.gas \in Nat /\ Codes \subseteq Code /\ Refunds \subseteq Int /\ Spent \subseteq Nat
    BY FrameTypes, ParametersAssumption
  <2>2. ASSUME NEW x \in gas_left_of(f)
        PROVE  x \in 0 .. f.gas
    <3>1. CASE x = 0
      BY <2>1, <3>1
    <3>2. CASE x # 0
      <4>1. PICK n \in Spent : x = f.gas - n /\ x >= 0
        BY <3>2 DEF gas_left_of
      <4>2. n \in Nat
        BY <2>1
      <4> QED
        BY <2>1, <4>1, <4>2
    <3> QED
      BY <3>1, <3>2
  <2>3. gas_refunds \subseteq Int
    BY <2>1 DEF gas_refunds
  <2>4. \A x \in gas_refunds : txs = 1 => x >= 0
    BY DEF gas_refunds
  <2> QED
    BY <2>1, <2>2, <2>3, <2>4
<1>3. EmptyCode \in Code
  BY DEF EmptyCode, Code
<1>4. Failure \in R /\ Failure.status # "SUCCESS" /\ RefundOK(Failure)
  BY <1>2, <1>3 DEF Failure, RefundOK
<1>5. succeeded \subseteq R /\ \A q \in succeeded : RefundOK(q)
  BY <1>2, <1>3 DEF RefundOK
<1>6. reverted \subseteq R /\ \A q \in reverted : RefundOK(q)
  BY <1>2, <1>3 DEF RefundOK
<1>7. nothing \subseteq succeeded /\ precompiled \subseteq {Failure} \cup succeeded
  OBVIOUS
<1> HIDE DEF succeeded, reverted, nothing, precompiled
<1>8. /\ f.runs = "failed" => vm_results(f) = {Failure}
      /\ vm_results(f) \subseteq {Failure} \cup succeeded \cup reverted
  <2>1. CASE f.runs = "failed"
    BY <1>1, <2>1
  <2>2. CASE f.runs = "nothing"
    BY <1>1, <1>7, <2>2
  <2>3. CASE f.runs = "precompile"
    BY <1>1, <1>7, <2>3
  <2>4. CASE f.runs \notin {"failed", "nothing", "precompile"}
    BY <1>1, <2>4
  <2> QED
    BY <2>1, <2>2, <2>3, <2>4
<1>9. r \in R /\ RefundOK(r)
  BY <1>4, <1>5, <1>6, <1>8
<1>10. r.status = "SUCCESS" => f.runs # "failed"
  BY <1>4, <1>8
<1> QED
  BY <1>9, <1>10

(* create() takes gas of a result and never adds any.                      *)
LEMMA CheckedResult ==
  ASSUME NEW f \in Frame, NEW r \in vm_results(f)
  PROVE  /\ checked_result(f, r).gas_left \in 0 .. f.gas /\ RefundOK(checked_result(f, r))
         /\ checked_result(f, r).output \in Code
         /\ checked_result(f, r).status = "SUCCESS" => f.runs # "failed"
<1> DEFINE g == r.gas_left - code_deposit_cost * r.output.size
<1>1. /\ r \in [status : {"SUCCESS", "REVERT", "FAILURE"}, gas_left : 0 .. f.gas, gas_refund : Int, output : Code]
      /\ RefundOK(r)
      /\ r.status = "SUCCESS" => f.runs # "failed"
  BY ResultTypes
<1>2. f.gas \in Nat /\ EmptyCode \in Code /\ r.gas_left \in 0 .. f.gas /\ r.output.size \in Nat
  BY <1>1, FrameTypes DEF EmptyCode, Code
<1>3. g \in Int /\ g <= r.gas_left
  BY <1>2 DEF code_deposit_cost
<1> HIDE DEF g
<1>4. CASE checked_result(f, r) = r
  BY <1>1, <1>4
<1>5. CASE checked_result(f, r) = Failure
  BY <1>2, <1>5 DEF Failure, RefundOK
<1>6. CASE checked_result(f, r) = [Failure EXCEPT !.status = "CONTRACT_VALIDATION_FAILURE"]
  BY <1>2, <1>6 DEF Failure, RefundOK
<1>7. CASE checked_result(f, r) = [r EXCEPT !.gas_left = g] /\ ~(g < 0) /\ r.status = "SUCCESS"
  BY <1>1, <1>2, <1>3, <1>7 DEF RefundOK
<1>8. \/ checked_result(f, r) = r
      \/ checked_result(f, r) = Failure
      \/ checked_result(f, r) = [Failure EXCEPT !.status = "CONTRACT_VALIDATION_FAILURE"]
      \/ checked_result(f, r) = [r EXCEPT !.gas_left = g] /\ ~(g < 0) /\ r.status = "SUCCESS"
  BY DEF checked_result, g
<1> QED
  BY <1>4, <1>5, <1>6, <1>7, <1>8

(* A failure brings back the snapshot, but for the touch of Z03.           *)
LEMMA RestoredMap ==
  ASSUME NEW f, FrameOK(f)
  PROVE  /\ Good(restored(f)) /\ Advanced(f.snapshot, restored(f)) /\ SameWorld(f.snapshot, restored(f))
         /\ Covered(restored(f))
         /\ Touched03 => restored(f)[addr_03].exists /\ restored(f)[addr_03].erasable
<1> DEFINE new == restored(f)
           s == f.snapshot
<1>1. addr_03 \in Address /\ Good(s) /\ Covered(s)
  BY AddressAssumption DEF FrameOK
<1>2. /\ Touched03 => new = Touched(s, addr_03)
      /\ ~Touched03 => new = s
  BY DEF restored, Touched, Touched03
<1>3. SameWorld(s, s) /\ Advanced(s, s)
  BY <1>1, AdvancedReflexive DEF SameWorld, SameContents
<1> HIDE DEF s, new
<1>4. /\ Good(new) /\ Advanced(s, new) /\ SameWorld(s, new)
      /\ Touched03 => new[addr_03].exists /\ new[addr_03].erasable
  BY <1>1, <1>2, <1>3, TouchMap
<1>5. Covered(new)
  BY <1>1, <1>4 DEF Covered, SameWorld, SameContents
<1> QED
  BY <1>4, <1>5 DEF s, new

------------------------------------------------------------------------------
(* Host::call.                                                             *)

FrameFor(saved, msg, to) ==
  [kind |-> msg.kind, sender |-> msg.sender, recipient |-> to, value |-> msg.value,
   static_mode |-> msg.static_mode, gas |-> msg.gas, runs |-> runs(saved, msg, to),
   snapshot |-> saved, logs_snapshot |-> Len(logs), id |-> IF depth = 0 THEN 0 ELSE ops + 1]

(* Message f was opened on accounts accs, with new as the result.          *)
Opens(accs, f, new) ==
  /\ Advanced(accs, f.snapshot) /\ SameBalances(accs, f.snapshot)
  /\ \A a \in Address :
       /\ f.snapshot[a].nonce =
            accs[a].nonce + (IF (depth = 0 \/ f.kind \in Creates) /\ a = f.sender THEN 1 ELSE 0)
       /\ f.snapshot[a].storage = accs[a].storage
       /\ f.snapshot[a].nonce # 0 => new[a].nonce = f.snapshot[a].nonce
  /\ Good(new) /\ Advanced(f.snapshot, new)
  /\ \/ SameBalances(f.snapshot, new)
     \/ f.kind # "DELEGATECALL" /\ Moved(f.snapshot, new, f.sender, f.recipient, f.value)

AddressOf(accs, msg) ==
  IF msg.kind \in Creates
  THEN compute_new_account_address(msg.sender, accs[msg.sender].nonce, msg.kind, msg.salt) ELSE msg.recipient

(* Host::call fails on an exhausted nonce or opens a message.              *)
LEMMA HostCallCases ==
  ASSUME NEW accs, NEW msg, NEW to, to = AddressOf(accs, msg), host_call(accs, msg)
  PROVE  \/ nonce_exhausted(accs, msg) /\ accounts' = accs /\ frames' = frames
         \/ /\ ~nonce_exhausted(accs, msg)
            /\ accounts' = entered(prepared(accs, msg, to), msg, to)
            /\ frames' = Append(frames, FrameFor(prepared(accs, msg, to), msg, to))
  BY DEF host_call, open_frame, FrameFor, AddressOf

(* What the instructions guarantee of a message.                           *)
Sendable(accs, msg, to) ==
  /\ MessageOK(accs, msg, to)
  /\ msg.gas \in Nat /\ msg.static_mode \in BOOLEAN
  /\ frames # <<>> => top.runs = "code" /\ (top.static_mode => msg.static_mode)
  /\ msg.static_mode => msg.kind \notin Creates /\ (msg.kind = "CALL" => msg.value = 0) /\ frames # <<>>

(* The message that is opened is well formed.                              *)
LEMMA PreparedFrame ==
  ASSUME NEW accs, NEW msg, NEW to, Sendable(accs, msg, to), ~nonce_exhausted(accs, msg),
         Good(accs), Covered(accs), Senders(accs), logs \in Seq(LogEntry), frames \in Seq(Frame), ops \in Nat
  PROVE  FrameOK(FrameFor(prepared(accs, msg, to), msg, to))
<1> DEFINE s == prepared(accs, msg, to)
           f == FrameFor(s, msg, to)
<1>1. /\ MessageOK(accs, msg, to) /\ msg.gas \in Nat /\ msg.static_mode \in BOOLEAN
      /\ msg.kind \in {"CALL", "DELEGATECALL"} \cup Creates /\ msg.sender \in Address /\ to \in Address
      /\ msg.value \in Nat
  BY DEF Sendable, MessageOK
<1>2. /\ Good(s) /\ Advanced(accs, s) /\ SameBalances(accs, s)
      /\ msg.kind \in Creates => s[to].access_status = "WARM"
  BY <1>1, PreparedMap
<1> HIDE DEF s
<1>3. Covered(s) /\ Senders(s)
  BY <1>2, AdvancedIsLater, SendersKept DEF Covered, SameBalances
<1>4. /\ runs(s, msg, to) \in {"code", "nothing", "precompile", "failed"}
      /\ msg.kind \in Creates => runs(s, msg, to) = IF collision(s[to]) THEN "failed" ELSE "code"
  BY <1>1, RunsCases
<1>5. Len(logs) \in Nat /\ (IF depth = 0 THEN 0 ELSE ops + 1) \in Nat
  OBVIOUS
<1>6. f \in Frame
  <2>1. s \in [Address -> Account]
    BY <1>2 DEF Good
  <2> DEFINE rr == runs(s, msg, to)
             ii == IF depth = 0 THEN 0 ELSE ops + 1
  <2>2. f = [kind |-> msg.kind, sender |-> msg.sender, recipient |-> to, value |-> msg.value,
             static_mode |-> msg.static_mode, gas |-> msg.gas, runs |-> rr,
             snapshot |-> s, logs_snapshot |-> Len(logs), id |-> ii]
    BY DEF FrameFor
  <2>3. rr \in {"code", "nothing", "precompile", "failed"} /\ ii \in Nat
    BY <1>4, <1>5
  <2> HIDE DEF rr, ii, f
  <2> QED
    BY <1>1, <1>5, <2>1, <2>2, <2>3 DEF Frame
<1>7. /\ f.kind = msg.kind /\ f.recipient = to /\ f.static_mode = msg.static_mode /\ f.snapshot = s
      /\ f.runs = runs(s, msg, to)
  BY DEF FrameFor
<1>8. msg.static_mode => msg.kind \notin Creates
  BY DEF Sendable
<1> HIDE DEF f
<1>9. FrameOK(f)
  BY <1>2, <1>3, <1>4, <1>6, <1>7, <1>8 DEF FrameOK
<1> QED
  BY <1>9 DEF f, s
(* The message that host_call opens, if it opens one.                      *)
OpenedFrame(accs, msg, to, f) ==
  /\ FrameOK(f) /\ Opens(accs, f, accounts') /\ Covered(accounts')
  /\ f.kind = msg.kind /\ f.sender = msg.sender /\ f.recipient = to /\ f.value = msg.value
  /\ f.gas = msg.gas
  /\ f.kind \in Creates /\ f.runs # "failed" => ~collision(f.snapshot[to])
  /\ f.kind = "CALL" /\ f.runs = "code" => f.snapshot[msg.code_address].code # EmptyCode
  /\ frames' = Append(frames, f)
  /\ StackOK(Append(frames, f), accounts', Len(logs))

(* Host::call on a consistent stack fails lightly or opens a message on    *)
(* it.                                                                     *)
LEMMA HostCall ==
  ASSUME NEW accs, NEW msg, NEW to, to = AddressOf(accs, msg), host_call(accs, msg), Sendable(accs, msg, to),
         StackOK(frames, accs, Len(logs)), logs \in Seq(LogEntry), ops \in Nat
  PROVE  \/ nonce_exhausted(accs, msg) /\ accounts' = accs /\ frames' = frames
         \/ ~nonce_exhausted(accs, msg) /\ \E f : OpenedFrame(accs, msg, to, f)
<1> SUFFICES ASSUME ~nonce_exhausted(accs, msg)
             PROVE  \E f : OpenedFrame(accs, msg, to, f)
  BY HostCallCases
<1> DEFINE s == prepared(accs, msg, to)
           f == FrameFor(s, msg, to)
           e == entered(s, msg, to)
<1>1. accounts' = e /\ frames' = Append(frames, f)
  BY HostCallCases
<1>2. frames \in Seq(Frame) /\ Good(accs) /\ Covered(accs) /\ Senders(accs) /\ Len(logs) \in Nat
  BY DEF StackOK
<1>3. FrameOK(f)
  BY <1>2, PreparedFrame
<1>4. /\ f.kind = msg.kind /\ f.sender = msg.sender /\ f.recipient = to /\ f.value = msg.value
      /\ f.gas = msg.gas /\ f.static_mode = msg.static_mode /\ f.snapshot = s
      /\ f.logs_snapshot = Len(logs) /\ f.runs = runs(s, msg, to)
  BY DEF FrameFor
<1>5. /\ MessageOK(accs, msg, to) /\ msg.kind \in {"CALL", "DELEGATECALL"} \cup Creates
      /\ msg.sender \in Address /\ to \in Address /\ msg.static_mode \in BOOLEAN
      /\ frames # <<>> => top.runs = "code" /\ (top.static_mode => msg.static_mode)
      /\ msg.static_mode => msg.kind \notin Creates /\ (msg.kind = "CALL" => msg.value = 0) /\ frames # <<>>
  BY DEF Sendable, MessageOK
<1>6. /\ Good(s) /\ Advanced(accs, s) /\ SameBalances(accs, s)
      /\ depth # 0 /\ msg.kind \notin Creates => s = accs
      /\ \A a \in Address :
              /\ s[a].nonce = accs[a].nonce + (IF bumps_nonce(msg) /\ a = msg.sender THEN 1 ELSE 0)
              /\ s[a].storage = accs[a].storage
  BY <1>2, <1>5, PreparedMap
<1>7. MessageOK(s, msg, to)
  <2>1. s[msg.sender].balance = accs[msg.sender].balance /\ s[msg.sender].exists
        /\ (accs[to].exists => s[to].exists)
    BY <1>5, <1>6 DEF MessageOK, SameBalances, Advanced, Kept, Grown
  <2> QED
    BY <1>5, <2>1 DEF MessageOK
<1> HIDE DEF s, f
<1>8. /\ Good(e) /\ Advanced(s, e)
      /\ \/ SameBalances(s, e)
         \/ msg.kind # "DELEGATECALL" /\ Moved(s, e, msg.sender, to, msg.value)
      /\ Covered(s) => Covered(e)
      /\ runs(s, msg, to) # "failed" => e[to].exists
      /\ msg.kind \in Creates /\ runs(s, msg, to) # "failed" =>
              /\ ~collision(s[to])
              /\ e[to].nonce # 0
              /\ e[to].code = EmptyCode
      /\ msg.kind \notin Creates /\ (msg.kind = "CALL" => msg.value = 0) => SameWorld(s, e)
      /\ \A a \in Address : s[a].nonce # 0 => e[a].nonce = s[a].nonce
  BY <1>6, <1>7, EnteredMap
<1> HIDE DEF e
<1>9. Covered(s) /\ Covered(e)
  BY <1>2, <1>6, <1>8 DEF Covered, SameBalances
<1>10. /\ msg.static_mode => SameWorld(s, e) /\ s = accs
       /\ frames # <<>> => depth # 0
  <2>1. frames # <<>> => depth # 0
    BY <1>2 DEF depth
  <2> QED
    BY <1>5, <1>6, <1>8, <2>1
<1>11. StackOK(frames, s, Len(logs))
  <2>1. frames # <<>> /\ frames[Len(frames)].static_mode => SameWorld(accs, s) /\ Len(logs) = Len(logs)
    BY <1>5, <1>10 DEF top, depth, SameWorld, SameContents
  <2>2. Len(logs) <= Len(logs)
    BY <1>2
  <2> QED
    BY <1>2, <1>6, <1>9, <2>1, <2>2, StackGrow
<1>12. Under(f, e, Len(logs))
  <2>1. e[msg.sender].exists
    BY <1>5, <1>7, <1>8 DEF MessageOK, Advanced, Kept, Grown
  <2>2. Len(logs) <= Len(logs)
    BY <1>2
  <2>3. Later(s, e)
    BY <1>8, AdvancedIsLater
  <2> QED
    BY <1>4, <1>8, <1>10, <2>1, <2>2, <2>3 DEF Under
<1>13. StackOK(Append(frames, f), e, Len(logs))
  <2>1. /\ frames # <<>> => frames[Len(frames)].runs = "code"
        /\ frames # <<>> /\ frames[Len(frames)].static_mode => f.static_mode
    BY <1>4, <1>5 DEF top, depth
  <2>2. StackOK(frames, f.snapshot, Len(logs)) /\ Advanced(f.snapshot, e)
        /\ (f.static_mode => SameWorld(f.snapshot, e))
    BY <1>4, <1>8, <1>10, <1>11
  <2> QED
    BY <1>2, <1>3, <1>4, <1>8, <1>9, <1>12, <2>1, <2>2, StackPush
<1>14. Opens(accs, f, e)
  <2>1. bumps_nonce(msg) <=> depth = 0 \/ f.kind \in Creates
    BY <1>4 DEF bumps_nonce
  <2>2. \A a \in Address :
       /\ f.snapshot[a].nonce =
            accs[a].nonce + (IF (depth = 0 \/ f.kind \in Creates) /\ a = f.sender THEN 1 ELSE 0)
       /\ f.snapshot[a].storage = accs[a].storage
       /\ f.snapshot[a].nonce # 0 => e[a].nonce = f.snapshot[a].nonce
    BY <1>4, <1>6, <1>8, <2>1
  <2> QED
    BY <1>4, <1>6, <1>8, <2>2 DEF Opens
<1>15. f.kind = "CALL" /\ f.runs = "code" => f.snapshot[msg.code_address].code # EmptyCode
  <2> SUFFICES ASSUME msg.kind = "CALL", runs(s, msg, to) = "code"
               PROVE  s[msg.code_address].code # EmptyCode
    BY <1>4
  <2>1. msg.kind \notin Creates
    BY KindsDiffer
  <2>2. /\ msg.code_address \in Precompiles => runs(s, msg, to) = "precompile"
        /\ msg.code_address \notin Precompiles =>
             runs(s, msg, to) = IF s[msg.code_address].code = EmptyCode THEN "nothing" ELSE "code"
    BY <1>5, <2>1, RunsCases
  <2> QED
    BY <2>2
<1>16. OpenedFrame(accs, msg, to, f)
  BY <1>1, <1>3, <1>4, <1>8, <1>9, <1>13, <1>14, <1>15 DEF OpenedFrame
<1> QED
  BY <1>16

------------------------------------------------------------------------------
(* The sum of all balances.                                                *)

Balances(accs) == [a \in Address |-> accs[a].balance]

(* The fold over all addresses is the sum of the balances.                 *)
LEMMA TotalIsSum ==
  ASSUME NEW accs
  PROVE  TotalBalance(accs) = SumOver(Address, Balances(accs))
<1> DEFINE h == Balances(accs)
           E(q) == [s \in SUBSET Address |-> IF s = {} THEN 0
                      ELSE accs[CHOOSE a \in s : TRUE].balance + q[s \ {CHOOSE a \in s : TRUE}]]
           it == CHOOSE q : q = E(q)
<1>1. TotalBalance(accs) = it[Address]
  BY DEF TotalBalance, MapThenFoldSet
<1>2. IsFiniteSet(Address)
  BY AddressAssumption
<1>3. PICK g : Sums(g, h, Address)
  BY <1>2, SumsExist
<1>4. ASSUME NEW q PROVE Sums(q, h, Address) <=> q = E(q)
  <2>1. ASSUME NEW s \in SUBSET Address
        PROVE  SumOf(q, h, s) = IF s = {} THEN 0
                      ELSE accs[CHOOSE a \in s : TRUE].balance + q[s \ {CHOOSE a \in s : TRUE}]
    <3>1. CASE s = {}
      BY <3>1 DEF SumOf
    <3>2. CASE s # {}
      <4>1. Pick(s) \in Address
        BY <3>2, PickMember
      <4>2. h[Pick(s)] = accs[Pick(s)].balance
        BY <4>1 DEF Balances
      <4> HIDE DEF h
      <4> QED
        BY <3>2, <4>2 DEF SumOf, Pick
    <3> QED
      BY <3>1, <3>2
  <2> HIDE DEF h
  <2>2. [s \in SUBSET Address |-> SumOf(q, h, s)] = E(q)
    BY <2>1
  <2> HIDE DEF E
  <2> QED
    BY <2>2 DEF Sums
<1>5. it = E(it)
  <2> HIDE DEF E, h
  <2>1. \E q : q = E(q)
    BY <1>3, <1>4
  <2> QED
    BY <2>1, Zenon
<1> HIDE DEF it, E, h
<1>6. Sums(it, h, Address)
  BY <1>4, <1>5
<1> QED
  BY <1>1, <1>2, <1>6, SumOverSums DEF h

(* The sum of balances is a number.                                        *)
LEMMA TotalType ==
  ASSUME NEW accs, Good(accs)
  PROVE  TotalBalance(accs) \in Int
<1>1. \A a \in Address : Balances(accs)[a] \in Int
  BY AccountTypes DEF Good, Balances
<1> QED
  BY <1>1, AddressAssumption, TotalIsSum, SumOverType

(* The same balances have the same sum.                                    *)
LEMMA TotalSame ==
  ASSUME NEW old, NEW new, SameBalances(old, new)
  PROVE  TotalBalance(new) = TotalBalance(old)
<1>1. Balances(new) = Balances(old)
  BY DEF Balances, SameBalances
<1> QED
  BY <1>1, TotalIsSum

(* One balance changes.                                                    *)
LEMMA TotalChange ==
  ASSUME NEW h1 \in [Address -> Int], NEW b \in Address, NEW v \in Int
  PROVE  SumOver(Address, [h1 EXCEPT ![b] = @ + v]) = SumOver(Address, h1) + v
<1> DEFINE h2 == [h1 EXCEPT ![b] = @ + v]
<1>1. /\ \A x \in Address : h1[x] \in Int /\ h2[x] \in Int
      /\ \A x \in Address : x # b => h2[x] = h1[x]
      /\ h2[b] - h1[b] = v
  OBVIOUS
<1> HIDE DEF h2
<1>2. SumOver(Address, h2) = SumOver(Address, h1) + (h2[b] - h1[b])
  BY <1>1, AddressAssumption, SumOverDiffer
<1> QED
  BY <1>1, <1>2 DEF h2

(* A transfer keeps the sum, also from an account to itself.               *)
LEMMA TotalMoved ==
  ASSUME NEW old, NEW new, Good(old), NEW from \in Address, NEW to \in Address, NEW v \in Nat,
         Moved(old, new, from, to, v)
  PROVE  TotalBalance(new) = TotalBalance(old)
<1> DEFINE h1 == Balances(old)
           h2 == [h1 EXCEPT ![from] = @ + (-v)]
           h3 == [h2 EXCEPT ![to] = @ + v]
<1>1. h1 \in [Address -> Int] /\ -v \in Int /\ v \in Int
  BY AccountTypes DEF Good, Balances
<1>2. h2 \in [Address -> Int] /\ \A a \in Address : h2[a] = h1[a] - (IF a = from THEN v ELSE 0)
  <2> HIDE DEF h1
  <2> QED
    BY <1>1
<1>3. h3 \in [Address -> Int] /\ \A a \in Address : h3[a] = h2[a] + (IF a = to THEN v ELSE 0)
  <2> HIDE DEF h1, h2
  <2> QED
    BY <1>1, <1>2
<1>4. SumOver(Address, h2) = SumOver(Address, h1) + (-v)
  <2> HIDE DEF h1
  <2> QED
    BY <1>1, TotalChange
<1>5. SumOver(Address, h3) = SumOver(Address, h2) + v
  <2> HIDE DEF h1, h2
  <2> QED
    BY <1>1, <1>2, TotalChange
<1>6. Balances(new) = h3
  <2>1. \A a \in Address : h1[a] = old[a].balance /\ h1[a] \in Int
    BY <1>1 DEF Balances
  <2> HIDE DEF h1, h2, h3
  <2>2. \A a \in Address : new[a].balance = h3[a]
    BY <1>2, <1>3, <2>1 DEF Moved
  <2>3. h3 = [a \in Address |-> h3[a]]
    BY <1>3
  <2> QED
    BY <2>2, <2>3 DEF Balances
<1>7. SumOver(Address, h1) \in Int
  <2> HIDE DEF h1
  <2> QED
    BY <1>1, AddressAssumption, SumOverType
<1> HIDE DEF h2, h3
<1> QED
  BY <1>4, <1>5, <1>6, <1>7, TotalIsSum

(* A payment to or by one account changes the sum by that much.            *)
LEMMA TotalPaid ==
  ASSUME NEW old, NEW new, Good(old), NEW b \in Address, NEW v \in Int,
         \A a \in Address : new[a].balance = old[a].balance + (IF a = b THEN v ELSE 0)
  PROVE  TotalBalance(new) = TotalBalance(old) + v
<1> DEFINE h1 == Balances(old)
           h2 == [h1 EXCEPT ![b] = @ + v]
<1>1. h1 \in [Address -> Int] /\ \A a \in Address : h1[a] = old[a].balance
  BY AccountTypes DEF Good, Balances
<1>2. h2 \in [Address -> Int] /\ \A a \in Address : h2[a] = h1[a] + (IF a = b THEN v ELSE 0)
  <2> HIDE DEF h1
  <2> QED
    BY <1>1
<1>3. SumOver(Address, h2) = SumOver(Address, h1) + v
  <2> HIDE DEF h1
  <2> QED
    BY <1>1, TotalChange
<1>4. Balances(new) = h2
  <2> HIDE DEF h1, h2
  <2>1. \A a \in Address : new[a].balance = h2[a]
    BY <1>1, <1>2
  <2>2. h2 = [a \in Address |-> h2[a]]
    BY <1>2
  <2> QED
    BY <2>1, <2>2 DEF Balances
<1> HIDE DEF h2
<1> QED
  BY <1>3, <1>4, TotalIsSum

------------------------------------------------------------------------------
(* The inductive invariant: while the block is open, every open message    *)
(* stands on a snapshot from which the present was reached by steps that   *)
(* take nothing back; and the transaction has paid for its gas.            *)
Consistent ==
  /\ tx \in Transactions /\ block \in {"open", "final"}
  /\ txs \in 0 .. MaxTransactions /\ ops \in 0 .. MaxOps
  /\ logs \in Seq(LogEntry) /\ emitted \in Seq(LogEntry)
  /\ frames \in Seq(Frame) /\ depth <= CallDepthLimit + 1
  /\ Good(accounts) /\ Covered(accounts)
  /\ block = "open" => StackOK(frames, accounts, Len(logs))
  /\ frames # <<>> => block = "open" /\ Priced(tx) /\ frames[1].gas < tx.gas_limit /\ txs >= 1

(* After the end of a transaction that was charged beyond its limit and    *)
(* beyond the balance of its sender: the model goes no further.            *)
Overcharged ==
  /\ tx \in Transactions /\ block = "open"
  /\ txs \in 0 .. MaxTransactions /\ txs > 1 /\ ops \in 0 .. MaxOps
  /\ logs \in Seq(LogEntry) /\ emitted \in Seq(LogEntry) /\ frames = <<>>
  /\ Good(accounts) /\ overdrawn
  /\ Bounded(accounts, tx, receipt.gas_used)

(* The running message changed accounts, opening no other message.         *)
Works ==
  /\ frames # <<>> /\ frames' \in {frames, FailTop(frames)}
  /\ Good(accounts') /\ Advanced(accounts, accounts') /\ SameBalances(accounts, accounts')
  /\ \A a \in Address : accounts'[a].nonce = accounts[a].nonce
  /\ UNCHANGED <<tx, receipt, block, txs, start, supply, failed>>

(* The running message opened message f.                                   *)
Sends(f) ==
  /\ frames # <<>> /\ top.runs = "code" /\ frames' = Append(frames, f)
  /\ FrameOK(f) /\ Opens(accounts, f, accounts')
  /\ f.kind = "DELEGATECALL" => f.recipient = top.recipient
  /\ f.kind # "DELEGATECALL" => f.sender = top.recipient
  /\ f.kind = "CALL" /\ f.runs = "code" => f.snapshot[f.recipient].code # EmptyCode
  /\ UNCHANGED <<tx, receipt, block, txs, start, supply, failed>>

(* What is known when the running message takes a step.                    *)
LEMMA RunningFacts ==
  ASSUME Consistent, Running
  PROVE  /\ frames # <<>> /\ frames \in Seq(Frame) /\ depth = Len(frames) /\ depth \in Nat \ {0}
         /\ top = frames[Len(frames)] /\ top \in Frame /\ FrameOK(top) /\ Under(top, accounts, Len(logs))
         /\ top.runs = "code" /\ top.recipient \in Address /\ top.sender \in Address
         /\ accounts[top.recipient].exists /\ accounts[top.sender].exists
         /\ StackOK(frames, accounts, Len(logs)) /\ Good(accounts) /\ Covered(accounts)
         /\ ops \in Nat /\ Len(logs) \in Nat /\ block = "open"
         /\ ops' \in 0 .. MaxOps /\ UNCHANGED <<tx, receipt, block, txs, start, supply, failed>>
<1>1. /\ frames # <<>> /\ top.runs = "code" /\ ops < MaxOps /\ ops' = ops + 1
      /\ UNCHANGED <<tx, receipt, block, txs, start, supply, failed>>
  BY DEF Running
<1>2. /\ frames \in Seq(Frame) /\ ops \in 0 .. MaxOps /\ Len(logs) \in Nat /\ block = "open"
      /\ StackOK(frames, accounts, Len(logs)) /\ Good(accounts) /\ Covered(accounts)
  BY <1>1 DEF Consistent
<1>3. ops' \in 0 .. MaxOps /\ ops \in Nat
  BY <1>1, <1>2, ParametersAssumption
<1>4. depth = Len(frames) /\ depth \in Nat \ {0} /\ top = frames[Len(frames)] /\ top \in Frame
      /\ Len(frames) \in 1 .. Len(frames)
  BY <1>1, <1>2, TopOfStack DEF depth, top
<1>5. FrameOK(top) /\ Under(top, accounts, Len(logs))
  BY <1>2, <1>4 DEF StackOK
<1>6. /\ top.recipient \in Address /\ top.sender \in Address
      /\ accounts[top.recipient].exists /\ accounts[top.sender].exists
  BY <1>1, <1>4, <1>5, FrameTypes DEF Under
<1> QED
  BY <1>1, <1>2, <1>3, <1>4, <1>5, <1>6

(* What is left to show of a step of the running message.                  *)
LEMMA RunningStep ==
  ASSUME Consistent, Running, logs' \in Seq(LogEntry), emitted' \in Seq(LogEntry),
         StackOK(frames', accounts', Len(logs')), Len(frames') <= CallDepthLimit + 1,
         frames'[1].gas = frames[1].gas
  PROVE  Consistent'
<1>1. /\ frames # <<>> /\ ops' \in 0 .. MaxOps /\ tx' = tx /\ block' = block /\ txs' = txs /\ block = "open"
  BY RunningFacts
<1>2. frames' \in Seq(Frame) /\ Good(accounts') /\ Covered(accounts')
  BY DEF StackOK
<1>3. Priced(tx') /\ frames'[1].gas < tx'.gas_limit /\ txs' >= 1
  BY <1>1 DEF Consistent
<1> QED
  BY <1>1, <1>2, <1>3 DEF Consistent, depth

(* An exception marks the innermost message only.                          *)
LEMMA FailStep ==
  ASSUME frames \in Seq(Frame), frames # <<>>, Fail
  PROVE  /\ frames' = FailTop(frames) /\ Len(frames') = Len(frames) /\ frames'[1].gas = frames[1].gas
<1>1. frames' = FailTop(frames)
  BY DEF Fail, FailTop, Failed, depth
<1>2. /\ Len(FailTop(frames)) = Len(frames) /\ 1 \in 1 .. Len(frames)
      /\ FailTop(frames)[1] = IF 1 = Len(frames) THEN Failed(frames[1]) ELSE frames[1]
  BY FailTopFrames
<1>3. FailTop(frames)[1].gas = frames[1].gas
  BY <1>2, FailedFrame
<1> QED
  BY <1>1, <1>2, <1>3

(* Opening a message leaves the outermost one alone.                       *)
LEMMA PushGas ==
  ASSUME frames \in Seq(Frame), frames # <<>>, NEW f \in Frame
  PROVE  Len(Append(frames, f)) = Len(frames) + 1 /\ Append(frames, f)[1] = frames[1]
  OBVIOUS

(* The message is opened on accounts with one more warm.                   *)
LEMMA OpensFrom ==
  ASSUME NEW old, NEW accs, NEW f, NEW new, Good(old), Good(accs), FrameOK(f),
         Advanced(old, accs), SameWorld(old, accs), Opens(accs, f, new)
  PROVE  Opens(old, f, new)
<1>1. Advanced(old, f.snapshot)
  BY AdvancedTransitive DEF Opens, FrameOK
<1>2. SameBalances(old, f.snapshot)
  BY DEF Opens, SameBalances, SameWorld, SameContents
<1>3. \A a \in Address : accs[a].nonce = old[a].nonce /\ accs[a].storage = old[a].storage
  BY DEF SameWorld, SameContents
<1> QED
  BY <1>1, <1>2, <1>3 DEF Opens

------------------------------------------------------------------------------
(* The operations of the running code, one by one.                         *)

(* SSTORE changes storage only, or fails in static mode.                   *)
LEMMA SetStorageStep ==
  ASSUME Consistent, NEW value \in {0, 1}, set_storage(value)
  PROVE  Consistent' /\ Works
<1> DEFINE new == WithStorage(accounts, top.recipient, value)
<1>1. /\ Running /\ logs' = logs /\ emitted' = emitted /\ value \in Nat
      /\ logs \in Seq(LogEntry) /\ emitted \in Seq(LogEntry) /\ depth <= CallDepthLimit + 1
  BY DEF set_storage, Consistent
<1>2. /\ frames # <<>> /\ frames \in Seq(Frame) /\ depth = Len(frames) /\ top = frames[Len(frames)]
      /\ top.recipient \in Address /\ accounts[top.recipient].exists
      /\ StackOK(frames, accounts, Len(logs)) /\ Good(accounts) /\ Covered(accounts) /\ Len(logs) \in Nat
      /\ UNCHANGED <<tx, receipt, block, txs, start, supply, failed>>
  BY <1>1, RunningFacts
<1>3. CASE top.static_mode
  <2>1. Fail /\ accounts' = accounts
    BY <1>3 DEF set_storage
  <2>2. frames' = FailTop(frames) /\ Len(frames') = Len(frames) /\ frames'[1].gas = frames[1].gas
    BY <1>2, <2>1, FailStep
  <2>3. StackOK(frames', accounts', Len(logs'))
    BY <1>1, <1>2, <2>1, <2>2, StackFail
  <2>4. Consistent'
    BY <1>1, <1>2, <2>2, <2>3, RunningStep
  <2>5. Works
    BY <1>2, <2>1, <2>2, AdvancedReflexive DEF Works, SameBalances
  <2> QED
    BY <2>4, <2>5
<1>4. CASE ~top.static_mode
  <2>1. accounts' = new /\ frames' = frames
    BY <1>4 DEF set_storage, GoOn, WithStorage
  <2>2. /\ Good(new) /\ Advanced(accounts, new)
        /\ \A b \in Address : new[b].nonce = accounts[b].nonce /\ new[b].balance = accounts[b].balance
    BY <1>1, <1>2, StorageMap
  <2> HIDE DEF new
  <2>3. Covered(new) /\ SameBalances(accounts, new)
    BY <1>2, <2>2 DEF Covered, SameBalances
  <2>4. StackOK(frames, new, Len(logs))
    <3>1. Len(logs) <= Len(logs)
      BY <1>2
    <3> QED
      BY <1>2, <1>4, <2>2, <2>3, <3>1, StackGrow
  <2>5. Consistent'
    BY <1>1, <1>2, <2>1, <2>4, RunningStep
  <2>6. Works
    BY <1>2, <2>1, <2>2, <2>3 DEF Works
  <2> QED
    BY <2>5, <2>6
<1> QED
  BY <1>3, <1>4

(* BALANCE and the like warm an address.                                   *)
LEMMA LookAtStep ==
  ASSUME Consistent, NEW a \in Targets, look_at(a)
  PROVE  Consistent' /\ Works
<1> DEFINE new == Warmed(accounts, a)
<1>1. /\ Running /\ logs' = logs /\ emitted' = emitted /\ a \in Address /\ accounts' = new /\ frames' = frames
      /\ logs \in Seq(LogEntry) /\ emitted \in Seq(LogEntry) /\ depth <= CallDepthLimit + 1
  BY ParametersAssumption DEF look_at, Consistent, GoOn, Warmed
<1>2. /\ frames # <<>> /\ frames \in Seq(Frame) /\ depth = Len(frames)
      /\ StackOK(frames, accounts, Len(logs)) /\ Good(accounts) /\ Covered(accounts) /\ Len(logs) \in Nat
      /\ UNCHANGED <<tx, receipt, block, txs, start, supply, failed>>
  BY <1>1, RunningFacts
<1>3. Good(new) /\ Advanced(accounts, new) /\ SameWorld(accounts, new)
  BY <1>1, <1>2, AccessMap
<1> HIDE DEF new
<1>4. Covered(new) /\ SameBalances(accounts, new) /\ \A b \in Address : new[b].nonce = accounts[b].nonce
  BY <1>2, <1>3 DEF Covered, SameWorld, SameContents, SameBalances
<1>5. StackOK(frames, new, Len(logs))
  <2>1. Len(logs) <= Len(logs)
    BY <1>2
  <2> QED
    BY <1>2, <1>3, <1>4, <2>1, StackGrow
<1>6. Consistent'
  BY <1>1, <1>2, <1>5, RunningStep
<1>7. Works
  BY <1>1, <1>2, <1>3, <1>4 DEF Works
<1> QED
  BY <1>6, <1>7

(* LOG changes no account, or fails in static mode.                        *)
LEMMA EmitLogStep ==
  ASSUME Consistent, emit_log
  PROVE  Consistent' /\ Works
<1> DEFINE log == [addr |-> top.recipient, under |-> {frames[k].id : k \in 1 .. depth}]
<1>1. /\ Running /\ accounts' = accounts
      /\ logs \in Seq(LogEntry) /\ emitted \in Seq(LogEntry) /\ depth <= CallDepthLimit + 1
  BY DEF emit_log, Consistent
<1>2. /\ frames # <<>> /\ frames \in Seq(Frame) /\ depth = Len(frames) /\ top = frames[Len(frames)]
      /\ top.recipient \in Address
      /\ StackOK(frames, accounts, Len(logs)) /\ Good(accounts) /\ Covered(accounts) /\ Len(logs) \in Nat
      /\ UNCHANGED <<tx, receipt, block, txs, start, supply, failed>>
  BY <1>1, RunningFacts
<1>3. log \in LogEntry
  <2>1. \A k \in 1 .. depth : frames[k].id \in Nat
    BY <1>2, FrameTypes
  <2> QED
    BY <1>2, <2>1 DEF LogEntry
<1>4. Advanced(accounts, accounts) /\ SameBalances(accounts, accounts)
  BY <1>2, AdvancedReflexive DEF SameBalances
<1>5. CASE top.static_mode
  <2>1. Fail /\ logs' = logs /\ emitted' = emitted
    BY <1>5 DEF emit_log
  <2>2. frames' = FailTop(frames) /\ Len(frames') = Len(frames) /\ frames'[1].gas = frames[1].gas
    BY <1>2, <2>1, FailStep
  <2>3. StackOK(frames', accounts', Len(logs'))
    BY <1>1, <1>2, <2>1, <2>2, StackFail
  <2>4. Consistent'
    BY <1>1, <1>2, <2>1, <2>2, <2>3, RunningStep
  <2>5. Works
    BY <1>1, <1>2, <1>4, <2>2 DEF Works
  <2> QED
    BY <2>4, <2>5
<1>6. CASE ~top.static_mode
  <2>1. logs' = Append(logs, log) /\ emitted' = Append(emitted, log) /\ frames' = frames
    BY <1>6 DEF emit_log, GoOn
  <2> HIDE DEF log
  <2>2. /\ logs' \in Seq(LogEntry) /\ emitted' \in Seq(LogEntry) /\ Len(logs) <= Len(logs') /\ Len(logs') \in Nat
    BY <1>1, <1>3, <2>1
  <2>3. StackOK(frames, accounts, Len(logs'))
    BY <1>2, <1>4, <1>6, <2>2, StackGrow
  <2>4. Consistent'
    BY <1>1, <1>2, <2>1, <2>2, <2>3, RunningStep
  <2>5. Works
    BY <1>1, <1>2, <1>4, <2>1 DEF Works
  <2> QED
    BY <2>4, <2>5
<1> QED
  BY <1>5, <1>6

(* The address of a creation is an address.                                *)
LEMMA NewAddress ==
  ASSUME NEW sender, NEW nonce, NEW kind, NEW salt, hashable(sender, nonce, kind, salt)
  PROVE  compute_new_account_address(sender, nonce, kind, salt) \in Address
<1>1. CASE kind = "CREATE"
  BY <1>1, CreateAddressAssumption, Zenon DEF hashable, compute_new_account_address
<1>2. CASE kind # "CREATE"
  BY <1>2, CreateAddressAssumption, Zenon DEF hashable, compute_new_account_address
<1> QED
  BY <1>1, <1>2

(* A call or creation that passed the checks of the instruction.           *)
LEMMA SendStep ==
  ASSUME Consistent, Running, logs' = logs, emitted' = emitted, depth - 1 < CallDepthLimit,
         NEW accs, Good(accs), Advanced(accounts, accs), SameWorld(accounts, accs),
         NEW msg, NEW to, to = AddressOf(accs, msg), host_call(accs, msg), Sendable(accs, msg, to),
         msg.kind = "DELEGATECALL" => to = top.recipient,
         msg.kind # "DELEGATECALL" => msg.sender = top.recipient,
         msg.kind = "CALL" => msg.code_address = to
  PROVE  Consistent' /\ (Works \/ \E f : Sends(f))
<1>1. /\ frames # <<>> /\ frames \in Seq(Frame) /\ depth = Len(frames) /\ depth \in Nat \ {0}
      /\ top = frames[Len(frames)] /\ top.runs = "code"
      /\ StackOK(frames, accounts, Len(logs)) /\ Good(accounts) /\ Covered(accounts) /\ Len(logs) \in Nat
      /\ ops \in Nat /\ UNCHANGED <<tx, receipt, block, txs, start, supply, failed>>
  BY RunningFacts
<1>2. logs \in Seq(LogEntry) /\ emitted \in Seq(LogEntry) /\ depth <= CallDepthLimit + 1 /\ CallDepthLimit \in Nat
  BY ParametersAssumption DEF Consistent
<1>3. Covered(accs) /\ SameBalances(accounts, accs) /\ \A a \in Address : accs[a].nonce = accounts[a].nonce
  BY <1>1 DEF Covered, SameWorld, SameContents, SameBalances
<1>4. StackOK(frames, accs, Len(logs))
  <2>1. Len(logs) <= Len(logs)
    BY <1>1
  <2> QED
    BY <1>1, <1>3, <2>1, StackGrow
<1>5. CASE nonce_exhausted(accs, msg) /\ accounts' = accs /\ frames' = frames
  <2>1. Consistent'
    BY <1>1, <1>2, <1>4, <1>5, RunningStep
  <2>2. Works
    BY <1>1, <1>3, <1>5 DEF Works
  <2> QED
    BY <2>1, <2>2
<1>6. CASE \E f : OpenedFrame(accs, msg, to, f)
  <2>1. PICK f : OpenedFrame(accs, msg, to, f)
    BY <1>6
  <2>2. /\ FrameOK(f) /\ Opens(accs, f, accounts') /\ f \in Frame
        /\ f.kind = msg.kind /\ f.sender = msg.sender /\ f.recipient = to
        /\ f.kind = "CALL" /\ f.runs = "code" => f.snapshot[msg.code_address].code # EmptyCode
        /\ frames' = Append(frames, f)
        /\ StackOK(frames', accounts', Len(logs'))
    BY <2>1 DEF OpenedFrame, FrameOK
  <2>3. Len(frames') = Len(frames) + 1 /\ frames'[1] = frames[1]
    BY <1>1, <2>2, PushGas
  <2>4. Len(frames') <= CallDepthLimit + 1 /\ frames'[1].gas = frames[1].gas
    BY <1>1, <1>2, <2>3
  <2>5. Consistent'
    BY <1>1, <1>2, <2>2, <2>4, RunningStep
  <2>6. Opens(accounts, f, accounts')
    BY <1>1, <2>2, OpensFrom
  <2>7. Sends(f)
    BY <1>1, <2>2, <2>6 DEF Sends
  <2> QED
    BY <2>5, <2>7
<1>7. \/ nonce_exhausted(accs, msg) /\ accounts' = accs /\ frames' = frames
      \/ ~nonce_exhausted(accs, msg) /\ \E f : OpenedFrame(accs, msg, to, f)
  BY <1>1, <1>2, <1>4, HostCall
<1> QED
  BY <1>5, <1>6, <1>7

(* The call instructions work on the accounts or send a message.           *)
LEMMA CallStep ==
  ASSUME Consistent, NEW op \in {"CALL", "STATICCALL", "DELEGATECALL"}, NEW dst \in Targets,
         NEW value \in Values, NEW gas \in CallGas, call_impl(op, dst, value, gas)
  PROVE  Consistent' /\ (Works \/ \E f : Sends(f))
<1> DEFINE accs == Warmed(accounts, dst)
           msg == call_message(op, dst, value, gas)
           limited == depth - 1 >= CallDepthLimit \/ accs[top.recipient].balance < value
<1>1. /\ Running /\ logs' = logs /\ emitted' = emitted /\ (op # "CALL" => value = 0)
      /\ logs \in Seq(LogEntry) /\ emitted \in Seq(LogEntry) /\ depth <= CallDepthLimit + 1
      /\ dst \in Address /\ value \in Nat /\ gas \in Nat /\ CallDepthLimit \in Nat
  BY ParametersAssumption DEF call_impl, Consistent
<1>2. IF value # 0 /\ top.static_mode THEN accounts' = accs /\ Fail
      ELSE IF limited THEN accounts' = accs /\ GoOn
      ELSE host_call(accs, msg)
  BY DEF call_impl, Warmed
<1>3. /\ frames # <<>> /\ frames \in Seq(Frame) /\ depth = Len(frames) /\ depth \in Nat \ {0}
      /\ top = frames[Len(frames)] /\ top \in Frame /\ top.runs = "code"
      /\ top.recipient \in Address /\ top.sender \in Address
      /\ accounts[top.recipient].exists /\ accounts[top.sender].exists
      /\ StackOK(frames, accounts, Len(logs)) /\ Good(accounts) /\ Covered(accounts) /\ Len(logs) \in Nat
      /\ UNCHANGED <<tx, receipt, block, txs, start, supply, failed>>
  BY <1>1, RunningFacts
<1>4. Good(accs) /\ Advanced(accounts, accs) /\ SameWorld(accounts, accs)
  BY <1>1, <1>3, AccessMap
<1> HIDE DEF accs
<1>5. Covered(accs) /\ SameBalances(accounts, accs) /\ \A b \in Address : accs[b].nonce = accounts[b].nonce
  BY <1>3, <1>4 DEF Covered, SameWorld, SameContents, SameBalances
<1>6. Len(logs) <= Len(logs)
  BY <1>3
<1>7. CASE value # 0 /\ top.static_mode
  <2>1. accounts' = accs /\ Fail
    BY <1>2, <1>7
  <2>2. frames' = FailTop(frames) /\ Len(frames') = Len(frames) /\ frames'[1].gas = frames[1].gas
    BY <1>3, <2>1, FailStep
  <2>3. StackOK(frames', accounts, Len(logs))
    BY <1>3, <2>2, StackFail
  <2>4. StackOK(frames', accs, Len(logs))
    BY <1>3, <1>4, <1>5, <1>6, <2>3, StackGrow
  <2>5. Consistent'
    BY <1>1, <1>3, <2>1, <2>2, <2>4, RunningStep
  <2>6. Works
    BY <1>3, <1>4, <1>5, <2>1, <2>2 DEF Works
  <2> QED
    BY <2>5, <2>6
<1>8. CASE ~(value # 0 /\ top.static_mode) /\ limited
  <2>1. accounts' = accs /\ frames' = frames
    BY <1>2, <1>8 DEF GoOn
  <2>2. StackOK(frames, accs, Len(logs))
    BY <1>3, <1>4, <1>5, <1>6, StackGrow
  <2>3. Consistent'
    BY <1>1, <1>3, <2>1, <2>2, RunningStep
  <2>4. Works
    BY <1>3, <1>4, <1>5, <2>1 DEF Works
  <2> QED
    BY <2>3, <2>4
<1>9. CASE ~(value # 0 /\ top.static_mode) /\ ~limited
  <2>1. host_call(accs, msg) /\ depth - 1 < CallDepthLimit /\ accs[top.recipient].balance >= value
    <3>1. accs[top.recipient].balance \in Int
      BY <1>3, <1>4, AccountTypes DEF Good
    <3> QED
      BY <1>1, <1>2, <1>3, <1>9, <3>1
  <2> DEFINE to == AddressOf(accs, msg)
             delegate == op = "DELEGATECALL"
  <2>2. /\ msg.kind = (IF delegate THEN "DELEGATECALL" ELSE "CALL")
        /\ msg.sender = (IF delegate THEN top.sender ELSE top.recipient)
        /\ msg.recipient = (IF delegate THEN top.recipient ELSE dst)
        /\ msg.code_address = dst /\ msg.value = (IF delegate THEN top.value ELSE value)
        /\ msg.gas = gas
    BY DEF call_message
  <2>3. msg.static_mode = inherited_mode(op)
    BY DEF call_message
  <2>4. /\ msg.static_mode \in BOOLEAN /\ (top.static_mode => msg.static_mode)
        /\ msg.static_mode => (msg.kind = "CALL" => msg.value = 0)
    <3>1. top.static_mode \in BOOLEAN
      BY <1>3, FrameTypes
    <3>2. inherited_mode(op) <=> top.static_mode \/ op = "STATICCALL"
      BY DEF inherited_mode
    <3>3. msg.static_mode \in BOOLEAN
      BY <2>3 DEF inherited_mode
    <3> HIDE DEF msg
    <3>4. top.static_mode => msg.static_mode
      BY <2>3, <3>2
    <3>5. msg.static_mode => (msg.kind = "CALL" => msg.value = 0)
      BY <1>1, <1>9, <2>2, <2>3, <3>2
    <3> QED
      BY <3>3, <3>4, <3>5
  <2> HIDE DEF msg
  <2>5. msg.kind \notin Creates /\ to = msg.recipient
    BY <2>2, KindsDiffer DEF AddressOf
  <2>6. accs[top.sender].exists /\ accs[top.recipient].exists
    BY <1>3, <1>4 DEF Advanced, Kept, Grown
  <2>7. top.value \in Nat
    BY <1>3, FrameTypes
  <2> HIDE DEF to
  <2>8. MessageOK(accs, msg, to)
    BY <1>1, <1>3, <2>1, <2>2, <2>5, <2>6, <2>7 DEF MessageOK
  <2>9. Sendable(accs, msg, to)
    BY <1>1, <1>3, <2>2, <2>4, <2>5, <2>8 DEF Sendable
  <2>10. to = AddressOf(accs, msg)
    BY DEF to
  <2>11. /\ msg.kind = "DELEGATECALL" => to = top.recipient
         /\ msg.kind # "DELEGATECALL" => msg.sender = top.recipient
         /\ msg.kind = "CALL" => msg.code_address = to
    BY <2>2, <2>5
  <2> QED
    BY <1>1, <1>4, <2>1, <2>9, <2>10, <2>11, SendStep
<1> QED
  BY <1>7, <1>8, <1>9

(* The create instructions work on the accounts or send a message.         *)
LEMMA CreateStep ==
  ASSUME Consistent, NEW op \in Creates, NEW endowment \in Values, NEW salt \in Salt, NEW gas \in CallGas,
         create_impl(op, endowment, salt, gas)
  PROVE  Consistent' /\ (Works \/ \E f : Sends(f))
<1> DEFINE msg == [kind |-> op, sender |-> top.recipient, recipient |-> NoAddress,
                   code_address |-> NoAddress, value |-> endowment, static_mode |-> FALSE,
                   salt |-> salt, gas |-> gas]
           limited == depth - 1 >= CallDepthLimit \/ accounts[top.recipient].balance < endowment
<1>1. /\ Running /\ logs' = logs /\ emitted' = emitted
      /\ hashable(top.recipient, accounts[top.recipient].nonce, op, salt)
      /\ logs \in Seq(LogEntry) /\ emitted \in Seq(LogEntry) /\ depth <= CallDepthLimit + 1
      /\ endowment \in Nat /\ gas \in Nat /\ CallDepthLimit \in Nat
  BY ParametersAssumption DEF create_impl, Consistent
<1>2. IF top.static_mode THEN Fail /\ accounts' = accounts
      ELSE IF limited THEN GoOn /\ accounts' = accounts
      ELSE host_call(accounts, msg)
  BY DEF create_impl
<1>3. /\ frames # <<>> /\ frames \in Seq(Frame) /\ depth = Len(frames) /\ depth \in Nat \ {0}
      /\ top = frames[Len(frames)] /\ top \in Frame /\ top.runs = "code"
      /\ top.recipient \in Address /\ accounts[top.recipient].exists
      /\ StackOK(frames, accounts, Len(logs)) /\ Good(accounts) /\ Covered(accounts) /\ Len(logs) \in Nat
      /\ UNCHANGED <<tx, receipt, block, txs, start, supply, failed>>
  BY <1>1, RunningFacts
<1>4. Advanced(accounts, accounts) /\ SameBalances(accounts, accounts) /\ SameWorld(accounts, accounts)
  BY <1>3, AdvancedReflexive DEF SameBalances, SameWorld, SameContents
<1>5. CASE top.static_mode
  <2>1. frames' = FailTop(frames) /\ Len(frames') = Len(frames) /\ frames'[1].gas = frames[1].gas
        /\ accounts' = accounts
    BY <1>2, <1>3, <1>5, FailStep
  <2>2. StackOK(frames', accounts, Len(logs))
    BY <1>3, <2>1, StackFail
  <2>3. Consistent'
    BY <1>1, <1>3, <2>1, <2>2, RunningStep
  <2>4. Works
    BY <1>3, <1>4, <2>1 DEF Works
  <2> QED
    BY <2>3, <2>4
<1>6. CASE ~top.static_mode /\ limited
  <2>1. accounts' = accounts /\ frames' = frames
    BY <1>2, <1>6 DEF GoOn
  <2>2. Consistent'
    BY <1>1, <1>3, <2>1, RunningStep
  <2>3. Works
    BY <1>3, <1>4, <2>1 DEF Works
  <2> QED
    BY <2>2, <2>3
<1>7. CASE ~top.static_mode /\ ~limited
  <2>1. host_call(accounts, msg) /\ depth - 1 < CallDepthLimit /\ accounts[top.recipient].balance >= endowment
    <3>1. accounts[top.recipient].balance \in Int
      BY <1>3, AccountTypes DEF Good
    <3> QED
      BY <1>1, <1>2, <1>3, <1>7, <3>1
  <2> DEFINE to == AddressOf(accounts, msg)
  <2>2. /\ msg.kind = op /\ msg.sender = top.recipient /\ msg.value = endowment /\ ~msg.static_mode
        /\ msg.gas = gas /\ msg.salt = salt /\ msg.static_mode \in BOOLEAN
    OBVIOUS
  <2> HIDE DEF msg
  <2>3. to = compute_new_account_address(top.recipient, accounts[top.recipient].nonce, op, salt)
    BY <2>2 DEF AddressOf
  <2>4. to \in Address
    BY <1>1, <2>3, NewAddress
  <2> HIDE DEF to
  <2>5. op # "DELEGATECALL" /\ op # "CALL"
    BY KindsDiffer
  <2>6. MessageOK(accounts, msg, to)
    BY <1>1, <1>3, <2>1, <2>2, <2>4, <2>5 DEF MessageOK
  <2>7. Sendable(accounts, msg, to)
    BY <1>1, <1>3, <1>7, <2>2, <2>5, <2>6 DEF Sendable
  <2>8. to = AddressOf(accounts, msg)
    BY DEF to
  <2>9. /\ msg.kind = "DELEGATECALL" => to = top.recipient
        /\ msg.kind # "DELEGATECALL" => msg.sender = top.recipient
        /\ msg.kind = "CALL" => msg.code_address = to
    BY <2>2, <2>5
  <2> QED
    BY <1>1, <1>3, <1>4, <2>1, <2>7, <2>8, <2>9, SendStep
<1> QED
  BY <1>5, <1>6, <1>7

------------------------------------------------------------------------------
(* The beginning of a transaction.                                         *)

(* Transaction t is valid and opened its message f.                        *)
Starts(t, f) ==
  /\ frames = <<>> /\ frames' = Append(frames, f)
  /\ valid_transaction(accounts[t.sender], t)
  /\ FrameOK(f) /\ Opens(charged(accounts, t), f, accounts')
  /\ f.sender = t.sender /\ f.value = t.value /\ f.kind # "DELEGATECALL"
  /\ f.kind = "CALL" /\ f.runs = "code" => f.snapshot[f.recipient].code # EmptyCode
  /\ tx' = t /\ start' = World(accounts) /\ txs' = txs + 1
  /\ UNCHANGED <<receipt, block, supply>>

(* A rejected transaction keeps the invariant.                             *)
LEMMA RejectStep ==
  ASSUME Consistent, NEW t \in Transactions, RejectTransaction(t)
  PROVE  Consistent'
<1>1. /\ frames = <<>> /\ tx' = t
      /\ UNCHANGED <<accounts, logs, frames, block, txs, ops, emitted, failed, supply>>
  BY DEF RejectTransaction, Between
<1> QED
  BY <1>1 DEF Consistent, depth

(* A valid transaction keeps the invariant and opens its message.          *)
LEMMA StartStep ==
  ASSUME Consistent, NEW t \in Transactions, StartTransaction(t)
  PROVE  Consistent' /\ \E f : Starts(t, f)
<1> DEFINE accs == charged(accounts, t)
           msg == build_message(t)
           to == AddressOf(accs, msg)
<1>1. /\ frames = <<>> /\ block = "open" /\ txs < MaxTransactions /\ txs' = txs + 1 /\ tx' = t
      /\ valid_transaction(accounts[t.sender], t)
      /\ is_create(t) => hashable(t.sender, accounts[t.sender].nonce, "CREATE", 0)
      /\ host_call(accs, msg) /\ ops' = 0 /\ emitted' = <<>> /\ start' = World(accounts)
      /\ UNCHANGED <<logs, receipt, block, supply>>
  BY DEF StartTransaction, Between
<1>2. /\ StackOK(frames, accounts, Len(logs)) /\ Good(accounts) /\ Covered(accounts) /\ Senders(accounts)
      /\ logs \in Seq(LogEntry) /\ Len(logs) \in Nat /\ ops \in Nat /\ depth = 0
      /\ txs' \in 0 .. MaxTransactions /\ txs' >= 1 /\ ops' \in 0 .. MaxOps
  BY <1>1, ParametersAssumption DEF Consistent, StackOK, depth
<1>3. /\ t.sender \in Address /\ t.value \in Nat /\ t.gas_limit \in Nat /\ compute_tx_intrinsic_cost(t) \in Nat \ {0}
      /\ t.to \in Address \cup {NoAddress}
  BY TransactionTypes
<1>4. accounts[t.sender] \in Account /\ accounts[t.sender].exists
  BY <1>2, <1>3 DEF Good, Senders
<1>5. /\ Good(accs) /\ Advanced(accounts, accs) /\ Covered(accs)
      /\ accs[t.sender].balance >= t.value
      /\ accs[t.sender].nonce = accounts[t.sender].nonce
  BY <1>1, <1>2, <1>3, ChargedMap
<1> HIDE DEF accs
<1>6. Priced(t)
  BY <1>1, <1>4, CostCovered
<1>7. /\ msg.kind = (IF is_create(t) THEN "CREATE" ELSE "CALL") /\ msg.sender = t.sender
      /\ msg.recipient = t.to /\ msg.code_address = t.to /\ msg.value = t.value /\ ~msg.static_mode
      /\ msg.static_mode \in BOOLEAN /\ msg.salt = 0 /\ msg.gas = t.gas_limit - compute_tx_intrinsic_cost(t)
  BY DEF build_message
<1>8. msg.gas \in Nat /\ msg.gas < t.gas_limit
  <2> DEFINE c == compute_tx_intrinsic_cost(t)
             g == t.gas_limit
  <2>1. ~(c > g)
    BY <1>1, ValidFacts
  <2>2. c \in Nat \ {0} /\ g \in Nat /\ msg.gas = g - c
    BY <1>3, <1>7
  <2> HIDE DEF c, g, msg
  <2>3. msg.gas \in Nat /\ msg.gas < g
    BY <2>1, <2>2
  <2> QED
    BY <2>3 DEF g
<1> HIDE DEF msg
<1>9. to \in Address
  <2>1. CASE is_create(t)
    <3>1. msg.kind = "CREATE" /\ msg.kind \in Creates
      BY <1>7, <2>1 DEF Creates
    <3>2. to = compute_new_account_address(t.sender, accounts[t.sender].nonce, "CREATE", 0)
      BY <1>5, <1>7, <3>1 DEF AddressOf
    <3> QED
      BY <1>1, <2>1, <3>2, NewAddress
  <2>2. CASE ~is_create(t)
    <3>1. to = t.to
      BY <1>7, <2>2, KindsDiffer DEF AddressOf
    <3> QED
      BY <1>3, <2>2, <3>1 DEF is_create
  <2> QED
    BY <2>1, <2>2
<1>10. msg.kind \in {"CALL"} \cup Creates /\ msg.kind # "DELEGATECALL" /\ (msg.kind = "CALL" => to = t.to)
  BY <1>7, KindsDiffer DEF Creates, AddressOf
<1>11. to = AddressOf(accs, msg)
  OBVIOUS
<1> HIDE DEF to
<1>12. accs[t.sender].exists
  BY <1>3, <1>4, <1>5 DEF Advanced, Kept, Grown
<1>13. Sendable(accs, msg, to)
  <2>1. MessageOK(accs, msg, to)
    BY <1>3, <1>5, <1>7, <1>9, <1>10, <1>12 DEF MessageOK
  <2> QED
    BY <1>1, <1>7, <1>8, <2>1 DEF Sendable
<1>14. ~nonce_exhausted(accs, msg)
  BY <1>1, <1>5, <1>7, ValidFacts DEF nonce_exhausted
<1>15. StackOK(frames, accs, Len(logs))
  <2>1. Len(logs) <= Len(logs)
    BY <1>2
  <2> QED
    BY <1>1, <1>2, <1>5, <2>1, StackGrow
<1>16. PICK f : OpenedFrame(accs, msg, to, f)
  BY <1>1, <1>2, <1>11, <1>13, <1>14, <1>15, HostCall
<1>17. /\ FrameOK(f) /\ Opens(accs, f, accounts') /\ f \in Frame
       /\ f.kind = msg.kind /\ f.sender = msg.sender /\ f.recipient = to /\ f.value = msg.value
       /\ f.gas = msg.gas
       /\ f.kind = "CALL" /\ f.runs = "code" => f.snapshot[msg.code_address].code # EmptyCode
       /\ frames' = Append(frames, f)
       /\ StackOK(frames', accounts', Len(logs'))
  BY <1>1, <1>16 DEF OpenedFrame, FrameOK
<1>18. Len(frames') = 1 /\ frames'[1] = f /\ frames' \in Seq(Frame)
  BY <1>1, <1>17
<1>19. Len(frames') <= CallDepthLimit + 1
  BY <1>18, ParametersAssumption
<1>20. Good(accounts') /\ Covered(accounts')
  BY <1>17 DEF StackOK
<1>21. emitted' \in Seq(LogEntry)
  BY <1>1
<1>22. Consistent'
  BY <1>1, <1>2, <1>6, <1>8, <1>17, <1>18, <1>19, <1>20, <1>21 DEF Consistent, depth
<1>23. Starts(t, f)
  BY <1>1, <1>7, <1>10, <1>17 DEF Starts, accs
<1> QED
  BY <1>22, <1>23

------------------------------------------------------------------------------
(* The end of a message and of a transaction.                              *)

(* Message f ended with result r, and new are the accounts after it.       *)
Ended(f, r, new) ==
  /\ Good(new) /\ Covered(new) /\ Senders(new)
  /\ r.gas_left \in 0 .. f.gas /\ RefundOK(r)
  /\ r.status = "SUCCESS" =>
       /\ Later(accounts, new) /\ SameBalances(accounts, new)
       /\ \A a \in Address : /\ new[a].nonce = accounts[a].nonce
                             /\ new[a].code # accounts[a].code =>
                                  f.runs # "failed" /\ f.kind \in Creates /\ f.recipient = a
  /\ r.status # "SUCCESS" => Advanced(f.snapshot, new) /\ SameWorld(f.snapshot, new)
  /\ Touched03 => new[addr_03].exists /\ new[addr_03].erasable

(* A prefix of the logs.                                                   *)
LEMMA ShorterLogs ==
  ASSUME NEW s \in Seq(LogEntry), NEW n \in Nat, n <= Len(s)
  PROVE  SubSeq(s, 1, n) \in Seq(LogEntry) /\ Len(SubSeq(s, 1, n)) = n
  OBVIOUS

(* No message is open.                                                     *)
LEMMA EmptyStack ==
  ASSUME NEW accs, NEW len, Good(accs), Covered(accs), Senders(accs)
  PROVE  StackOK(<<>>, accs, len)
<1>1. <<>> \in Seq(Frame) /\ Len(<<>>) = 0 /\ 1 .. 0 = {}
  OBVIOUS
<1> QED
  BY <1>1 DEF StackOK

(* What the end of a message does to accounts, logs and stack.             *)
LEMMA EndOfMessage ==
  ASSUME Consistent, frames # <<>>, NEW v \in vm_results(top), NEW r, r = checked_result(top, v)
  PROVE  /\ Ended(top, r, accounts_after(top, r))
         /\ logs_after(top, r) \in Seq(LogEntry)
         /\ StackOK(SubSeq(frames, 1, Len(frames) - 1), accounts_after(top, r), Len(logs_after(top, r)))
<1> DEFINE new == accounts_after(top, r)
           front == SubSeq(frames, 1, Len(frames) - 1)
<1>1. /\ frames \in Seq(Frame) /\ logs \in Seq(LogEntry) /\ Len(logs) \in Nat
      /\ StackOK(frames, accounts, Len(logs)) /\ Good(accounts) /\ Covered(accounts)
  BY DEF Consistent
<1>2. /\ top = frames[Len(frames)] /\ top \in Frame /\ Len(frames) \in 1 .. Len(frames)
      /\ FrameOK(top) /\ Under(top, accounts, Len(logs))
  BY <1>1, TopOfStack DEF top, depth, StackOK
<1>3. /\ r.gas_left \in 0 .. top.gas /\ RefundOK(r) /\ r.output \in Code
      /\ r.status = "SUCCESS" => top.runs # "failed"
  BY <1>2, CheckedResult
<1>4. top.recipient \in Address /\ addr_03 \in Address /\ top.logs_snapshot \in Nat
      /\ top.logs_snapshot <= Len(logs)
  BY <1>2, FrameTypes, AddressAssumption DEF Under
<1>5. CASE r.status = "SUCCESS"
  <2>1. logs_after(top, r) = logs
    BY <1>5 DEF logs_after
  <2>2. /\ Good(new) /\ StackOK(front, new, Len(logs)) /\ Later(accounts, new) /\ SameBalances(accounts, new)
        /\ \A a \in Address : /\ new[a].nonce = accounts[a].nonce
                              /\ new[a].code # accounts[a].code =>
                                   top.runs # "failed" /\ top.kind \in Creates /\ top.recipient = a
    <3>1. CASE top.kind \in Creates
      <4>1. new = WithCode(accounts, top.recipient, r.output)
        BY <1>5, <3>1 DEF accounts_after, WithCode
      <4>2. /\ StackOK(front, WithCode(accounts, top.recipient, r.output), Len(logs))
            /\ Good(WithCode(accounts, top.recipient, r.output))
            /\ Later(accounts, WithCode(accounts, top.recipient, r.output))
            /\ accounts[top.recipient].exists /\ accounts[top.recipient].code = EmptyCode
        <5> HIDE DEF new
        <5> QED
          BY <1>1, <1>2, <1>3, <1>5, <3>1, StackCode
      <4>3. \A b \in Address :
              /\ WithCode(accounts, top.recipient, r.output)[b].nonce = accounts[b].nonce
              /\ WithCode(accounts, top.recipient, r.output)[b].balance = accounts[b].balance
              /\ WithCode(accounts, top.recipient, r.output)[b].code =
                   IF b = top.recipient THEN r.output ELSE accounts[b].code
        BY <1>1, <1>3, <1>4, <4>2, CodeMap
      <4> HIDE DEF new
      <4> QED
        BY <1>3, <1>5, <3>1, <4>1, <4>2, <4>3 DEF SameBalances
    <3>2. CASE top.kind \notin Creates
      <4>1. new = accounts
        BY <1>5, <3>2 DEF accounts_after
      <4>2. StackOK(front, accounts, Len(logs))
        BY <1>1, StackPop
      <4>3. Later(accounts, accounts) /\ SameBalances(accounts, accounts)
        BY <1>1, AdvancedReflexive, AdvancedIsLater DEF SameBalances
      <4> HIDE DEF new, front
      <4> QED
        BY <1>1, <4>1, <4>2, <4>3
    <3> QED
      BY <3>1, <3>2
  <2> HIDE DEF new, front
  <2>3. Covered(new) /\ Senders(new)
    BY <2>2 DEF StackOK
  <2>4. Touched03 => new[addr_03].exists /\ new[addr_03].erasable
    BY <1>4, <2>2 DEF Touched03, Later, Grown
  <2>5. Ended(top, r, new)
    BY <1>3, <1>5, <2>2, <2>3, <2>4 DEF Ended
  <2> QED
    BY <1>1, <2>1, <2>2, <2>5 DEF new, front
<1>6. CASE r.status # "SUCCESS"
  <2>1. new = restored(top)
    BY <1>6 DEF accounts_after
  <2>2. logs_after(top, r) = SubSeq(logs, 1, top.logs_snapshot)
    BY <1>6 DEF logs_after
  <2>3. logs_after(top, r) \in Seq(LogEntry) /\ Len(logs_after(top, r)) = top.logs_snapshot
    <3> DEFINE n == top.logs_snapshot
    <3> HIDE DEF n
    <3>1. SubSeq(logs, 1, n) \in Seq(LogEntry) /\ Len(SubSeq(logs, 1, n)) = n
      BY <1>1, <1>4, ShorterLogs DEF n
    <3> QED
      BY <2>2, <3>1 DEF n
  <2>4. /\ Good(new) /\ Advanced(top.snapshot, new) /\ SameWorld(top.snapshot, new) /\ Covered(new)
        /\ Touched03 => new[addr_03].exists /\ new[addr_03].erasable
    BY <1>2, <2>1, RestoredMap
  <2>5. StackOK(front, top.snapshot, top.logs_snapshot)
    BY <1>1, <1>2, StackPop
  <2> HIDE DEF new, front
  <2>6. StackOK(front, new, top.logs_snapshot)
    <3>1. top.logs_snapshot <= top.logs_snapshot
      BY <1>4
    <3> QED
      BY <1>4, <2>4, <2>5, <3>1, StackGrow
  <2>7. Senders(new)
    BY <2>6 DEF StackOK
  <2>8. Ended(top, r, new)
    BY <1>3, <1>6, <2>4, <2>7 DEF Ended
  <2> QED
    BY <2>3, <2>6, <2>8 DEF new, front
<1> QED
  BY <1>5, <1>6

(* The return into the calling message keeps the invariant.                *)
LEMMA ReturnStep ==
  ASSUME Consistent, frames # <<>>, NEW v \in vm_results(top), return_to_caller(v)
  PROVE  Consistent'
<1> DEFINE r == checked_result(top, v)
<1>1. /\ depth > 1 /\ accounts' = accounts_after(top, r) /\ logs' = logs_after(top, r)
      /\ frames' = SubSeq(frames, 1, depth - 1)
      /\ UNCHANGED <<tx, receipt, block, txs, ops, emitted, start, supply>>
  BY DEF return_to_caller
<1>2. /\ frames \in Seq(Frame) /\ depth = Len(frames) /\ depth <= CallDepthLimit + 1 /\ CallDepthLimit \in Nat
      /\ block = "open" /\ Priced(tx) /\ frames[1].gas < tx.gas_limit /\ txs >= 1
  BY ParametersAssumption DEF Consistent, depth
<1> HIDE DEF r
<1>3. /\ Ended(top, r, accounts') /\ logs' \in Seq(LogEntry)
      /\ StackOK(frames', accounts', Len(logs'))
  BY <1>1, <1>2, EndOfMessage DEF r
<1>4. /\ frames' \in Seq(Frame) /\ Len(frames') = Len(frames) - 1 /\ frames'[1] = frames[1]
  <2>1. 1 \in 1 .. Len(frames) - 1
    BY <1>1, <1>2
  <2> QED
    BY <1>1, <1>2, <2>1, FrontOfStack
<1>5. Len(frames') <= CallDepthLimit + 1
  BY <1>2, <1>4
<1>6. Good(accounts') /\ Covered(accounts')
  BY <1>3 DEF Ended
<1> QED
  BY <1>1, <1>2, <1>3, <1>4, <1>5, <1>6 DEF Consistent, depth

(* The transaction ended with result r and used gas g; accs are the        *)
(* accounts after its message.                                             *)
Ends(r, g, accs) ==
  /\ Ended(frames[1], r, accs) /\ g \in Nat \ {0}
  /\ txs = 1 \/ r.status # "SUCCESS" => g <= tx.gas_limit
  /\ accounts' = settled(accs, g) /\ supply' = supply - g * base_fee
  /\ receipt'.status = r.status /\ receipt'.gas_used = g
  /\ frames' = <<>> /\ UNCHANGED <<tx, block, txs, start>>

(* The end of a transaction keeps the invariant, unless the transaction is *)
(* charged more than its sender has; its gas is within the limit when it   *)
(* fails or is the first of the block.                                     *)
LEMMA EndStep ==
  ASSUME Consistent, frames # <<>>, NEW v \in vm_results(top), EndTransaction(v)
  PROVE  (Consistent' \/ Overcharged') /\ \E r, g, accs : Ends(r, g, accs)
<1> DEFINE r == checked_result(top, v)
           accs == accounts_after(top, r)
           g == gas_used_by(r)
<1>1. /\ depth = 1 /\ accounts' = settled(accs, g)
      /\ receipt' = [status |-> r.status, gas_used |-> g, logs |-> logs_after(top, r)]
      /\ supply' = supply - g * base_fee
      /\ frames' = <<>> /\ logs' = <<>> /\ UNCHANGED <<tx, block, txs, ops, emitted, start>>
  BY DEF EndTransaction
<1>2. /\ frames \in Seq(Frame) /\ depth = Len(frames) /\ depth <= CallDepthLimit + 1
      /\ block = "open" /\ Priced(tx) /\ frames[1].gas < tx.gas_limit /\ tx \in Transactions
      /\ top = frames[1] /\ txs >= 1 /\ txs \in 0 .. MaxTransactions /\ MaxTransactions \in Nat
  BY <1>1, ParametersAssumption DEF Consistent, depth, top
<1>3. receipt'.status = r.status /\ receipt'.gas_used = g
  BY <1>1
<1> HIDE DEF r
<1>4. Ended(top, r, accs)
  BY EndOfMessage DEF r
<1>5. Good(accs) /\ Covered(accs) /\ Senders(accs) /\ r.gas_left \in 0 .. top.gas /\ RefundOK(r)
  BY <1>4 DEF Ended
<1>6. g \in Nat \ {0} /\ (txs = 1 \/ r.status # "SUCCESS" => g <= tx.gas_limit)
  <2> DEFINE left == r.gas_left
             limit == tx.gas_limit
             refund == r.gas_refund
  <2>1. left \in Nat /\ limit \in Nat /\ refund \in Int /\ left < limit
    <3>1. top \in Frame /\ top.gas \in Nat
      BY <1>1, <1>2, TopOfStack, FrameTypes
    <3>2. tx.gas_limit \in Nat
      BY <1>2, TransactionTypes
    <3> QED
      BY <1>2, <1>5, <3>1, <3>2 DEF RefundOK
  <2>2. g = (limit - left) - min(refund, (limit - left) \div 5)
    BY DEF gas_used_by
  <2>3. txs = 1 \/ r.status # "SUCCESS" => refund >= 0
    BY <1>5 DEF RefundOK
  <2> HIDE DEF g, left, limit, refund
  <2>4. g \in Nat \ {0} /\ (refund >= 0 => g <= limit)
    BY <2>1, <2>2, GasUsed
  <2> QED
    BY <2>3, <2>4 DEF limit
<1> HIDE DEF accs, g
<1>7. Good(accounts') /\ Advanced(accs, accounts') /\ Bounded(accounts', tx, g)
  BY <1>1, <1>2, <1>5, <1>6, SettledMap
<1>8. Senders(accounts')
  BY <1>5, <1>7, AdvancedIsLater, SendersKept
<1>9. /\ frames' \in Seq(Frame) /\ logs' \in Seq(LogEntry) /\ Len(frames') = 0
      /\ tx' \in Transactions /\ block' = "open" /\ txs' \in 0 .. MaxTransactions
      /\ ops' \in 0 .. MaxOps /\ emitted' \in Seq(LogEntry)
  BY <1>1, <1>2 DEF Consistent
<1>10. ASSUME Covered(accounts')
       PROVE  Consistent'
  <2>1. StackOK(frames', accounts', Len(logs'))
    BY <1>1, <1>7, <1>8, <1>10, EmptyStack
  <2> QED
    BY <1>1, <1>7, <1>9, <1>10, <2>1, ParametersAssumption DEF Consistent, depth
<1>11. ASSUME ~Covered(accounts')
       PROVE  Overcharged'
  <2>1. PICK a \in Address : ~(accounts'[a].balance >= 0)
    BY <1>11 DEF Covered
  <2>2. g > tx.gas_limit
    BY <1>7, <2>1 DEF Bounded
  <2>3. txs' > 1
    <3>1. txs # 1
      BY <1>2, <1>6, <2>2, TransactionTypes
    <3> QED
      BY <1>1, <1>2, <3>1
  <2>4. overdrawn'
    <3>1. accounts'[a].balance \in Int
      BY <1>7, AccountTypes DEF Good
    <3> QED
      BY <2>1, <3>1 DEF overdrawn
  <2>5. Bounded(accounts', tx', receipt'.gas_used)
    BY <1>1, <1>3, <1>7
  <2> QED
    BY <1>1, <1>7, <1>9, <2>3, <2>4, <2>5 DEF Overcharged
<1>12. Ends(r, g, accs)
  BY <1>1, <1>2, <1>3, <1>4, <1>6 DEF Ends
<1> QED
  BY <1>10, <1>11, <1>12

------------------------------------------------------------------------------
(* The end of the block.                                                   *)

(* The withdrawals of an address.                                          *)
Mine(w, a) == {i \in DOMAIN w : w[i].recipient = a}
Amounts(w, a) == [i \in Mine(w, a) |-> get_amount(w[i])]

(* The fold over the withdrawals of an address is their sum.               *)
LEMMA AmountIsSum ==
  ASSUME NEW w, NEW b, IsFiniteSet(Mine(w, b))
  PROVE  amounts(w, b) = SumOver(Mine(w, b), Amounts(w, b))
<1> DEFINE S == Mine(w, b)
           h == Amounts(w, b)
           E(q) == [s \in SUBSET S |-> IF s = {} THEN 0
                      ELSE get_amount(w[CHOOSE a \in s : TRUE]) + q[s \ {CHOOSE a \in s : TRUE}]]
           it == CHOOSE q : q = E(q)
<1>1. amounts(w, b) = it[S]
  BY DEF amounts, MapThenFoldSet, Mine
<1> HIDE DEF S
<1>2. IsFiniteSet(S)
  BY DEF S
<1>3. PICK g : Sums(g, h, S)
  BY <1>2, SumsExist
<1>4. ASSUME NEW q PROVE Sums(q, h, S) <=> q = E(q)
  <2>1. ASSUME NEW s \in SUBSET S
        PROVE  SumOf(q, h, s) = IF s = {} THEN 0
                      ELSE get_amount(w[CHOOSE a \in s : TRUE]) + q[s \ {CHOOSE a \in s : TRUE}]
    <3>1. CASE s = {}
      BY <3>1 DEF SumOf
    <3>2. CASE s # {}
      <4>1. Pick(s) \in S
        BY <3>2, PickMember
      <4>2. h[Pick(s)] = get_amount(w[Pick(s)])
        BY <4>1 DEF Amounts, S
      <4> HIDE DEF h
      <4> QED
        BY <3>2, <4>2 DEF SumOf, Pick
    <3> QED
      BY <3>1, <3>2
  <2> HIDE DEF h
  <2>2. [s \in SUBSET S |-> SumOf(q, h, s)] = E(q)
    BY <2>1
  <2> HIDE DEF E
  <2> QED
    BY <2>2 DEF Sums
<1>5. it = E(it)
  <2> HIDE DEF E, h
  <2>1. \E q : q = E(q)
    BY <1>3, <1>4
  <2> QED
    BY <2>1, Zenon
<1> HIDE DEF it, E, h
<1>6. Sums(it, h, S)
  BY <1>4, <1>5
<1> QED
  BY <1>1, <1>2, <1>6, SumOverSums DEF h, S

(* Amounts of withdrawals are numbers, recipients are addresses.           *)
LEMMA AmountType ==
  ASSUME NEW w \in Withdrawals, NEW a
  PROVE  amounts(w, a) \in Nat /\ recipients(w) \subseteq Address
<1>1. w \in Seq([recipient : Address, amount_in_gplanck : Nat])
  BY ParametersAssumption
<1>2. /\ DOMAIN w = 1 .. Len(w) /\ Len(w) \in Nat
      /\ \A i \in DOMAIN w : w[i] \in [recipient : Address, amount_in_gplanck : Nat]
  <2> DEFINE R == [recipient : Address, amount_in_gplanck : Nat]
  <2>1. w \in Seq(R)
    BY <1>1
  <2> HIDE DEF R
  <2>2. DOMAIN w = 1 .. Len(w) /\ Len(w) \in Nat /\ \A i \in DOMAIN w : w[i] \in R
    BY <2>1
  <2> QED
    BY <2>2 DEF R
<1>3. IsFiniteSet(1 .. Len(w))
  BY <1>2, FS_Interval
<1>4. Mine(w, a) \subseteq 1 .. Len(w)
  BY <1>2 DEF Mine
<1>5. IsFiniteSet(Mine(w, a))
  BY <1>3, <1>4, FS_Subset
<1>6. \A i \in Mine(w, a) : Amounts(w, a)[i] \in Nat
  <2> TAKE i \in Mine(w, a)
  <2>1. w[i].amount_in_gplanck \in Nat
    BY <1>2 DEF Mine
  <2>2. gplanck \in Nat
    BY BlockAssumption
  <2>3. get_amount(w[i]) \in Nat
    <3> DEFINE x == w[i].amount_in_gplanck
    <3> HIDE DEF x
    <3>1. x * gplanck \in Nat
      BY <2>1, <2>2 DEF x
    <3> QED
      BY <3>1 DEF get_amount, x
  <2> QED
    BY <2>3 DEF Amounts
<1>7. amounts(w, a) \in Nat
  BY <1>5, <1>6, AmountIsSum, SumOverType
<1>8. recipients(w) \subseteq Address
  BY <1>2 DEF recipients
<1> QED
  BY <1>7, <1>8

(* A withdrawal adds to the balance of one account.                        *)
LEMMA WithdrawnEntry ==
  ASSUME NEW x, Entry(x), x.balance >= 0, NEW v \in Nat
  PROVE  /\ Entry([touch(x) EXCEPT !.balance = @ + v])
         /\ [touch(x) EXCEPT !.balance = @ + v].balance = x.balance + v
         /\ [touch(x) EXCEPT !.balance = @ + v].nonce = x.nonce
         /\ [touch(x) EXCEPT !.balance = @ + v].code = x.code
         /\ [touch(x) EXCEPT !.balance = @ + v].storage = x.storage
<1> DEFINE y == touch(x)
<1>1. Entry(y) /\ y.exists /\ SameContents(x, y) /\ y.balance \in Int
  BY TouchEntry, AccountTypes DEF Entry
<1> HIDE DEF y
<1>2. y.balance + v \in Int
  BY <1>1
<1> DEFINE u == y.balance + v
           z == [y EXCEPT !.balance = u]
<1>3. /\ Entry(z) /\ z.balance = u /\ z.nonce = y.nonce /\ z.storage = y.storage /\ z.code = y.code
  <2>1. u \in Int
    BY <1>2
  <2> HIDE DEF u
  <2> QED
    BY <1>1, <2>1, FieldUpdates
<1>4. z = [y EXCEPT !.balance = @ + v]
  OBVIOUS
<1> HIDE DEF z
<1> QED
  BY <1>1, <1>3, <1>4 DEF y, SameContents

ErasedEntry(x) == IF x.erasable /\ is_empty(x) THEN NoAccount ELSE x
PaidEntry(x, v) == [touch(x) EXCEPT !.balance = @ + v]

(* No data is lost that belongs to a contract, and withdrawals are paid.   *)
LEMMA FinalMap ==
  ASSUME NEW accs, Good(accs), Covered(accs), NEW w \in Withdrawals
  PROVE  /\ Good(withdrawn(erased(accs), w)) /\ Covered(withdrawn(erased(accs), w))
         /\ \A a \in Address :
              /\ withdrawn(erased(accs), w)[a].balance =
                   accs[a].balance + (IF a \in recipients(w) THEN amounts(w, a) ELSE 0)
              /\ withdrawn(erased(accs), w)[a].nonce = accs[a].nonce
              /\ withdrawn(erased(accs), w)[a].code = accs[a].code
              /\ withdrawn(erased(accs), w)[a].storage = accs[a].storage \/ accs[a].code = EmptyCode
<1> DEFINE new == withdrawn(erased(accs), w)
<1>1. ASSUME NEW a \in Address
      PROVE  new[a] = IF a \in recipients(w) THEN PaidEntry(ErasedEntry(accs[a]), amounts(w, a))
                      ELSE ErasedEntry(accs[a])
  <2>1. erased(accs)[a] = ErasedEntry(accs[a])
    BY DEF erased, ErasedEntry
  <2> QED
    BY <2>1 DEF withdrawn, PaidEntry
<1>2. new \in [Address -> {new[a] : a \in Address}] /\ new = [a \in Address |-> new[a]]
  BY DEF withdrawn
<1> HIDE DEF new
<1>3. ASSUME NEW a \in Address
      PROVE  /\ Entry(ErasedEntry(accs[a])) /\ ErasedEntry(accs[a]).balance = accs[a].balance
             /\ ErasedEntry(accs[a]).nonce = accs[a].nonce /\ ErasedEntry(accs[a]).code = accs[a].code
             /\ ErasedEntry(accs[a]).storage = accs[a].storage \/ accs[a].code = EmptyCode
             /\ accs[a].balance \in Int /\ accs[a].balance >= 0
  <2>1. Entry(accs[a]) /\ accs[a].balance \in Int /\ accs[a].balance >= 0
    BY AccountTypes DEF Good, Covered, Entry
  <2>2. CASE accs[a].erasable /\ is_empty(accs[a])
    <3>1. ErasedEntry(accs[a]) = NoAccount
      BY <2>2 DEF ErasedEntry
    <3>2. accs[a].code = EmptyCode /\ accs[a].nonce = 0 /\ accs[a].balance = 0
      BY <2>2 DEF is_empty
    <3> QED
      BY <2>1, <3>1, <3>2, NoAccountType DEF NoAccount
  <2>3. CASE ~(accs[a].erasable /\ is_empty(accs[a]))
    BY <2>1, <2>3 DEF ErasedEntry
  <2> QED
    BY <2>2, <2>3
<1>4. ASSUME NEW a \in Address
      PROVE  /\ Entry(new[a]) /\ new[a].balance >= 0
             /\ new[a].balance = accs[a].balance + (IF a \in recipients(w) THEN amounts(w, a) ELSE 0)
             /\ new[a].nonce = accs[a].nonce /\ new[a].code = accs[a].code
             /\ new[a].storage = accs[a].storage \/ accs[a].code = EmptyCode
  <2> DEFINE x == ErasedEntry(accs[a])
             v == amounts(w, a)
  <2>1. v \in Nat
    BY AmountType
  <2>2. Entry(x) /\ x.balance = accs[a].balance /\ x.balance >= 0 /\ x.balance \in Int
        /\ x.nonce = accs[a].nonce /\ x.code = accs[a].code
        /\ (x.storage = accs[a].storage \/ accs[a].code = EmptyCode)
    BY <1>3
  <2>3. new[a] = IF a \in recipients(w) THEN PaidEntry(x, v) ELSE x
    BY <1>1
  <2> HIDE DEF x, v
  <2>4. /\ Entry(PaidEntry(x, v)) /\ PaidEntry(x, v).balance = x.balance + v
        /\ PaidEntry(x, v).nonce = x.nonce /\ PaidEntry(x, v).code = x.code
        /\ PaidEntry(x, v).storage = x.storage
    BY <2>1, <2>2, WithdrawnEntry DEF PaidEntry
  <2>5. CASE a \in recipients(w)
    BY <2>1, <2>2, <2>3, <2>4, <2>5 DEF v
  <2>6. CASE a \notin recipients(w)
    BY <2>2, <2>3, <2>6
  <2> QED
    BY <2>5, <2>6
<1>5. Good(new)
  <2>1. \A a \in Address : new[a] \in Account
    BY <1>4 DEF Entry
  <2>2. new \in [Address -> Account]
    BY <1>2, <2>1
  <2> QED
    BY <1>4, <2>2 DEF Good
<1> QED
  BY <1>4, <1>5 DEF Covered, new

(* The end of the block keeps the invariant.                               *)
LEMMA FinalizeStep ==
  ASSUME Consistent, NEW w \in Withdrawals, Finalize(w)
  PROVE  Consistent'
<1>1. /\ frames = <<>> /\ block' = "final" /\ accounts' = withdrawn(erased(accounts), w)
      /\ UNCHANGED <<logs, frames, tx, receipt, txs, ops, emitted, failed>>
  BY DEF Finalize
<1>2. Good(accounts') /\ Covered(accounts')
  BY <1>1, FinalMap DEF Consistent
<1> QED
  BY <1>1, <1>2 DEF Consistent, depth

(* The sum of what was withdrawn.                                          *)
Paid(w) == [a \in recipients(w) |-> amounts(w, a)]

(* The fold over all recipients is the sum of what they get.               *)
LEMMA WithdrawnTotal ==
  ASSUME NEW w \in Withdrawals
  PROVE  /\ MapThenFoldSet(+, 0, LAMBDA a : amounts(w, a), LAMBDA s : CHOOSE a \in s : TRUE, recipients(w))
              = SumOver(recipients(w), Paid(w))
         /\ IsFiniteSet(recipients(w))
<1> DEFINE S == recipients(w)
           h == Paid(w)
           E(q) == [s \in SUBSET S |-> IF s = {} THEN 0
                      ELSE amounts(w, CHOOSE a \in s : TRUE) + q[s \ {CHOOSE a \in s : TRUE}]]
           it == CHOOSE q : q = E(q)
<1>1. MapThenFoldSet(+, 0, LAMBDA a : amounts(w, a), LAMBDA s : CHOOSE a \in s : TRUE, recipients(w)) = it[S]
  BY DEF MapThenFoldSet
<1>0. S \subseteq Address
  BY AmountType
<1> HIDE DEF S
<1>2. IsFiniteSet(S)
  BY <1>0, AddressAssumption, FS_Subset
<1>3. PICK g : Sums(g, h, S)
  BY <1>2, SumsExist
<1>4. ASSUME NEW q PROVE Sums(q, h, S) <=> q = E(q)
  <2>1. ASSUME NEW s \in SUBSET S
        PROVE  SumOf(q, h, s) = IF s = {} THEN 0
                      ELSE amounts(w, CHOOSE a \in s : TRUE) + q[s \ {CHOOSE a \in s : TRUE}]
    <3>1. CASE s = {}
      BY <3>1 DEF SumOf
    <3>2. CASE s # {}
      <4>1. Pick(s) \in S
        BY <3>2, PickMember
      <4>2. h[Pick(s)] = amounts(w, Pick(s))
        BY <4>1 DEF Paid, S
      <4> HIDE DEF h
      <4> QED
        BY <3>2, <4>2 DEF SumOf, Pick
    <3> QED
      BY <3>1, <3>2
  <2> HIDE DEF h
  <2>2. [s \in SUBSET S |-> SumOf(q, h, s)] = E(q)
    BY <2>1
  <2> HIDE DEF E
  <2> QED
    BY <2>2 DEF Sums
<1>5. it = E(it)
  <2> HIDE DEF E, h
  <2>1. \E q : q = E(q)
    BY <1>3, <1>4
  <2> QED
    BY <2>1, Zenon
<1> HIDE DEF it, E, h
<1>6. Sums(it, h, S)
  BY <1>4, <1>5
<1>7. it[S] = SumOver(S, h)
  BY <1>2, <1>6, SumOverSums
<1> QED
  BY <1>1, <1>2, <1>7 DEF h, S

------------------------------------------------------------------------------
(* The invariant holds, and what follows from it.                          *)

(* The invariant holds in the state that was loaded.                       *)
LEMMA InitConsistent ==
  ASSUME Init
  PROVE  Consistent
<1>1. /\ accounts \in Genesis /\ logs = <<>> /\ frames = <<>> /\ tx = CHOOSE t \in Transactions : TRUE
      /\ block = "open" /\ txs = 0 /\ ops = 0 /\ emitted = <<>>
  BY DEF Init
<1>2. tx \in Transactions
  BY <1>1, TransactionsAssumption
<1>3. Good(accounts) /\ Covered(accounts) /\ Senders(accounts)
  BY <1>1, GenesisAssumption DEF Good, Covered, Senders, Entry
<1>4. StackOK(<<>>, accounts, Len(logs))
  BY <1>3, EmptyStack
<1>5. depth <= CallDepthLimit + 1 /\ txs \in 0 .. MaxTransactions /\ ops \in 0 .. MaxOps
      /\ logs \in Seq(LogEntry) /\ emitted \in Seq(LogEntry) /\ frames \in Seq(Frame)
  BY <1>1, ParametersAssumption DEF depth
<1> QED
  BY <1>1, <1>2, <1>3, <1>4, <1>5 DEF Consistent

(* What a step can be.                                                     *)
LEMMA StepCases ==
  ASSUME Consistent, Next
  PROVE  \/ \E t \in Transactions : RejectTransaction(t) \/ StartTransaction(t)
         \/ Consistent' /\ (Works \/ \E f : Sends(f))
         \/ frames # <<>> /\ \E v \in vm_results(top) : return_to_caller(v) \/ EndTransaction(v)
         \/ \E w \in Withdrawals : Finalize(w)
<1>1. CASE \E t \in Transactions : RejectTransaction(t) \/ StartTransaction(t)
  BY <1>1
<1>2. CASE \E op \in {"CALL", "STATICCALL", "DELEGATECALL"}, dst \in Targets, value \in Values, gas \in CallGas :
             call_impl(op, dst, value, gas)
  BY <1>2, CallStep
<1>3. CASE \E op \in Creates, endowment \in Values, salt \in Salt, gas \in CallGas :
             create_impl(op, endowment, salt, gas)
  BY <1>3, CreateStep
<1>4. CASE \E value \in {0, 1} : set_storage(value)
  BY <1>4, SetStorageStep
<1>5. CASE emit_log
  BY <1>5, EmitLogStep
<1>6. CASE \E a \in Targets : look_at(a)
  BY <1>6, LookAtStep
<1>7. CASE \E r \in (IF frames = <<>> THEN {} ELSE vm_results(top)) : return_to_caller(r) \/ EndTransaction(r)
  BY <1>7
<1>8. CASE \E w \in Withdrawals : Finalize(w)
  BY <1>8
<1> QED
  BY <1>1, <1>2, <1>3, <1>4, <1>5, <1>6, <1>7, <1>8 DEF Next

(* Every step keeps the invariant, or ends the block.                      *)
LEMMA NextConsistent ==
  ASSUME Consistent, [Next]_vars
  PROVE  Consistent' \/ Overcharged'
<1>1. CASE Next
  <2>1. CASE \E t \in Transactions : RejectTransaction(t) \/ StartTransaction(t)
    BY <2>1, RejectStep, StartStep
  <2>2. CASE frames # <<>> /\ \E v \in vm_results(top) : return_to_caller(v) \/ EndTransaction(v)
    BY <2>2, ReturnStep, EndStep
  <2>3. CASE \E w \in Withdrawals : Finalize(w)
    BY <2>3, FinalizeStep
  <2> QED
    BY <1>1, <2>1, <2>2, <2>3, StepCases
<1>2. CASE UNCHANGED vars
  BY <1>2 DEF vars, Consistent, depth
<1> QED
  BY <1>1, <1>2

(* No step follows where a sender was charged more than there was.         *)
LEMMA OverchargedStays ==
  ASSUME Overcharged, [Next]_vars
  PROVE  UNCHANGED vars
<1>1. frames = <<>> /\ overdrawn /\ ~Running /\ ~Between
  BY DEF Overcharged, Running, Between
<1>2. ASSUME Next PROVE FALSE
  BY <1>1, <1>2 DEF Next, RejectTransaction, StartTransaction, call_impl, create_impl, set_storage, emit_log,
                    look_at, Finalize
<1> QED
  BY <1>2

(* A state before the end of the block, or one where it cannot go on.      *)
Reachable == Consistent \/ Overcharged

(* The inductive invariant: every open message of transition() and         *)
(* Host::call stands on a snapshot from which nothing has been taken back. *)
THEOREM ConsistentAlways == Spec => []Reachable
<1>1. Init => Reachable
  BY InitConsistent DEF Reachable
<1>2. Reachable /\ [Next]_vars => Reachable'
  <2> SUFFICES ASSUME Reachable, [Next]_vars PROVE Reachable'
    OBVIOUS
  <2>1. CASE Consistent
    BY <2>1, NextConsistent DEF Reachable
  <2>2. CASE Overcharged
    <3>1. UNCHANGED vars
      BY <2>2, OverchargedStays
    <3>2. Overcharged'
      BY <2>2, <3>1 DEF vars, Overcharged, overdrawn
    <3> QED
      BY <3>2 DEF Reachable
  <2> QED
    BY <2>1, <2>2 DEF Reachable
<1> QED
  BY <1>1, <1>2, PTL DEF Spec

(* What the invariant says of one open message.                            *)
LEMMA ConsistentFrames ==
  ASSUME Consistent, NEW k \in 1 .. depth
  PROVE  /\ frames # <<>> /\ Len(frames) = depth /\ depth \in Nat
         /\ StackOK(frames, accounts, Len(logs)) /\ frames[k] \in Frame
         /\ FrameOK(frames[k]) /\ Under(frames[k], accounts, Len(logs))
<1>1. frames \in Seq(Frame) /\ depth = Len(frames) /\ frames # <<>>
  BY DEF Consistent, depth
<1>2. StackOK(frames, accounts, Len(logs))
  BY <1>1 DEF Consistent
<1> QED
  BY <1>1, <1>2 DEF StackOK

(* Types: nonces stay in range, absent accounts have no data, only the     *)
(* innermost message runs, the depth limit holds, and the accounts of open *)
(* messages exist, after a snapshot came back too.                         *)
THEOREM TypesCorrect == Spec => []TypeOK
<1>1. Consistent => TypeOK
  <2> SUFFICES ASSUME Consistent PROVE TypeOK
    OBVIOUS
  <2>1. /\ accounts \in [Address -> Account]
        /\ \A a \in Address : ~accounts[a].exists => accounts[a] = NoAccount
    BY DEF Consistent, Good, Entry
  <2>2. ASSUME NEW k \in 1 .. depth - 1 PROVE frames[k].runs = "code"
    <3>1. frames \in Seq(Frame) /\ depth = Len(frames) /\ frames # <<>> /\ depth \in Nat
      BY DEF Consistent, depth
    <3>2. k \in 1 .. Len(frames) /\ Len(frames) \in 1 .. Len(frames) /\ k < Len(frames)
      BY <3>1
    <3>3. StackOK(frames, accounts, Len(logs))
      BY <3>2, ConsistentFrames DEF depth
    <3> QED
      BY <3>2, <3>3 DEF StackOK
  <2>3. AccountsInUseExist
    <3> SUFFICES ASSUME NEW k \in 1 .. depth
                 PROVE  /\ accounts[frames[k].sender].exists
                        /\ frames[k].runs # "failed" => accounts[frames[k].recipient].exists
                        /\ accounts[tx.sender].exists
      BY DEF AccountsInUseExist
    <3>1. Under(frames[k], accounts, Len(logs)) /\ Senders(accounts)
      BY ConsistentFrames DEF StackOK
    <3> QED
      BY <3>1 DEF Under, Senders, Consistent
  <2> QED
    BY <2>1, <2>2, <2>3 DEF Consistent, TypeOK
<1>2. Overcharged => TypeOK
  <2> SUFFICES ASSUME Overcharged PROVE TypeOK
    OBVIOUS
  <2>1. /\ accounts \in [Address -> Account]
        /\ \A a \in Address : ~accounts[a].exists => accounts[a] = NoAccount
    BY DEF Overcharged, Good, Entry
  <2>2. depth = 0 /\ 1 .. depth = {} /\ 1 .. depth - 1 = {} /\ frames \in Seq(Frame)
    BY DEF Overcharged, depth
  <2>3. depth <= CallDepthLimit + 1
    BY <2>2, ParametersAssumption
  <2> QED
    BY <2>1, <2>2, <2>3 DEF Overcharged, TypeOK, AccountsInUseExist
<1>3. Reachable => TypeOK
  BY <1>1, <1>2 DEF Reachable
<1> QED
  BY <1>3, ConsistentAlways, PTL

(* No balance is overdrawn by the prepayment, a transfer or an endowment,  *)
(* and none by the end of a transaction but the sender's, when it is not   *)
(* the first of its block and is charged beyond its gas limit: then by no  *)
(* more than that gas costs.                                               *)
THEOREM OverdraftBounded == Spec => []BalancesCovered
<1>1. Consistent => BalancesCovered
  BY DEF Consistent, Covered, BalancesCovered
<1>2. Overcharged => BalancesCovered
  BY DEF Overcharged, Bounded, BalancesCovered
<1>3. Reachable => BalancesCovered
  BY <1>1, <1>2 DEF Reachable
<1> QED
  BY <1>3, ConsistentAlways, PTL

(* Where no message is open there is nothing to show.                      *)
LEMMA OverchargedStack ==
  ASSUME Overcharged
  PROVE  1 .. depth = {}
  BY DEF Overcharged, depth

(* No address is entered by a second creation while one is open on it.     *)
THEOREM CreationsApart == Spec => []OneCreationPerAddress
<1>1. Consistent => OneCreationPerAddress
  <2> SUFFICES ASSUME Consistent, NEW j \in 1 .. depth, NEW k \in 1 .. depth, j < k,
                      frames[j].kind \in Creates, frames[k].kind \in Creates, frames[k].runs # "failed"
               PROVE  frames[j].recipient # frames[k].recipient
    BY DEF OneCreationPerAddress
  <2>1. /\ StackOK(frames, accounts, Len(logs)) /\ depth = Len(frames)
        /\ FrameOK(frames[j]) /\ FrameOK(frames[k])
    BY ConsistentFrames
  <2>2. frames[j].runs = "code" /\ Under(frames[j], frames[k].snapshot, frames[k].logs_snapshot)
    BY <2>1 DEF StackOK
  <2>3. /\ frames[k].snapshot[frames[j].recipient].nonce # 0
        /\ frames[k].snapshot[frames[j].recipient].exists
    BY <2>2 DEF Under
  <2>4. ~collision(frames[k].snapshot[frames[k].recipient])
    BY <2>1 DEF FrameOK
  <2> QED
    BY <2>3, <2>4 DEF collision
<1>2. Overcharged => OneCreationPerAddress
  BY OverchargedStack DEF OneCreationPerAddress
<1>3. Reachable => OneCreationPerAddress
  BY <1>1, <1>2 DEF Reachable
<1> QED
  BY <1>3, ConsistentAlways, PTL

(* A contract keeps its code as long as a message is open that found it.   *)
THEOREM CodeStays == Spec => []CodeNeverReplaced
<1>1. Consistent => CodeNeverReplaced
  <2> SUFFICES ASSUME Consistent, NEW k \in 1 .. depth, NEW a \in Address,
                      frames[k].snapshot[a].code # EmptyCode
               PROVE  accounts[a].code = frames[k].snapshot[a].code
    BY DEF CodeNeverReplaced
  <2> QED
    BY ConsistentFrames DEF Under, Later, Grown
<1>2. Overcharged => CodeNeverReplaced
  BY OverchargedStack DEF CodeNeverReplaced
<1>3. Reachable => CodeNeverReplaced
  BY <1>1, <1>2 DEF Reachable
<1> QED
  BY <1>3, ConsistentAlways, PTL

(* Neither a static message nor any message under it changes the world or  *)
(* logs.                                                                   *)
THEOREM StaticIsStatic == Spec => []StaticMessagesChangeNothing
<1>1. Consistent => StaticMessagesChangeNothing
  <2> SUFFICES ASSUME Consistent, NEW k \in 1 .. depth, frames[k].static_mode
               PROVE  World(accounts) = World(frames[k].snapshot) /\ Len(logs) = frames[k].logs_snapshot
    BY DEF StaticMessagesChangeNothing
  <2>1. SameWorld(frames[k].snapshot, accounts) /\ frames[k].logs_snapshot = Len(logs)
    BY ConsistentFrames DEF Under
  <2> QED
    BY <2>1, SameWorlds
<1>2. Overcharged => StaticMessagesChangeNothing
  BY OverchargedStack DEF StaticMessagesChangeNothing
<1>3. Reachable => StaticMessagesChangeNothing
  BY <1>1, <1>2 DEF Reachable
<1> QED
  BY <1>3, ConsistentAlways, PTL

------------------------------------------------------------------------------
(* Conservation of value.                                                  *)

(* A failure brings back accounts of the same sum.                         *)
Balanced ==
  /\ ValueConserved
  /\ \A k \in 1 .. depth : TotalBalance(frames[k].snapshot) + tx_max_cost(tx) = supply

(* Opening a message keeps the sum of balances.                            *)
LEMMA OpensTotals ==
  ASSUME NEW accs, NEW f, NEW new, Good(accs), FrameOK(f), Opens(accs, f, new)
  PROVE  TotalBalance(f.snapshot) = TotalBalance(accs) /\ TotalBalance(new) = TotalBalance(accs)
<1>1. /\ SameBalances(accs, f.snapshot) /\ Good(f.snapshot)
      /\ SameBalances(f.snapshot, new) \/ Moved(f.snapshot, new, f.sender, f.recipient, f.value)
      /\ f.sender \in Address /\ f.recipient \in Address /\ f.value \in Nat
  BY FrameTypes DEF Opens, FrameOK
<1>2. TotalBalance(f.snapshot) = TotalBalance(accs)
  BY <1>1, TotalSame
<1>3. TotalBalance(new) = TotalBalance(f.snapshot)
  BY <1>1, TotalSame, TotalMoved
<1> QED
  BY <1>2, <1>3

(* The prepayment leaves the sum of balances.                              *)
LEMMA ChargedTotal ==
  ASSUME NEW accs, Good(accs), Covered(accs), Senders(accs), NEW t \in Transactions,
         valid_transaction(accs[t.sender], t)
  PROVE  TotalBalance(charged(accs, t)) + tx_max_cost(t) = TotalBalance(accs)
<1> DEFINE c == tx_max_cost(t)
           new == charged(accs, t)
<1>1. t.sender \in Address /\ accs[t.sender] \in Account
  BY TransactionTypes DEF Good
<1>2. c \in Nat /\ -c \in Int
  BY <1>1, CostCovered, Prices
<1>3. \A a \in Address : accs[a].balance \in Int
  BY AccountTypes DEF Good
<1>4. \A a \in Address : new[a].balance = accs[a].balance - (IF a = t.sender THEN c ELSE 0)
  BY ChargedMap
<1> HIDE DEF c, new
<1>5. \A a \in Address : new[a].balance = accs[a].balance + (IF a = t.sender THEN -c ELSE 0)
  BY <1>2, <1>3, <1>4
<1>6. TotalBalance(new) = TotalBalance(accs) + (-c)
  <2> DEFINE m == -c
  <2>1. m \in Int /\ \A a \in Address : new[a].balance = accs[a].balance + (IF a = t.sender THEN m ELSE 0)
    BY <1>2, <1>5
  <2> HIDE DEF m
  <2>2. TotalBalance(new) = TotalBalance(accs) + m
    BY <1>1, <2>1, TotalPaid
  <2> QED
    BY <2>2 DEF m
<1>7. TotalBalance(accs) \in Int
  BY TotalType
<1>8. TotalBalance(new) + c = TotalBalance(accs)
  BY <1>2, <1>6, <1>7
<1> QED
  BY <1>8 DEF c, new

(* The end of a transaction brings back all but the base fee.              *)
LEMMA SettledTotal ==
  ASSUME NEW accs, Good(accs), Covered(accs), Senders(accs), tx \in Transactions, Priced(tx),
         NEW g \in Nat \ {0}
  PROVE  TotalBalance(settled(accs, g)) = TotalBalance(accs) + tx_max_cost(tx) - g * base_fee
<1> DEFINE r == tx_max_cost(tx) - g * effective_gas_price(tx)
           p == g * priority_gas_price(tx)
           s == tx.sender
           new == settled(accs, g)
           h0 == Balances(accs)
           h1 == [h0 EXCEPT ![s] = @ + r]
           h2 == [h1 EXCEPT ![coinbase] = @ + p]
<1>1. s \in Address /\ coinbase \in Address /\ r \in Int /\ p \in Int
  BY TransactionTypes, AddressAssumption, SettledMap
<1>2. \A a \in Address : new[a].balance = accs[a].balance + (IF a = s THEN r ELSE 0)
                                            + (IF a = coinbase THEN p ELSE 0)
  BY SettledMap
<1>3. h0 \in [Address -> Int] /\ \A a \in Address : h0[a] = accs[a].balance
  BY AccountTypes DEF Good, Balances
<1> HIDE DEF r, p, s, new
<1>4. h1 \in [Address -> Int] /\ \A a \in Address : h1[a] = h0[a] + (IF a = s THEN r ELSE 0)
  <2> HIDE DEF h0
  <2> QED
    BY <1>1, <1>3
<1>5. h2 \in [Address -> Int] /\ \A a \in Address : h2[a] = h1[a] + (IF a = coinbase THEN p ELSE 0)
  <2> HIDE DEF h0, h1
  <2> QED
    BY <1>1, <1>4
<1>6. SumOver(Address, h1) = SumOver(Address, h0) + r
  <2> HIDE DEF h0
  <2> QED
    BY <1>1, <1>3, TotalChange
<1>7. SumOver(Address, h2) = SumOver(Address, h1) + p
  <2> HIDE DEF h0, h1
  <2> QED
    BY <1>1, <1>4, TotalChange
<1>8. Balances(new) = h2
  <2> HIDE DEF h0, h1, h2
  <2>1. \A a \in Address : new[a].balance = h2[a]
    BY <1>2, <1>3, <1>4, <1>5
  <2>2. h2 = [a \in Address |-> h2[a]]
    BY <1>5
  <2> QED
    BY <2>1, <2>2 DEF Balances
<1>9. TotalBalance(new) = TotalBalance(accs) + r + p
  <2> HIDE DEF h1, h2
  <2> QED
    BY <1>6, <1>7, <1>8, TotalIsSum
<1>10. r + p = tx_max_cost(tx) - g * base_fee
  <2> DEFINE b == base_fee
             q == priority_gas_price(tx)
             c == tx_max_cost(tx)
  <2>1. b \in Nat /\ q \in Nat /\ c \in Nat /\ g \in Nat /\ effective_gas_price(tx) = b + q
    BY Prices, BlockAssumption, TransactionTypes
  <2>2. r = c - g * (b + q) /\ p = g * q
    BY <2>1 DEF r, p
  <2> HIDE DEF b, q, c
  <2>3. g * (b + q) = g * b + g * q /\ g * b \in Nat /\ g * q \in Nat
    BY <2>1
  <2>4. r + p = c - g * b
    BY <2>1, <2>2, <2>3
  <2> QED
    BY <2>4 DEF b, c
<1>11. TotalBalance(accs) \in Int /\ tx_max_cost(tx) \in Int /\ g * base_fee \in Int
  <2>1. g \in Nat /\ base_fee \in Nat
    BY BlockAssumption, TransactionTypes
  <2> QED
    BY <2>1, TotalType, Prices
<1>12. TotalBalance(new) = TotalBalance(accs) + (r + p)
  BY <1>1, <1>9, <1>11
<1> QED
  BY <1>10, <1>11, <1>12 DEF new

(* The end of the block adds the withdrawals to the sum.                   *)
LEMMA FinalTotal ==
  ASSUME NEW accs, Good(accs), Covered(accs), NEW w \in Withdrawals
  PROVE  TotalBalance(withdrawn(erased(accs), w)) = TotalBalance(accs) +
           MapThenFoldSet(+, 0, LAMBDA a : amounts(w, a), LAMBDA s : CHOOSE a \in s : TRUE, recipients(w))
<1> DEFINE new == withdrawn(erased(accs), w)
           U == recipients(w)
           h1 == Balances(accs)
           h2 == Balances(new)
           k == Paid(w)
<1>1. U \in SUBSET Address /\ \A x \in U : k[x] = amounts(w, x) /\ k[x] \in Int
  BY AmountType DEF Paid
<1>2. \A a \in Address : new[a].balance = accs[a].balance + (IF a \in U THEN amounts(w, a) ELSE 0)
  BY FinalMap
<1>3. \A a \in Address : h1[a] = accs[a].balance /\ h1[a] \in Int /\ h2[a] = new[a].balance
  BY AccountTypes DEF Good, Balances
<1> HIDE DEF new, U, h1, h2, k
<1>4. \A a \in Address : h2[a] = h1[a] + (IF a \in U THEN k[a] ELSE 0)
  BY <1>1, <1>2, <1>3
<1>5. \A a \in Address : h1[a] \in Int /\ h2[a] \in Int
  BY <1>1, <1>3, <1>4
<1>6. \A x \in U : k[x] \in Int
  BY <1>1
<1>7. SumOver(Address, h2) = SumOver(Address, h1) + SumOver(U, k)
  BY <1>1, <1>4, <1>5, <1>6, AddressAssumption, SumOverAdd
<1> QED
  BY <1>7, TotalIsSum, WithdrawnTotal DEF h1, h2, U, k, new

(* An exception leaves of every message what it was.                       *)
LEMMA WorksFrames ==
  ASSUME frames \in Seq(Frame), Works
  PROVE  /\ frames' \in Seq(Frame) /\ Len(frames') = Len(frames) /\ frames' # <<>>
         /\ \A k \in 1 .. Len(frames) :
              /\ frames'[k].kind = frames[k].kind /\ frames'[k].sender = frames[k].sender
              /\ frames'[k].recipient = frames[k].recipient /\ frames'[k].snapshot = frames[k].snapshot
              /\ frames'[k].runs \in {frames[k].runs, "failed"}
<1>1. frames # <<>> /\ (frames' = frames \/ frames' = FailTop(frames))
  BY DEF Works
<1>2. CASE frames' = frames
  BY <1>1, <1>2
<1>3. CASE frames' = FailTop(frames)
  <2>1. /\ FailTop(frames) \in Seq(Frame) /\ Len(FailTop(frames)) = Len(frames)
        /\ \A k \in 1 .. Len(frames) : FailTop(frames)[k] = IF k = Len(frames) THEN Failed(frames[k]) ELSE frames[k]
    BY <1>1, FailTopFrames
  <2>2. Len(frames) # 0 /\ FailTop(frames) # <<>>
    BY <1>1, <2>1
  <2>3. ASSUME NEW k \in 1 .. Len(frames)
        PROVE  /\ frames'[k].kind = frames[k].kind /\ frames'[k].sender = frames[k].sender
               /\ frames'[k].recipient = frames[k].recipient /\ frames'[k].snapshot = frames[k].snapshot
               /\ frames'[k].runs \in {frames[k].runs, "failed"}
    <3>1. frames'[k] \in {Failed(frames[k]), frames[k]} /\ frames[k] \in Frame
      BY <1>3, <2>1
    <3> QED
      BY <3>1, FailedFrame
  <2> QED
    BY <1>3, <2>1, <2>2, <2>3
<1> QED
  BY <1>1, <1>2, <1>3

(* Opening a message leaves the others alone.                              *)
LEMMA SendsFrames ==
  ASSUME frames \in Seq(Frame), NEW f \in Frame, frames' = Append(frames, f)
  PROVE  /\ frames' \in Seq(Frame) /\ Len(frames') = Len(frames) + 1 /\ frames' # <<>>
         /\ frames'[Len(frames) + 1] = f
         /\ \A k \in 1 .. Len(frames) : frames'[k] = frames[k]
  OBVIOUS

(* Every step keeps the balance of value.                                  *)
LEMMA NextBalanced ==
  ASSUME Consistent, Balanced, [Next]_vars
  PROVE  Balanced'
<1>1. /\ frames \in Seq(Frame) /\ depth = Len(frames) /\ depth \in Nat /\ depth' = Len(frames')
      /\ (frames = <<>> <=> depth = 0)
      /\ Good(accounts) /\ Covered(accounts) /\ tx \in Transactions
      /\ TotalBalance(accounts) \in Int
  BY TotalType DEF Consistent, depth
<1>2. /\ TotalBalance(accounts) + Prepaid = supply
      /\ \A k \in 1 .. depth : TotalBalance(frames[k].snapshot) + tx_max_cost(tx) = supply
      /\ frames = <<>> => Prepaid = 0 /\ TotalBalance(accounts) = supply
      /\ frames # <<>> => TotalBalance(accounts) + tx_max_cost(tx) = supply
      /\ frames # <<>> => tx_max_cost(tx) \in Nat
  BY <1>1, Prices DEF Balanced, ValueConserved, Prepaid, Consistent
<1>3. ASSUME frames' # <<>>,
             TotalBalance(accounts') + tx_max_cost(tx') = supply',
             \A k \in 1 .. Len(frames') : TotalBalance(frames'[k].snapshot) + tx_max_cost(tx') = supply'
      PROVE  Balanced'
  <2>1. Prepaid' = tx_max_cost(tx')
    BY <1>3 DEF Prepaid
  <2>2. ValueConserved'
    BY <1>3, <2>1 DEF ValueConserved
  <2> QED
    BY <1>1, <1>3, <2>2 DEF Balanced
<1>4. ASSUME frames' = <<>>, TotalBalance(accounts') = supply', supply' \in Int
      PROVE  Balanced'
  <2>1. Len(frames') = 0 /\ 1 .. 0 = {}
    BY <1>4
  <2>2. Prepaid' = 0
    BY <1>4 DEF Prepaid
  <2>3. \A x \in Int : x + 0 = x
    OBVIOUS
  <2>4. ValueConserved'
    BY <1>4, <2>2, <2>3, Zenon DEF ValueConserved
  <2> QED
    BY <1>1, <2>1, <2>4 DEF Balanced
<1>5. CASE UNCHANGED vars
  BY <1>5 DEF vars, Balanced, ValueConserved, Prepaid, depth
<1>6. CASE \E t \in Transactions : RejectTransaction(t)
  <2>1. frames = <<>> /\ UNCHANGED <<accounts, frames, supply>>
    BY <1>6 DEF RejectTransaction, Between
  <2> QED
    BY <1>1, <1>2, <1>4, <2>1
<1>7. CASE \E t \in Transactions : StartTransaction(t)
  <2>0. PICK t \in Transactions : StartTransaction(t)
    BY <1>7
  <2>1. PICK f : Starts(t, f)
    BY <2>0, StartStep
  <2>2. /\ frames = <<>> /\ frames' = Append(frames, f) /\ valid_transaction(accounts[t.sender], t)
        /\ FrameOK(f) /\ f \in Frame /\ Opens(charged(accounts, t), f, accounts')
        /\ tx' = t /\ supply' = supply
    BY <2>1 DEF Starts, FrameOK
  <2>3. Senders(accounts)
    <3>1. \E u \in Transactions : block = "open"
      BY <1>7 DEF StartTransaction, Between
    <3> QED
      BY <3>1 DEF Consistent, StackOK
  <2>4. Good(charged(accounts, t)) /\ TotalBalance(charged(accounts, t)) + tx_max_cost(t) = TotalBalance(accounts)
    BY <1>1, <2>2, <2>3, ChargedMap, ChargedTotal
  <2>5. /\ TotalBalance(f.snapshot) = TotalBalance(charged(accounts, t))
        /\ TotalBalance(accounts') = TotalBalance(charged(accounts, t))
    BY <2>2, <2>4, OpensTotals
  <2>6. frames' # <<>> /\ Len(frames') = 1 /\ frames'[1] = f
    BY <2>2
  <2>7. \A k \in 1 .. Len(frames') : frames'[k] = f
    BY <2>6
  <2> QED
    BY <1>2, <1>3, <2>2, <2>4, <2>5, <2>6, <2>7
<1>8. CASE Works
  <2>1. SameBalances(accounts, accounts') /\ frames # <<>> /\ tx' = tx /\ supply' = supply
    BY <1>8 DEF Works
  <2>2. TotalBalance(accounts') = TotalBalance(accounts)
    BY <2>1, TotalSame
  <2>3. frames' # <<>> /\ Len(frames') = Len(frames)
        /\ \A k \in 1 .. Len(frames) : frames'[k].snapshot = frames[k].snapshot
    BY <1>1, <1>8, WorksFrames
  <2> QED
    BY <1>1, <1>2, <1>3, <2>1, <2>2, <2>3
<1>9. CASE \E f : Sends(f)
  <2>1. PICK f : Sends(f)
    BY <1>9
  <2>2. /\ frames # <<>> /\ frames' = Append(frames, f) /\ FrameOK(f) /\ f \in Frame
        /\ Opens(accounts, f, accounts') /\ tx' = tx /\ supply' = supply
    BY <2>1 DEF Sends, FrameOK
  <2>3. /\ TotalBalance(f.snapshot) = TotalBalance(accounts)
        /\ TotalBalance(accounts') = TotalBalance(accounts)
    BY <1>1, <2>2, OpensTotals
  <2>4. /\ frames' # <<>> /\ Len(frames') = Len(frames) + 1 /\ frames'[Len(frames) + 1] = f
        /\ \A k \in 1 .. Len(frames) : frames'[k] = frames[k]
    BY <1>1, <2>2, SendsFrames
  <2>5. ASSUME NEW k \in 1 .. Len(frames') PROVE TotalBalance(frames'[k].snapshot) + tx_max_cost(tx') = supply'
    <3>1. k \in 1 .. Len(frames) \/ k = Len(frames) + 1
      BY <1>1, <2>4
    <3> QED
      BY <1>1, <1>2, <2>2, <2>3, <2>4, <3>1
  <2> QED
    BY <1>2, <1>3, <2>2, <2>3, <2>4, <2>5
<1>10. CASE frames # <<>> /\ \E v \in vm_results(top) : return_to_caller(v)
  <2>1. PICK v \in vm_results(top) : return_to_caller(v)
    BY <1>10
  <2> DEFINE r == checked_result(top, v)
  <2>2. /\ depth > 1 /\ accounts' = accounts_after(top, r) /\ frames' = SubSeq(frames, 1, depth - 1)
        /\ tx' = tx /\ supply' = supply
    BY <2>1 DEF return_to_caller
  <2> HIDE DEF r
  <2>3. Ended(top, r, accounts')
    BY <1>10, <2>2, EndOfMessage DEF r
  <2>4. TotalBalance(accounts') = TotalBalance(accounts) \/ TotalBalance(accounts') = TotalBalance(top.snapshot)
    BY <2>3, TotalSame, SameWorlds DEF Ended
  <2>5. top = frames[depth] /\ depth \in 1 .. depth
    BY <1>1, <2>2 DEF top
  <2>6. /\ frames' \in Seq(Frame) /\ Len(frames') = Len(frames) - 1
        /\ \A k \in 1 .. Len(frames) - 1 : frames'[k] = frames[k]
    BY <1>1, <1>10, <2>2, FrontOfStack
  <2>7. frames' # <<>>
    <3>1. Len(frames') # 0
      BY <1>1, <2>2, <2>6
    <3>2. frames' = <<>> => Len(frames') = 0
      OBVIOUS
    <3> QED
      BY <3>1, <3>2, Zenon
  <2>8. TotalBalance(accounts') + tx_max_cost(tx') = supply'
    BY <1>2, <1>10, <2>2, <2>4, <2>5
  <2>9. ASSUME NEW k \in 1 .. Len(frames') PROVE TotalBalance(frames'[k].snapshot) + tx_max_cost(tx') = supply'
    <3>1. k \in 1 .. Len(frames) - 1 /\ k \in 1 .. depth
      BY <1>1, <2>6
    <3> QED
      BY <1>2, <2>2, <2>6, <3>1
  <2> QED
    BY <1>3, <2>7, <2>8, <2>9
<1>11. CASE frames # <<>> /\ \E v \in vm_results(top) : EndTransaction(v)
  <2>1. PICK r, g, accs : Ends(r, g, accs)
    BY <1>11, EndStep
  <2>2. /\ Ended(frames[1], r, accs) /\ g \in Nat \ {0} /\ accounts' = settled(accs, g)
        /\ supply' = supply - g * base_fee /\ frames' = <<>> /\ Good(accs) /\ Covered(accs) /\ Senders(accs)
    BY <2>1 DEF Ends, Ended
  <2>3. TotalBalance(accs) = TotalBalance(accounts) \/ TotalBalance(accs) = TotalBalance(frames[1].snapshot)
    BY <2>2, TotalSame, SameWorlds DEF Ended
  <2>4. TotalBalance(accs) + tx_max_cost(tx) = supply
    <3>1. 1 \in 1 .. depth
      BY <1>1, <1>11
    <3> QED
      BY <1>2, <1>11, <2>3, <3>1
  <2>5. Priced(tx)
    BY <1>11 DEF Consistent
  <2>6. TotalBalance(accounts') = TotalBalance(accs) + tx_max_cost(tx) - g * base_fee
    BY <1>1, <2>2, <2>5, SettledTotal
  <2>7. supply' \in Int
    <3>1. g \in Nat /\ base_fee \in Nat /\ TotalBalance(accs) \in Int /\ tx_max_cost(tx) \in Nat
      BY <1>1, <1>2, <1>11, <2>2, BlockAssumption, TransactionTypes, TotalType
    <3> DEFINE x == g * base_fee
    <3>2. x \in Nat
      BY <3>1
    <3> HIDE DEF x
    <3>3. supply' = supply - x
      BY <2>2 DEF x
    <3> QED
      BY <2>4, <3>1, <3>2, <3>3
  <2>8. TotalBalance(accounts') = supply'
    <3>1. supply' = supply - g * base_fee
      BY <2>2
    <3>2. g \in Nat /\ base_fee \in Nat /\ TotalBalance(accs) \in Int /\ tx_max_cost(tx) \in Nat
      BY <1>1, <1>2, <1>11, <2>2, BlockAssumption, TransactionTypes, TotalType
    <3> DEFINE x == TotalBalance(accs)
               c == tx_max_cost(tx)
               y == g * base_fee
               z == TotalBalance(accounts')
    <3>3. z = x + (c - y) /\ x + c = supply /\ supply' = supply - y /\ x \in Int /\ c \in Int /\ y \in Int
      BY <2>4, <2>6, <3>1, <3>2
    <3> HIDE DEF x, y, z, c
    <3>4. z = supply'
      BY <3>3
    <3> QED
      BY <3>4 DEF z
  <2> QED
    BY <1>4, <2>2, <2>7, <2>8
<1>12. CASE \E w \in Withdrawals : Finalize(w)
  <2>1. PICK w \in Withdrawals : Finalize(w)
    BY <1>12
  <2> DEFINE sum == MapThenFoldSet(+, 0, LAMBDA a : amounts(w, a), LAMBDA s : CHOOSE a \in s : TRUE, recipients(w))
  <2>2. frames = <<>> /\ frames' = <<>> /\ accounts' = withdrawn(erased(accounts), w) /\ supply' = supply + sum
    BY <2>1 DEF Finalize
  <2>3. TotalBalance(accounts') = TotalBalance(accounts) + sum
    BY <1>1, <2>2, FinalTotal
  <2>4. TotalBalance(accounts') \in Int
    <3>1. Good(accounts')
      BY <1>1, <2>2, FinalMap
    <3> QED
      BY <3>1, TotalType
  <2> HIDE DEF sum
  <2> QED
    BY <1>2, <1>4, <2>2, <2>3, <2>4
<1>13. CASE Next
  BY <1>6, <1>7, <1>8, <1>9, <1>10, <1>11, <1>12, <1>13, StepCases
<1> QED
  BY <1>5, <1>13

(* Where the block cannot go on, the value stays as it is.                 *)
LEMMA OverchargedBalanced ==
  ASSUME Overcharged, Balanced, [Next]_vars
  PROVE  Balanced'
  BY OverchargedStays DEF vars, Balanced, ValueConserved, Prepaid, depth

(* The value there must be is that of the state that was loaded.           *)
LEMMA InitBalanced ==
  ASSUME Init
  PROVE  Balanced
<1>1. frames = <<>> /\ supply = TotalBalance(accounts) /\ depth = 0
  BY DEF Init, depth
<1>2. TotalBalance(accounts) \in Int
  BY InitConsistent, TotalType DEF Consistent
<1> QED
  BY <1>1, <1>2 DEF Balanced, ValueConserved, Prepaid

(* No value appears or is lost: through transfers, endowments and nested   *)
(* failures the balances and the prepayment add up to the supply, which    *)
(* only base fees leave and withdrawals enter.                             *)
THEOREM ValueIsConserved == Spec => []ValueConserved
<1>1. Init => Balanced
  BY InitBalanced
<1>2. Reachable /\ Balanced /\ [Next]_vars => Balanced'
  BY NextBalanced, OverchargedBalanced DEF Reachable
<1>3. Balanced => ValueConserved
  BY DEF Balanced
<1> QED
  BY <1>1, <1>2, <1>3, ConsistentAlways, PTL DEF Spec

------------------------------------------------------------------------------
(* What a failure leaves.                                                  *)

(* The creations of address a among the first k messages.                  *)
Creations(fs, k, a) == {j \in 1 .. k : fs[j].kind \in Creates /\ fs[j].sender = a}

(* When a message was opened, every creation open then had used a nonce.   *)
NoncesUsed(fs, origin) ==
  /\ \A a \in Address : origin[a].nonce \in Nat
  /\ \A k \in 1 .. Len(fs), a \in Address :
       fs[k].snapshot[a].nonce >= origin[a].nonce + Cardinality(Creations(fs, k, a))

Counted == NoncesUsed(frames, start)

(* Open creations can be counted.                                          *)
LEMMA CreationsFinite ==
  ASSUME NEW fs, NEW k \in Nat, NEW a
  PROVE  IsFiniteSet(Creations(fs, k, a)) /\ Cardinality(Creations(fs, k, a)) \in Nat
<1>1. IsFiniteSet(1 .. k)
  BY FS_Interval
<1>2. Creations(fs, k, a) \subseteq 1 .. k
  BY DEF Creations
<1>3. IsFiniteSet(Creations(fs, k, a))
  BY <1>1, <1>2, FS_Subset
<1> QED
  BY <1>3, FS_CardinalityType

(* Only the kinds and senders of the messages count.                       *)
LEMMA CreationsSame ==
  ASSUME NEW fs, NEW gs, NEW k, NEW a,
         \A j \in 1 .. k : gs[j].kind = fs[j].kind /\ gs[j].sender = fs[j].sender
  PROVE  Creations(gs, k, a) = Creations(fs, k, a)
  BY DEF Creations

(* A new message adds one creation of its sender, or none.                 *)
LEMMA CreationsAppend ==
  ASSUME NEW fs, NEW n \in Nat, NEW a
  PROVE  Cardinality(Creations(fs, n + 1, a)) = Cardinality(Creations(fs, n, a))
           + (IF fs[n + 1].kind \in Creates /\ fs[n + 1].sender = a THEN 1 ELSE 0)
<1> DEFINE S == Creations(fs, n, a)
           T == Creations(fs, n + 1, a)
<1>1. IsFiniteSet(S) /\ Cardinality(S) \in Nat /\ n + 1 \notin S
  <2>1. n + 1 \notin 1 .. n
    OBVIOUS
  <2>2. n + 1 \notin S
    BY <2>1 DEF Creations
  <2> QED
    BY <2>2, CreationsFinite
<1>2. \A j : j \in 1 .. n + 1 <=> j \in 1 .. n \/ j = n + 1
  OBVIOUS
<1>3. CASE fs[n + 1].kind \in Creates /\ fs[n + 1].sender = a
  <2>1. T = S \cup {n + 1}
    BY <1>2, <1>3 DEF Creations
  <2> HIDE DEF S, T
  <2>2. Cardinality(T) = Cardinality(S) + 1
    BY <1>1, <2>1, FS_AddElement
  <2> QED
    BY <1>3, <2>2 DEF S, T
<1>4. CASE ~(fs[n + 1].kind \in Creates /\ fs[n + 1].sender = a)
  <2>1. T = S
    BY <1>2, <1>4 DEF Creations
  <2> HIDE DEF S, T
  <2>2. Cardinality(T) = Cardinality(S) + 0
    BY <1>1, <2>1
  <2> QED
    BY <1>4, <2>2 DEF S, T
<1> QED
  BY <1>3, <1>4

(* The count of nonces depends on kinds, senders and snapshots only.       *)
LEMMA NoncesKept ==
  ASSUME NEW fs, NEW gs, NEW origin, NoncesUsed(fs, origin), Len(gs) \in Nat, Len(fs) \in Nat, Len(gs) <= Len(fs),
         \A j \in 1 .. Len(gs) : /\ gs[j].kind = fs[j].kind /\ gs[j].sender = fs[j].sender
                                 /\ gs[j].snapshot = fs[j].snapshot
  PROVE  NoncesUsed(gs, origin)
<1> SUFFICES ASSUME NEW k \in 1 .. Len(gs), NEW a \in Address
             PROVE  gs[k].snapshot[a].nonce >= origin[a].nonce + Cardinality(Creations(gs, k, a))
  BY DEF NoncesUsed
<1>1. Creations(gs, k, a) = Creations(fs, k, a)
  <2>1. \A j \in 1 .. k : gs[j].kind = fs[j].kind /\ gs[j].sender = fs[j].sender
    OBVIOUS
  <2> QED
    BY <2>1, CreationsSame
<1>2. k \in 1 .. Len(fs) /\ gs[k].snapshot = fs[k].snapshot
  OBVIOUS
<1>3. fs[k].snapshot[a].nonce >= origin[a].nonce + Cardinality(Creations(fs, k, a))
  BY <1>2 DEF NoncesUsed
<1> QED
  BY <1>1, <1>2, <1>3

(* The next message is opened on accounts with no smaller nonces.          *)
LEMMA NoncesPush ==
  ASSUME NEW fs \in Seq(Frame), NEW f \in Frame, NEW origin, NoncesUsed(fs, origin),
         \A a \in Address :
           /\ f.snapshot[a].nonce \in Nat
           /\ fs # <<>> => f.snapshot[a].nonce >= fs[Len(fs)].snapshot[a].nonce
                             + (IF f.kind \in Creates /\ f.sender = a THEN 1 ELSE 0)
           /\ fs = <<>> => f.snapshot[a].nonce >= origin[a].nonce
                             + (IF f.kind \in Creates /\ f.sender = a THEN 1 ELSE 0),
         \A k \in 1 .. Len(fs), a \in Address : fs[k].snapshot[a].nonce \in Nat
  PROVE  NoncesUsed(Append(fs, f), origin)
<1> DEFINE gs == Append(fs, f)
           n == Len(fs)
<1>1. /\ n \in Nat /\ Len(gs) = n + 1 /\ gs[n + 1] = f /\ \A k \in 1 .. n : gs[k] = fs[k]
      /\ fs = <<>> <=> n = 0
  OBVIOUS
<1>2. ASSUME NEW k \in 1 .. Len(gs), NEW a \in Address
      PROVE  gs[k].snapshot[a].nonce >= origin[a].nonce + Cardinality(Creations(gs, k, a))
  <2> HIDE DEF gs
  <2>1. CASE k \in 1 .. n
    <3>1. Creations(gs, k, a) = Creations(fs, k, a)
      <4>1. \A j \in 1 .. k : gs[j].kind = fs[j].kind /\ gs[j].sender = fs[j].sender
        BY <1>1, <2>1
      <4> QED
        BY <4>1, CreationsSame
    <3>2. fs[k].snapshot[a].nonce >= origin[a].nonce + Cardinality(Creations(fs, k, a))
      BY <2>1 DEF NoncesUsed
    <3> QED
      BY <1>1, <2>1, <3>1, <3>2
  <2>2. CASE k = n + 1
    <3> DEFINE d == IF f.kind \in Creates /\ f.sender = a THEN 1 ELSE 0
               c == Cardinality(Creations(gs, n, a))
               o == origin[a].nonce
               x == f.snapshot[a].nonce
    <3>1. Cardinality(Creations(gs, n + 1, a)) = c + d
      <4> HIDE DEF n
      <4> QED
        BY <1>1, CreationsAppend
    <3>2. c \in Nat /\ o \in Nat /\ x \in Nat /\ d \in Nat
      <4>1. c \in Nat
        <5> HIDE DEF n
        <5> QED
          BY <1>1, CreationsFinite
      <4> QED
        BY <4>1 DEF NoncesUsed
    <3>3. x >= o + (c + d)
      <4>1. CASE fs = <<>>
        <5>1. Creations(gs, n, a) = {}
          BY <1>1, <4>1 DEF Creations
        <5>2. c = 0
          BY <5>1, FS_EmptySet
        <5>3. x >= o + d
          BY <4>1
        <5> HIDE DEF x, o, c, d
        <5> QED
          BY <3>2, <5>2, <5>3
      <4>2. CASE fs # <<>>
        <5> DEFINE y == fs[n].snapshot[a].nonce
        <5>1. n \in 1 .. n
          BY <1>1, <4>2
        <5>2. Creations(gs, n, a) = Creations(fs, n, a)
          <6>1. \A j \in 1 .. n : gs[j].kind = fs[j].kind /\ gs[j].sender = fs[j].sender
            BY <1>1
          <6> HIDE DEF n
          <6> QED
            BY <6>1, CreationsSame
        <5>3. y >= o + c /\ y \in Nat
          BY <5>1, <5>2 DEF NoncesUsed
        <5>4. x >= y + d
          BY <4>2
        <5> HIDE DEF x, o, c, d, y
        <5> QED
          BY <3>2, <5>3, <5>4
      <4> QED
        BY <4>1, <4>2
    <3> QED
      BY <1>1, <2>2, <3>1, <3>3
  <2> QED
    BY <1>1, <1>2, <2>1, <2>2
<1> QED
  BY <1>2 DEF NoncesUsed

(* The world has the contents of the accounts.                             *)
LEMMA WorldFields ==
  ASSUME NEW accs, NEW a \in Address
  PROVE  /\ World(accs)[a].nonce = accs[a].nonce /\ World(accs)[a].balance = accs[a].balance
         /\ World(accs)[a].code = accs[a].code /\ World(accs)[a].storage = accs[a].storage
  BY DEF World, Contents

(* Before the first message no nonce was used.                             *)
LEMMA NoncesStart ==
  ASSUME NEW accs, Good(accs)
  PROVE  NoncesUsed(<<>>, World(accs))
<1>1. \A a \in Address : World(accs)[a].nonce \in Nat
  BY WorldFields, AccountTypes DEF Good
<1>2. Len(<<>>) = 0 /\ 1 .. 0 = {}
  OBVIOUS
<1> QED
  BY <1>1, <1>2 DEF NoncesUsed

(* Every step keeps the count of nonces.                                   *)
LEMMA NextCounted ==
  ASSUME Consistent, Counted, [Next]_vars
  PROVE  Counted'
<1>1. /\ frames \in Seq(Frame) /\ depth = Len(frames) /\ depth \in Nat /\ (frames # <<>> => depth \in 1 .. depth)
      /\ Good(accounts) /\ Covered(accounts) /\ NoncesUsed(frames, start)
  BY DEF Consistent, depth, Counted
<1>2. SUFFICES NoncesUsed(frames', start')
  BY DEF Counted
<1>3. ASSUME NEW k \in 1 .. Len(frames), NEW a \in Address
      PROVE  /\ frames[k].snapshot[a].nonce \in Nat /\ accounts[a].nonce \in Nat
             /\ accounts[a].nonce >= frames[k].snapshot[a].nonce
  <2>1. FrameOK(frames[k]) /\ Under(frames[k], accounts, Len(logs))
    BY ConsistentFrames DEF depth
  <2>2. frames[k].snapshot[a] \in Account /\ accounts[a] \in Account
    BY <1>1, <2>1 DEF FrameOK, Good
  <2> QED
    BY <2>1, <2>2, AccountTypes DEF Under, Later, Grown
<1>4. CASE UNCHANGED vars
  BY <1>1, <1>4 DEF vars
<1>5. CASE \E t \in Transactions : RejectTransaction(t)
  <2>1. frames' = <<>> /\ start' = World(accounts)
    BY <1>5 DEF RejectTransaction, Between
  <2> QED
    BY <1>1, <2>1, NoncesStart
<1>6. CASE \E t \in Transactions : StartTransaction(t)
  <2>0. PICK t \in Transactions : StartTransaction(t)
    BY <1>6
  <2>1. PICK f : Starts(t, f)
    BY <2>0, StartStep
  <2>2. /\ frames = <<>> /\ frames' = Append(frames, f) /\ valid_transaction(accounts[t.sender], t)
        /\ FrameOK(f) /\ f \in Frame /\ Opens(charged(accounts, t), f, accounts')
        /\ start' = World(accounts)
    BY <2>1 DEF Starts, FrameOK
  <2>3. Senders(accounts)
    <3>1. \E u \in Transactions : block = "open"
      BY <1>6 DEF StartTransaction, Between
    <3> QED
      BY <3>1 DEF Consistent, StackOK
  <2>4. \A a \in Address : charged(accounts, t)[a].nonce = accounts[a].nonce
    BY <1>1, <2>2, <2>3, ChargedMap
  <2>5. NoncesUsed(frames, start')
    BY <1>1, <2>2, NoncesStart
  <2>6. ASSUME NEW a \in Address
        PROVE  /\ f.snapshot[a].nonce \in Nat
               /\ f.snapshot[a].nonce >= start'[a].nonce + (IF f.kind \in Creates /\ f.sender = a THEN 1 ELSE 0)
    <3>1. f.snapshot[a].nonce \in Nat /\ accounts[a].nonce \in Nat
      BY <1>1, <2>2, AccountTypes DEF FrameOK, Good
    <3>2. f.snapshot[a].nonce = charged(accounts, t)[a].nonce
            + (IF (depth = 0 \/ f.kind \in Creates) /\ a = f.sender THEN 1 ELSE 0)
      BY <2>2 DEF Opens
    <3>3. start'[a].nonce = accounts[a].nonce
      BY <2>2, WorldFields
    <3> QED
      BY <2>4, <3>1, <3>2, <3>3
  <2>7. Len(frames) = 0 /\ 1 .. 0 = {}
    BY <2>2
  <2>8. /\ \A a \in Address :
             /\ f.snapshot[a].nonce \in Nat
             /\ frames # <<>> => f.snapshot[a].nonce >= frames[Len(frames)].snapshot[a].nonce
                               + (IF f.kind \in Creates /\ f.sender = a THEN 1 ELSE 0)
             /\ frames = <<>> => f.snapshot[a].nonce >= start'[a].nonce
                               + (IF f.kind \in Creates /\ f.sender = a THEN 1 ELSE 0)
        /\ \A k \in 1 .. Len(frames), a \in Address : frames[k].snapshot[a].nonce \in Nat
    BY <2>2, <2>6, <2>7
  <2> QED
    BY <1>1, <2>2, <2>5, <2>8, NoncesPush
<1>7. CASE Works
  <2>1. /\ Len(frames') = Len(frames) /\ start' = start
        /\ \A k \in 1 .. Len(frames) :
              /\ frames'[k].kind = frames[k].kind /\ frames'[k].sender = frames[k].sender
              /\ frames'[k].snapshot = frames[k].snapshot
    BY <1>1, <1>7, WorksFrames DEF Works
  <2>2. Len(frames') \in Nat /\ Len(frames) \in Nat /\ Len(frames') <= Len(frames)
    BY <1>1, <2>1
  <2> QED
    BY <1>1, <2>1, <2>2, NoncesKept
<1>8. CASE \E f : Sends(f)
  <2>1. PICK f : Sends(f)
    BY <1>8
  <2>2. /\ frames # <<>> /\ frames' = Append(frames, f) /\ FrameOK(f) /\ f \in Frame
        /\ Opens(accounts, f, accounts') /\ start' = start
    BY <2>1 DEF Sends, FrameOK
  <2>3. ASSUME NEW a \in Address
        PROVE  /\ f.snapshot[a].nonce \in Nat
               /\ f.snapshot[a].nonce >= frames[Len(frames)].snapshot[a].nonce
                               + (IF f.kind \in Creates /\ f.sender = a THEN 1 ELSE 0)
    <3>1. f.snapshot[a].nonce \in Nat
      BY <2>2, AccountTypes DEF FrameOK, Good
    <3>2. f.snapshot[a].nonce = accounts[a].nonce
            + (IF (depth = 0 \/ f.kind \in Creates) /\ a = f.sender THEN 1 ELSE 0)
      BY <2>2 DEF Opens
    <3>3. Len(frames) \in 1 .. Len(frames)
      BY <1>1, <2>2
    <3>4. /\ accounts[a].nonce >= frames[Len(frames)].snapshot[a].nonce
          /\ accounts[a].nonce \in Nat /\ frames[Len(frames)].snapshot[a].nonce \in Nat
      BY <1>3, <3>3
    <3> QED
      BY <3>1, <3>2, <3>4
  <2>4. /\ \A a \in Address :
             /\ f.snapshot[a].nonce \in Nat
             /\ frames # <<>> => f.snapshot[a].nonce >= frames[Len(frames)].snapshot[a].nonce
                               + (IF f.kind \in Creates /\ f.sender = a THEN 1 ELSE 0)
             /\ frames = <<>> => f.snapshot[a].nonce >= start[a].nonce
                               + (IF f.kind \in Creates /\ f.sender = a THEN 1 ELSE 0)
        /\ \A k \in 1 .. Len(frames), a \in Address : frames[k].snapshot[a].nonce \in Nat
    BY <1>3, <2>2, <2>3
  <2> QED
    BY <1>1, <2>2, <2>4, NoncesPush
<1>9. CASE frames # <<>> /\ \E v \in vm_results(top) : return_to_caller(v)
  <2>1. frames' = SubSeq(frames, 1, Len(frames) - 1) /\ start' = start
    BY <1>9 DEF return_to_caller, depth
  <2>2. Len(frames') = Len(frames) - 1 /\ \A k \in 1 .. Len(frames) - 1 : frames'[k] = frames[k]
    BY <1>1, <1>9, <2>1, FrontOfStack
  <2>3. Len(frames') \in Nat /\ Len(frames) \in Nat /\ Len(frames') <= Len(frames)
    BY <1>1, <1>9, <2>2
  <2> QED
    BY <1>1, <2>1, <2>2, <2>3, NoncesKept
<1>10. CASE frames # <<>> /\ \E v \in vm_results(top) : EndTransaction(v)
  <2>1. frames' = <<>> /\ start' = start
    BY <1>10 DEF EndTransaction
  <2>2. Len(frames') = 0 /\ 1 .. 0 = {}
    BY <2>1
  <2> QED
    BY <1>1, <2>1, <2>2 DEF NoncesUsed
<1>11. CASE \E w \in Withdrawals : Finalize(w)
  <2>1. frames' = <<>> /\ start' = World(accounts)
    BY <1>11 DEF Finalize
  <2> QED
    BY <1>1, <2>1, NoncesStart
<1>12. CASE Next
  BY <1>5, <1>6, <1>7, <1>8, <1>9, <1>10, <1>11, <1>12, StepCases
<1> QED
  BY <1>4, <1>12

(* The two exemptions, of one step.                                        *)
TouchSurvives == Touched03 /\ block' = "open" => Touched03'
CreationSurvives ==
  depth > 1 /\ frames' = SubSeq(frames, 1, depth - 1) /\ top.kind \in Creates =>
    /\ accounts'[top.recipient].access_status = "WARM"
    /\ accounts'[top.sender].nonce >= start[top.sender].nonce + Cardinality(OpenCreations(top.sender))

(* Accounts that take nothing back keep the touch of Z03.                  *)
LEMMA TouchKept ==
  ASSUME NEW accs, NEW new, Later(accs, new), accs[addr_03].exists, accs[addr_03].erasable
  PROVE  new[addr_03].exists /\ new[addr_03].erasable
  BY AddressAssumption DEF Later, Grown

(* No step before the end of the block takes back the touch of Z03.        *)
LEMMA StepTouch ==
  ASSUME Consistent, Next
  PROVE  TouchSurvives
<1> SUFFICES ASSUME Touched03, block' = "open"
             PROVE  Touched03'
  BY DEF TouchSurvives
<1> SUFFICES accounts'[addr_03].exists /\ accounts'[addr_03].erasable
  BY DEF Touched03
<1>1. /\ accounts[addr_03].exists /\ accounts[addr_03].erasable /\ Good(accounts) /\ Covered(accounts)
      /\ tx \in Transactions
  BY DEF Touched03, Consistent
<1>2. ASSUME NEW accs, Later(accounts, accs)
      PROVE  accs[addr_03].exists /\ accs[addr_03].erasable
  BY <1>1, <1>2, TouchKept
<1>3. ASSUME NEW accs, NEW f, FrameOK(f), Opens(accs, f, accounts'), Advanced(accounts, accs)
      PROVE  accounts'[addr_03].exists /\ accounts'[addr_03].erasable
  <2>1. Later(accs, f.snapshot) /\ Later(f.snapshot, accounts') /\ Later(accounts, accs)
    BY <1>3, AdvancedIsLater DEF Opens
  <2>2. accs[addr_03].exists /\ accs[addr_03].erasable
    BY <1>2, <2>1
  <2>3. f.snapshot[addr_03].exists /\ f.snapshot[addr_03].erasable
    BY <2>1, <2>2, TouchKept
  <2> QED
    BY <2>1, <2>3, TouchKept
<1>4. CASE \E t \in Transactions : RejectTransaction(t)
  BY <1>1, <1>4 DEF RejectTransaction
<1>5. CASE \E t \in Transactions : StartTransaction(t)
  <2>0. PICK t \in Transactions : StartTransaction(t)
    BY <1>5
  <2>1. PICK f : Starts(t, f)
    BY <2>0, StartStep
  <2>2. /\ valid_transaction(accounts[t.sender], t) /\ FrameOK(f) /\ Opens(charged(accounts, t), f, accounts')
    BY <2>1 DEF Starts
  <2>3. Senders(accounts)
    <3>1. \E u \in Transactions : block = "open"
      BY <1>5 DEF StartTransaction, Between
    <3> QED
      BY <3>1 DEF Consistent, StackOK
  <2>4. Advanced(accounts, charged(accounts, t))
    BY <1>1, <2>2, <2>3, ChargedMap
  <2> QED
    BY <1>3, <2>2, <2>4
<1>6. CASE Works
  BY <1>2, <1>6, AdvancedIsLater DEF Works
<1>7. CASE \E f : Sends(f)
  <2>1. PICK f : Sends(f)
    BY <1>7
  <2>2. FrameOK(f) /\ Opens(accounts, f, accounts') /\ Advanced(accounts, accounts)
    BY <1>1, <2>1, AdvancedReflexive DEF Sends
  <2> QED
    BY <1>3, <2>2
<1>8. CASE frames # <<>> /\ \E v \in vm_results(top) : return_to_caller(v)
  <2>1. PICK v \in vm_results(top) : return_to_caller(v)
    BY <1>8
  <2> DEFINE r == checked_result(top, v)
  <2>2. accounts' = accounts_after(top, r)
    BY <2>1 DEF return_to_caller
  <2> HIDE DEF r
  <2>3. Ended(top, r, accounts')
    BY <1>8, <2>2, EndOfMessage DEF r
  <2> QED
    BY <2>3 DEF Ended
<1>9. CASE frames # <<>> /\ \E v \in vm_results(top) : EndTransaction(v)
  <2>1. PICK r, g, accs : Ends(r, g, accs)
    BY <1>9, EndStep
  <2>2. /\ g \in Nat \ {0} /\ accounts' = settled(accs, g)
        /\ Good(accs) /\ Covered(accs) /\ Senders(accs)
        /\ accs[addr_03].exists /\ accs[addr_03].erasable
    BY <2>1 DEF Ends, Ended
  <2>3. Priced(tx)
    BY <1>9 DEF Consistent
  <2>4. Later(accs, accounts')
    BY <1>1, <2>2, <2>3, SettledMap, AdvancedIsLater
  <2> QED
    BY <2>2, <2>4, TouchKept
<1>10. CASE \E w \in Withdrawals : Finalize(w)
  BY <1>10 DEF Finalize
<1> QED
  BY <1>4, <1>5, <1>6, <1>7, <1>8, <1>9, <1>10, StepCases

(* The end of a creation leaves its address warm and the nonces used.      *)
LEMMA StepCreation ==
  ASSUME Consistent, Counted, Next
  PROVE  CreationSurvives
<1> SUFFICES ASSUME depth > 1, frames' = SubSeq(frames, 1, depth - 1), top.kind \in Creates
             PROVE  /\ accounts'[top.recipient].access_status = "WARM"
                    /\ accounts'[top.sender].nonce >=
                         start[top.sender].nonce + Cardinality(OpenCreations(top.sender))
  BY DEF CreationSurvives
<1>1. /\ frames \in Seq(Frame) /\ depth = Len(frames) /\ depth \in Nat /\ frames # <<>> /\ depth \in 1 .. depth
      /\ Good(accounts) /\ NoncesUsed(frames, start) /\ top = frames[depth]
  BY DEF Consistent, depth, Counted, top
<1>2. Len(frames') = Len(frames) - 1
  BY <1>1, FrontOfStack
<1>3. ~Works
  BY <1>1, <1>2, WorksFrames
<1>4. ASSUME NEW f, Sends(f) PROVE FALSE
  BY <1>1, <1>2, <1>4, SendsFrames DEF Sends, FrameOK
<1>5. ASSUME NEW v, EndTransaction(v) PROVE FALSE
  BY <1>1, <1>5 DEF EndTransaction
<1>6. PICK v \in vm_results(top) : return_to_caller(v)
  <2>1. ASSUME NEW t \in Transactions, RejectTransaction(t) \/ StartTransaction(t) PROVE FALSE
    BY <1>1, <2>1 DEF RejectTransaction, StartTransaction, Between
  <2>2. ASSUME NEW w, Finalize(w) PROVE FALSE
    BY <1>1, <2>2 DEF Finalize
  <2> QED
    BY <1>3, <1>4, <1>5, <2>1, <2>2, StepCases
<1> DEFINE r == checked_result(top, v)
<1>7. accounts' = accounts_after(top, r)
  BY <1>6 DEF return_to_caller
<1> HIDE DEF r
<1>8. Ended(top, r, accounts')
  BY <1>1, <1>7, EndOfMessage DEF r
<1>9. FrameOK(top) /\ Under(top, accounts, Len(logs)) /\ top \in Frame
  BY <1>1, ConsistentFrames
<1>10. /\ top.recipient \in Address /\ top.sender \in Address /\ Good(top.snapshot) /\ Good(accounts')
       /\ top.snapshot[top.recipient].access_status = "WARM"
  BY <1>8, <1>9, FrameTypes DEF FrameOK, Ended
<1>11. Later(top.snapshot, accounts')
  <2>1. CASE r.status = "SUCCESS"
    BY <1>1, <1>8, <1>9, <1>10, <2>1, LaterTransitive DEF Ended, Under
  <2>2. CASE r.status # "SUCCESS"
    BY <1>8, <2>2, AdvancedIsLater DEF Ended
  <2> QED
    BY <2>1, <2>2
<1>12. accounts'[top.recipient].access_status = "WARM"
  BY <1>10, <1>11 DEF Later, Grown
<1>13. accounts'[top.sender].nonce >= top.snapshot[top.sender].nonce
       /\ accounts'[top.sender].nonce \in Nat /\ top.snapshot[top.sender].nonce \in Nat
  BY <1>10, <1>11, AccountTypes DEF Later, Grown, Good
<1>14. top.snapshot[top.sender].nonce >= start[top.sender].nonce + Cardinality(Creations(frames, depth, top.sender))
  BY <1>1, <1>10 DEF NoncesUsed
<1>15. start[top.sender].nonce \in Nat /\ Cardinality(Creations(frames, depth, top.sender)) \in Nat
  BY <1>1, <1>10, CreationsFinite DEF NoncesUsed
<1>16. OpenCreations(top.sender) = Creations(frames, depth, top.sender)
  BY DEF OpenCreations, Creations
<1>17. accounts'[top.sender].nonce >= start[top.sender].nonce + Cardinality(OpenCreations(top.sender))
  BY <1>13, <1>14, <1>15, <1>16
<1> QED
  BY <1>12, <1>17

(* Both, as ExemptEffectsSurvive has them.                                 *)
ExemptStep ==
  /\ Touched03 /\ block' = "open" => Touched03'
  /\ depth > 1 /\ frames' = SubSeq(frames, 1, depth - 1) /\ top.kind \in Creates =>
       /\ accounts'[top.recipient].access_status = "WARM"
       /\ accounts'[top.sender].nonce >=
            start[top.sender].nonce + Cardinality(OpenCreations(top.sender))

(* The touch of Z03 outlives a failure, and so do the warmth of the        *)
(* address of a creation and the nonces that its creator used up.          *)
THEOREM ExemptionsHold == Spec => ExemptEffectsSurvive
<1>1. Init => Counted
  BY InitConsistent, NoncesStart DEF Init, Counted, Consistent
<1>2. Reachable /\ Counted /\ [Next]_vars => Counted'
  <2>1. Overcharged /\ Counted /\ [Next]_vars => Counted'
    BY OverchargedStays DEF vars, Counted
  <2> QED
    BY <2>1, NextCounted DEF Reachable
<1>3. Reachable /\ Counted /\ [Next]_vars => [ExemptStep]_vars
  <2>1. Consistent /\ Counted /\ [Next]_vars => [ExemptStep]_vars
    BY StepTouch, StepCreation DEF ExemptStep, TouchSurvives, CreationSurvives
  <2>2. Overcharged /\ [Next]_vars => [ExemptStep]_vars
    BY OverchargedStays
  <2> QED
    BY <2>1, <2>2 DEF Reachable
<1>4. Spec => [][ExemptStep]_vars
  BY <1>1, <1>2, <1>3, ConsistentAlways, PTL DEF Spec
<1> QED
  BY <1>4 DEF ExemptEffectsSurvive, ExemptStep

------------------------------------------------------------------------------
(* The host implements Ledger.                                             *)

(* The world that Ledger sees: during a transaction the one before it.     *)
Seen == IF frames = <<>> THEN World(accounts) ELSE start

(* The transactions that Ledger sees executed.                             *)
Done == IF frames = <<>> THEN txs ELSE txs - 1

(* The operators of State mean the same in Ledger.                         *)
LEMMA LedgerChecks ==
  ASSUME NEW x, NEW t
  PROVE  L!checks(x, t) = checks(x, t)
<1>1. L!compute_tx_intrinsic_cost(t) = compute_tx_intrinsic_cost(t)
  BY DEF L!compute_tx_intrinsic_cost, compute_tx_intrinsic_cost, L!is_create, is_create, L!num_words, num_words,
         L!data_size, data_size, L!compute_tx_data_cost, compute_tx_data_cost, L!compute_access_list_cost,
         compute_access_list_cost, L!MapThenFoldSet, MapThenFoldSet
<1>2. L!tx_cost_limit(t) = tx_cost_limit(t)
  BY DEF L!tx_cost_limit, tx_cost_limit
<1> QED
  BY <1>1, <1>2 DEF L!checks, checks, L!EmptyCode, EmptyCode, L!is_create, is_create, L!data_size, data_size,
                    L!max_initcode_size, max_initcode_size, L!max_code_size, max_code_size

(* Validation means the same in Ledger.                                    *)
LEMMA LedgerValid ==
  ASSUME NEW x, NEW t
  PROVE  /\ L!valid_transaction(x, t) <=> valid_transaction(x, t)
         /\ L!validation_error(x, t) = validation_error(x, t)
<1>1. L!failed_checks(x, t) = failed_checks(x, t)
  BY LedgerChecks DEF L!failed_checks, failed_checks
<1> QED
  BY <1>1, LedgerChecks DEF L!valid_transaction, valid_transaction, L!validation_error, validation_error

(* The sum of balances is the same in Ledger.                              *)
LEMMA LedgerTotal ==
  ASSUME NEW accs
  PROVE  L!Total(World(accs)) = TotalBalance(accs)
  BY ZenonT(40) DEF L!Total, TotalBalance, World, Contents, L!MapThenFoldSet, MapThenFoldSet

(* Prices are the same in Ledger.                                          *)
LEMMA LedgerPrices ==
  ASSUME NEW t
  PROVE  /\ L!effective_gas_price(t) = effective_gas_price(t)
         /\ L!priority_gas_price(t) = priority_gas_price(t)
  BY DEF L!effective_gas_price, effective_gas_price, L!priority_gas_price, priority_gas_price, L!min, min

(* Validation looks only at the contents of the sender's account.          *)
LEMMA ContentsValid ==
  ASSUME NEW accs, NEW s \in Address, NEW t
  PROVE  /\ valid_transaction(World(accs)[s], t) <=> valid_transaction(accs[s], t)
         /\ validation_error(World(accs)[s], t) = validation_error(accs[s], t)
<1>1. checks(World(accs)[s], t) = checks(accs[s], t)
  BY WorldFields DEF checks
<1>2. failed_checks(World(accs)[s], t) = failed_checks(accs[s], t)
  BY <1>1 DEF failed_checks
<1> QED
  BY <1>1, <1>2 DEF valid_transaction, validation_error

(* What the sender's account is while its transaction runs: nobody else    *)
(* spends from it, creates with its nonce or gives it code.                *)
Spared(x, was, t) ==
  /\ x.code = EmptyCode
  /\ x.nonce = was.nonce + 1
  /\ x.balance >= was.balance - (tx_max_cost(t) + t.value)

(* The accounts new are those of before, once the sender of t has paid for *)
(* its gas and used a nonce.                                               *)
Charged(before, new, t) ==
  \A a \in Address :
    /\ new[a].nonce = before[a].nonce + (IF a = t.sender THEN 1 ELSE 0)
    /\ new[a].balance = before[a].balance - (IF a = t.sender THEN tx_max_cost(t) ELSE 0)
    /\ new[a].code = before[a].code /\ new[a].storage = before[a].storage

(* The inductive invariant: the world before the transaction was one in    *)
(* which it is valid and has the value there must be; the first message    *)
(* stands on it; and the sender's account, now and in every snapshot, is   *)
(* as the transaction left it, since no message of its own runs code.      *)
Atomic ==
  frames # <<>> =>
    /\ start \in [Address -> [nonce : Nat, balance : Int, code : Code, storage : Nat]]
    /\ valid_transaction(start[tx.sender], tx)
    /\ L!Total(start) = supply
    /\ Charged(start, frames[1].snapshot, tx)
    /\ Spared(accounts[tx.sender], start[tx.sender], tx)
    /\ \A k \in 1 .. depth :
         /\ Spared(frames[k].snapshot[tx.sender], start[tx.sender], tx)
         /\ frames[k].runs = "code" => frames[k].recipient # tx.sender

(* The same nonce, balance and code are spared too.                        *)
LEMMA SparedSame ==
  ASSUME NEW x, NEW y, NEW was, NEW t, Spared(x, was, t),
         y.code = x.code, y.nonce = x.nonce, y.balance = x.balance
  PROVE  Spared(y, was, t)
  BY DEF Spared

(* A message that another account sends.                                   *)
LEMMA SparedOpens ==
  ASSUME NEW accs, NEW f, NEW new, NEW s \in Address, NEW was, NEW t,
         Good(accs), FrameOK(f), Opens(accs, f, new), Spared(accs[s], was, t), Senders(f.snapshot),
         depth # 0, f.kind # "DELEGATECALL" => f.sender # s,
         was.nonce \in Nat, was.balance \in Int, tx_max_cost(t) \in Nat, t.value \in Nat
  PROVE  Spared(f.snapshot[s], was, t) /\ Spared(new[s], was, t)
<1>1. /\ accs[s] \in Account /\ f.snapshot[s] \in Account /\ new[s] \in Account /\ f \in Frame
      /\ Good(f.snapshot) /\ Good(new)
  BY DEF Good, FrameOK, Opens
<1>2. f.kind \in Creates => f.kind # "DELEGATECALL"
  BY KindsDiffer
<1>3. /\ f.snapshot[s].nonce = accs[s].nonce + (IF (depth = 0 \/ f.kind \in Creates) /\ s = f.sender THEN 1 ELSE 0)
      /\ f.snapshot[s].nonce # 0 => new[s].nonce = f.snapshot[s].nonce
  BY DEF Opens
<1>4. accs[s].nonce = was.nonce + 1 /\ accs[s].nonce \in Nat
  BY <1>1, AccountTypes DEF Spared
<1>5. f.snapshot[s].nonce = was.nonce + 1 /\ new[s].nonce = was.nonce + 1
  BY <1>2, <1>3, <1>4
<1>6. f.snapshot[s].code = EmptyCode /\ new[s].code = EmptyCode
  BY DEF Opens, Advanced, Kept, Spared
<1>7. f.snapshot[s].balance = accs[s].balance
  BY DEF Opens, SameBalances
<1>8. accs[s].balance \in Int /\ new[s].balance \in Int /\ f.value \in Nat
  BY <1>1, AccountTypes, FrameTypes
<1>9. new[s].balance >= accs[s].balance
  <2>1. CASE SameBalances(f.snapshot, new)
    BY <1>7, <1>8, <2>1 DEF SameBalances
  <2>2. CASE f.kind # "DELEGATECALL" /\ Moved(f.snapshot, new, f.sender, f.recipient, f.value)
    <3>1. new[s].balance = f.snapshot[s].balance - (IF s = f.sender THEN f.value ELSE 0)
            + (IF s = f.recipient THEN f.value ELSE 0)
      BY <2>2 DEF Moved
    <3> QED
      BY <1>7, <1>8, <2>2, <3>1
  <2> QED
    BY <2>1, <2>2 DEF Opens
<1>10. Spared(f.snapshot[s], was, t)
  BY <1>5, <1>6, <1>7 DEF Spared
<1>11. Spared(new[s], was, t)
  <2> DEFINE b == was.balance - (tx_max_cost(t) + t.value)
  <2>1. accs[s].balance >= b /\ b \in Int
    BY DEF Spared
  <2> HIDE DEF b
  <2>2. new[s].balance >= b
    BY <1>8, <1>9, <2>1
  <2> QED
    BY <1>5, <1>6, <2>2 DEF Spared, b
<1> QED
  BY <1>10, <1>11

(* The sender's account runs no code: it has none, and no creation gets    *)
(* its address.                                                            *)
LEMMA SparedRuns ==
  ASSUME NEW f, NEW s \in Address, NEW was, NEW t, FrameOK(f), Spared(f.snapshot[s], was, t),
         was.nonce \in Nat, f.snapshot[s].exists, f.runs = "code", f.kind # "DELEGATECALL",
         f.kind = "CALL" => f.snapshot[f.recipient].code # EmptyCode
  PROVE  f.recipient # s
<1> SUFFICES ASSUME f.recipient = s PROVE FALSE
  OBVIOUS
<1>1. f.snapshot[s].code = EmptyCode /\ f.snapshot[s].nonce # 0
  BY DEF Spared
<1>2. f.kind \in {"CALL"} \cup Creates
  BY FrameTypes DEF FrameOK
<1>3. f.kind \in Creates => ~collision(f.snapshot[s])
  BY DEF FrameOK
<1> QED
  BY <1>1, <1>2, <1>3 DEF collision

(* The end of a message, with or without success.                          *)
LEMMA SparedEnded ==
  ASSUME NEW f, NEW r, NEW new, NEW s \in Address, NEW was, NEW t, FrameOK(f), Ended(f, r, new),
         Spared(f.snapshot[s], was, t), Spared(accounts[s], was, t), f.runs = "code" => f.recipient # s
  PROVE  Spared(new[s], was, t)
<1>1. CASE r.status = "SUCCESS"
  <2>1. new[s].nonce = accounts[s].nonce /\ new[s].balance = accounts[s].balance
    BY <1>1 DEF Ended, SameBalances
  <2>2. new[s].code = accounts[s].code
    BY <1>1 DEF Ended, FrameOK
  <2> QED
    BY <2>1, <2>2, SparedSame
<1>2. CASE r.status # "SUCCESS"
  <2>1. SameContents(f.snapshot[s], new[s])
    BY <1>2 DEF Ended, SameWorld
  <2> QED
    BY <2>1, SparedSame DEF SameContents
<1> QED
  BY <1>1, <1>2

(* The type of a world.                                                    *)
LEMMA WorldType ==
  ASSUME NEW accs, Good(accs)
  PROVE  World(accs) \in [Address -> [nonce : Nat, balance : Int, code : Code, storage : Nat]]
<1>1. ASSUME NEW a \in Address
      PROVE  Contents(accs[a]) \in [nonce : Nat, balance : Int, code : Code, storage : Nat]
  <2>1. accs[a] \in Account
    BY DEF Good
  <2> QED
    BY <2>1, AccountTypes DEF Contents
<1> QED
  BY <1>1 DEF World

(* The first message of a transaction.                                     *)
LEMMA AtomicStart ==
  ASSUME Consistent, Balanced, block = "open", NEW t \in Transactions, NEW f, Starts(t, f)
  PROVE  Atomic'
<1>1. /\ frames = <<>> /\ frames' = Append(frames, f) /\ valid_transaction(accounts[t.sender], t)
      /\ FrameOK(f) /\ f \in Frame /\ Opens(charged(accounts, t), f, accounts')
      /\ f.sender = t.sender /\ f.value = t.value /\ f.kind # "DELEGATECALL"
      /\ f.kind = "CALL" /\ f.runs = "code" => f.snapshot[f.recipient].code # EmptyCode
      /\ tx' = t /\ start' = World(accounts) /\ supply' = supply
  BY DEF Starts, FrameOK
<1>2. Good(accounts) /\ Covered(accounts) /\ Senders(accounts)
  BY DEF Consistent, StackOK
<1>3. Len(frames') = 1 /\ frames'[1] = f /\ depth' = 1 /\ depth = 0 /\ frames' # <<>>
  BY <1>1 DEF depth
<1>4. start' \in [Address -> [nonce : Nat, balance : Int, code : Code, storage : Nat]]
  BY <1>1, <1>2, WorldType
<1> DEFINE s == t.sender
           was == World(accounts)[s]
           c == charged(accounts, t)
<1>5. s \in Address /\ t.value \in Nat /\ accounts[s] \in Account
  BY <1>2, TransactionTypes DEF Good
<1>6. Priced(t) /\ tx_max_cost(t) \in Nat
  BY <1>1, <1>5, CostCovered, Prices
<1>7. valid_transaction(start'[s], t)
  BY <1>1, <1>5, ContentsValid
<1>8. L!Total(start') = supply'
  <2>1. TotalBalance(accounts) = supply
    <3>1. TotalBalance(accounts) \in Int
      BY <1>2, TotalType
    <3> QED
      BY <1>1, <3>1 DEF Balanced, ValueConserved, Prepaid
  <2> QED
    BY <1>1, <2>1, LedgerTotal
<1>9. ASSUME NEW a \in Address
      PROVE  /\ f.snapshot[a].nonce = accounts[a].nonce + (IF a = s THEN 1 ELSE 0)
             /\ f.snapshot[a].balance = accounts[a].balance - (IF a = s THEN tx_max_cost(t) ELSE 0)
             /\ f.snapshot[a].code = accounts[a].code /\ f.snapshot[a].storage = accounts[a].storage
  <2>1. /\ c[a].balance = accounts[a].balance - (IF a = s THEN tx_max_cost(t) ELSE 0)
        /\ c[a].nonce = accounts[a].nonce /\ c[a].storage = accounts[a].storage /\ c[a].code = accounts[a].code
    BY <1>1, <1>2, ChargedMap
  <2>2. /\ f.snapshot[a].nonce = c[a].nonce + (IF (depth = 0 \/ f.kind \in Creates) /\ a = f.sender THEN 1 ELSE 0)
        /\ f.snapshot[a].storage = c[a].storage /\ f.snapshot[a].code = c[a].code
        /\ f.snapshot[a].balance = c[a].balance
    BY <1>1 DEF Opens, Advanced, Kept, SameBalances
  <2> HIDE DEF c
  <2> QED
    BY <1>1, <1>3, <2>1, <2>2
<1>10. Charged(start', f.snapshot, t)
  <2>1. ASSUME NEW a \in Address
        PROVE  /\ f.snapshot[a].nonce = start'[a].nonce + (IF a = t.sender THEN 1 ELSE 0)
               /\ f.snapshot[a].balance = start'[a].balance - (IF a = t.sender THEN tx_max_cost(t) ELSE 0)
               /\ f.snapshot[a].code = start'[a].code /\ f.snapshot[a].storage = start'[a].storage
    BY <1>1, <1>9, WorldFields
  <2> QED
    BY <2>1 DEF Charged
<1>11. /\ f.snapshot[s].nonce = was.nonce + 1 /\ f.snapshot[s].code = EmptyCode
       /\ f.snapshot[s].balance = was.balance - tx_max_cost(t)
       /\ was.nonce \in Nat /\ was.balance \in Int
  <2>1. accounts[s].code = EmptyCode
    BY <1>1, ValidFacts
  <2>2. was.nonce = accounts[s].nonce /\ was.balance = accounts[s].balance
    BY <1>5, WorldFields
  <2> QED
    BY <1>5, <1>9, <2>1, <2>2, AccountTypes
<1> HIDE DEF was
<1>12. Spared(f.snapshot[s], was, t)
  BY <1>5, <1>6, <1>11 DEF Spared
<1>13. Spared(accounts'[s], was, t)
  <2>1. Good(accounts') /\ accounts'[s] \in Account /\ Good(f.snapshot) /\ f.snapshot[s] \in Account
    BY <1>1, <1>5 DEF Opens, Good, FrameOK
  <2>2. accounts'[s].nonce = was.nonce + 1
    BY <1>1, <1>5, <1>11 DEF Opens
  <2>3. accounts'[s].code = EmptyCode
    BY <1>1, <1>5, <1>11 DEF Opens, Advanced, Kept
  <2>4. accounts'[s].balance >= f.snapshot[s].balance - t.value
    <3>1. accounts'[s].balance \in Int /\ f.snapshot[s].balance \in Int
      BY <2>1, AccountTypes
    <3>2. CASE SameBalances(f.snapshot, accounts')
      BY <1>5, <3>1, <3>2 DEF SameBalances
    <3>3. CASE Moved(f.snapshot, accounts', f.sender, f.recipient, f.value)
      <4>1. accounts'[s].balance = f.snapshot[s].balance - (IF s = f.sender THEN f.value ELSE 0)
            + (IF s = f.recipient THEN f.value ELSE 0)
        BY <1>5, <3>3 DEF Moved
      <4> QED
        BY <1>1, <1>5, <3>1, <4>1
    <3> QED
      BY <1>1, <3>2, <3>3 DEF Opens
  <2>5. accounts'[s].balance \in Int
    BY <2>1, AccountTypes
  <2> QED
    BY <1>5, <1>6, <1>11, <2>2, <2>3, <2>4, <2>5 DEF Spared
<1>14. f.runs = "code" => f.recipient # s
  <2>1. f.snapshot[s].exists
    BY <1>1 DEF FrameOK, Senders
  <2> QED
    BY <1>1, <1>5, <1>11, <1>12, <2>1, SparedRuns
<1>15. \A k \in 1 .. depth' :
         /\ Spared(frames'[k].snapshot[tx'.sender], start'[tx'.sender], tx')
         /\ frames'[k].runs = "code" => frames'[k].recipient # tx'.sender
  <2>1. \A k \in 1 .. depth' : frames'[k] = f
    BY <1>3
  <2> QED
    BY <1>1, <1>12, <1>14, <2>1 DEF was
<1>16. /\ valid_transaction(start'[tx'.sender], tx')
       /\ Charged(start', frames'[1].snapshot, tx')
       /\ Spared(accounts'[tx'.sender], start'[tx'.sender], tx')
  BY <1>1, <1>3, <1>7, <1>10, <1>13 DEF was
<1> QED
  BY <1>4, <1>8, <1>15, <1>16 DEF Atomic

(* finalize() runs between transactions and leaves the receipt alone.      *)
LEMMA FinalizeFrames ==
  ASSUME NEW w, Finalize(w)
  PROVE  /\ frames = <<>> /\ frames' = <<>> /\ receipt' = receipt /\ txs' = txs
         /\ accounts' = withdrawn(erased(accounts), w)
<1>1. frames = <<>> /\ accounts' = withdrawn(erased(accounts), w)
  BY DEF Finalize
<1>2. UNCHANGED <<logs, frames, tx, receipt, txs, ops, emitted, failed>>
  BY DEF Finalize
<1>3. frames' = frames /\ receipt' = receipt /\ txs' = txs
  BY <1>2
<1> QED
  BY <1>1, <1>3

(* Every step keeps the invariant of the refinement.                       *)
LEMMA NextAtomic ==
  ASSUME Consistent, Balanced, Atomic, [Next]_vars
  PROVE  Atomic'
<1>1. /\ frames \in Seq(Frame) /\ depth = Len(frames) /\ depth \in Nat /\ depth' = Len(frames')
      /\ (frames # <<>> => depth \in 1 .. depth /\ 1 \in 1 .. depth)
      /\ Good(accounts) /\ Covered(accounts) /\ tx \in Transactions
  BY DEF Consistent, depth
<1> DEFINE s == tx.sender
           was == start[tx.sender]
<1>2. s \in Address /\ tx.value \in Nat
  BY <1>1, TransactionTypes
<1>3. ASSUME frames # <<>>
      PROVE  /\ start \in [Address -> [nonce : Nat, balance : Int, code : Code, storage : Nat]]
             /\ valid_transaction(start[tx.sender], tx) /\ L!Total(start) = supply
             /\ Charged(start, frames[1].snapshot, tx)
             /\ Spared(accounts[s], was, tx)
             /\ \A k \in 1 .. depth : /\ Spared(frames[k].snapshot[s], was, tx)
                                      /\ frames[k].runs = "code" => frames[k].recipient # s
             /\ tx_max_cost(tx) \in Nat /\ was.nonce \in Nat /\ was.balance \in Int
  <2>1. tx_max_cost(tx) \in Nat
    BY <1>1, <1>3, Prices DEF Consistent
  <2>2. start \in [Address -> [nonce : Nat, balance : Int, code : Code, storage : Nat]]
    BY <1>3 DEF Atomic
  <2>3. was.nonce \in Nat /\ was.balance \in Int
    BY <1>2, <2>2
  <2> QED
    BY <1>3, <2>1, <2>2, <2>3 DEF Atomic
<1> HIDE DEF s, was
<1>4. ASSUME frames # <<>>, UNCHANGED <<tx, start, supply>>, frames'[1].snapshot = frames[1].snapshot,
             Spared(accounts'[s], was, tx),
             \A k \in 1 .. Len(frames') : /\ Spared(frames'[k].snapshot[s], was, tx)
                                          /\ frames'[k].runs = "code" => frames'[k].recipient # s
      PROVE  Atomic'
  <2>1. /\ start' \in [Address -> [nonce : Nat, balance : Int, code : Code, storage : Nat]]
        /\ valid_transaction(start'[tx'.sender], tx') /\ L!Total(start') = supply'
        /\ Charged(start', frames'[1].snapshot, tx')
    BY <1>3, <1>4
  <2>2. Spared(accounts'[tx'.sender], start'[tx'.sender], tx')
    BY <1>4 DEF s, was
  <2>3. \A k \in 1 .. depth' : /\ Spared(frames'[k].snapshot[tx'.sender], start'[tx'.sender], tx')
                               /\ frames'[k].runs = "code" => frames'[k].recipient # tx'.sender
    BY <1>1, <1>4 DEF s, was
  <2> QED
    BY <2>1, <2>2, <2>3 DEF Atomic
<1>5. CASE UNCHANGED vars
  BY <1>5 DEF vars, Atomic, depth
<1>6. CASE frames' = <<>>
  BY <1>6 DEF Atomic
<1>7. CASE \E t \in Transactions : StartTransaction(t)
  <2>0. PICK t \in Transactions : StartTransaction(t)
    BY <1>7
  <2>1. PICK f : Starts(t, f)
    BY <2>0, StartStep
  <2>2. \E u \in Transactions : block = "open"
    BY <1>7 DEF StartTransaction, Between
  <2> QED
    BY <2>1, <2>2, AtomicStart
<1>8. CASE Works
  <2>1. /\ frames # <<>> /\ UNCHANGED <<tx, start, supply>>
        /\ Advanced(accounts, accounts') /\ SameBalances(accounts, accounts')
        /\ \A a \in Address : accounts'[a].nonce = accounts[a].nonce
    BY <1>8 DEF Works
  <2>2. /\ Len(frames') = Len(frames)
        /\ \A k \in 1 .. Len(frames) :
              /\ frames'[k].recipient = frames[k].recipient /\ frames'[k].snapshot = frames[k].snapshot
              /\ frames'[k].runs \in {frames[k].runs, "failed"}
    BY <1>1, <1>8, WorksFrames
  <2>3. Spared(accounts'[s], was, tx)
    <3>1. accounts'[s].code = accounts[s].code /\ accounts'[s].balance = accounts[s].balance
      BY <1>2, <2>1 DEF Advanced, Kept, SameBalances
    <3> QED
      BY <1>2, <1>3, <2>1, <3>1, SparedSame
  <2>4. \A k \in 1 .. Len(frames') : /\ Spared(frames'[k].snapshot[s], was, tx)
                                     /\ frames'[k].runs = "code" => frames'[k].recipient # s
    BY <1>1, <1>3, <2>1, <2>2
  <2>5. frames'[1].snapshot = frames[1].snapshot
    BY <1>1, <2>1, <2>2
  <2> QED
    BY <1>4, <2>1, <2>3, <2>4, <2>5
<1>9. CASE \E f : Sends(f)
  <2>1. PICK f : Sends(f)
    BY <1>9
  <2>2. /\ frames # <<>> /\ frames' = Append(frames, f) /\ FrameOK(f) /\ f \in Frame
        /\ Opens(accounts, f, accounts') /\ UNCHANGED <<tx, start, supply>>
        /\ top.runs = "code" /\ Senders(f.snapshot)
        /\ f.kind = "DELEGATECALL" => f.recipient = top.recipient
        /\ f.kind # "DELEGATECALL" => f.sender = top.recipient
        /\ f.kind = "CALL" /\ f.runs = "code" => f.snapshot[f.recipient].code # EmptyCode
    BY <2>1 DEF Sends, FrameOK
  <2>3. top.recipient # s
    BY <1>1, <1>3, <2>2 DEF top
  <2>4. depth # 0
    BY <1>1, <2>2
  <2>5. Spared(f.snapshot[s], was, tx) /\ Spared(accounts'[s], was, tx)
    BY <1>1, <1>2, <1>3, <2>2, <2>3, <2>4, SparedOpens
  <2>6. f.runs = "code" => f.recipient # s
    <3>1. f.snapshot[s].exists
      BY <1>1, <2>2 DEF Senders, s
    <3> QED
      BY <1>2, <1>3, <2>2, <2>3, <2>5, <3>1, SparedRuns
  <2>7. /\ Len(frames') = Len(frames) + 1 /\ frames'[Len(frames) + 1] = f
        /\ \A k \in 1 .. Len(frames) : frames'[k] = frames[k]
    BY <1>1, <2>2, SendsFrames
  <2>8. ASSUME NEW k \in 1 .. Len(frames')
        PROVE  /\ Spared(frames'[k].snapshot[s], was, tx)
               /\ frames'[k].runs = "code" => frames'[k].recipient # s
    <3>1. k \in 1 .. Len(frames) \/ k = Len(frames) + 1
      BY <1>1, <2>7
    <3> QED
      BY <1>1, <1>3, <2>2, <2>5, <2>6, <2>7, <3>1
  <2>9. frames'[1].snapshot = frames[1].snapshot
    BY <1>1, <2>2, <2>7
  <2> QED
    BY <1>4, <2>2, <2>5, <2>8, <2>9
<1>10. CASE frames # <<>> /\ \E v \in vm_results(top) : return_to_caller(v)
  <2>1. PICK v \in vm_results(top) : return_to_caller(v)
    BY <1>10
  <2> DEFINE r == checked_result(top, v)
  <2>2. /\ depth > 1 /\ accounts' = accounts_after(top, r) /\ frames' = SubSeq(frames, 1, depth - 1)
        /\ UNCHANGED <<tx, start, supply>>
    BY <2>1 DEF return_to_caller
  <2> HIDE DEF r
  <2>3. Ended(top, r, accounts')
    BY <1>10, <2>2, EndOfMessage DEF r
  <2>4. top = frames[depth] /\ depth \in 1 .. depth
    BY <1>1, <2>2 DEF top
  <2>5. FrameOK(top)
    BY <2>4, ConsistentFrames
  <2>6. Spared(accounts'[s], was, tx)
    BY <1>2, <1>3, <1>10, <2>3, <2>4, <2>5, SparedEnded
  <2>7. Len(frames') = Len(frames) - 1 /\ \A k \in 1 .. Len(frames) - 1 : frames'[k] = frames[k]
    BY <1>1, <1>10, <2>2, FrontOfStack
  <2>8. ASSUME NEW k \in 1 .. Len(frames')
        PROVE  /\ Spared(frames'[k].snapshot[s], was, tx)
               /\ frames'[k].runs = "code" => frames'[k].recipient # s
    <3>1. k \in 1 .. Len(frames) - 1 /\ k \in 1 .. depth
      BY <1>1, <2>7
    <3> QED
      BY <1>3, <1>10, <2>7, <3>1
  <2>9. frames'[1].snapshot = frames[1].snapshot
    BY <1>1, <2>2, <2>7
  <2> QED
    BY <1>4, <1>10, <2>2, <2>6, <2>8, <2>9
<1>11. CASE Next
  <2>1. CASE \E t \in Transactions : RejectTransaction(t)
    BY <1>6, <2>1 DEF RejectTransaction, Between
  <2>2. CASE \E v \in vm_results(top) : EndTransaction(v)
    BY <1>6, <2>2 DEF EndTransaction
  <2>3. CASE \E w \in Withdrawals : Finalize(w)
    BY <1>6, <2>3, FinalizeFrames
  <2> QED
    BY <1>7, <1>8, <1>9, <1>10, <1>11, <2>1, <2>2, <2>3, StepCases
<1> QED
  BY <1>5, <1>11

(* The steps of Ledger, from world w to world v with receipt rc.           *)
ExecuteTo(w, v, rc, t) ==
  /\ v[t.sender].nonce = w[t.sender].nonce + 1
  /\ rc.gas_used >= 1
  /\ valid_transaction(w[t.sender], t)
  /\ L!Total(v) = L!Total(w) - rc.gas_used * base_fee
  /\ v[t.sender].balance >= w[t.sender].balance - rc.gas_used * effective_gas_price(t) - t.value
  /\ \A a \in Address :
       /\ v[a].nonce >= w[a].nonce
       /\ v[a].balance >= 0 \/ (a = t.sender /\ rc.gas_used > t.gas_limit)
       /\ w[a].code # EmptyCode => v[a].code = w[a].code
  /\ rc.status # "SUCCESS" => v = L!OnlyFees(w, t, rc.gas_used)

CloseTo(w, v, ws) ==
  \A a \in Address :
    /\ v[a].balance = w[a].balance + amounts(ws, a)
    /\ v[a].nonce = w[a].nonce
    /\ v[a].code = w[a].code
    /\ v[a].storage = w[a].storage \/ w[a].code = EmptyCode

(* The transition of worlds is a step Execute of Ledger.                   *)
LEMMA LedgerExecute ==
  ASSUME NEW t, ExecuteTo(Seen, Seen', receipt', t), Done' = Done + 1,
         Done = 0 \/ receipt'.status # "SUCCESS" => receipt'.gas_used <= t.gas_limit
  PROVE  L!Execute(t)
  BY LedgerValid, LedgerPrices DEF L!Execute, ExecuteTo, Seen, Done, L!EmptyCode, EmptyCode

(* The payment of withdrawals is a step Close of Ledger.                   *)
LEMMA LedgerClose ==
  ASSUME NEW ws, CloseTo(Seen, Seen', ws), receipt' = receipt, Done' = Done
  PROVE  L!Close(ws)
  BY DEF L!Close, CloseTo, Seen, Done, L!EmptyCode, EmptyCode, amounts, L!MapThenFoldSet, MapThenFoldSet,
         L!get_amount, get_amount

(* A rejection that changes no world is a step Reject of Ledger.           *)
LEMMA LedgerReject ==
  ASSUME NEW t, receipt'.gas_used = 0, receipt'.logs = <<>>, ~valid_transaction(Seen[t.sender], t),
         receipt'.status = validation_error(Seen[t.sender], t), Seen' = Seen,
         Done' = Done
  PROVE  L!Reject(t)
  BY LedgerValid DEF L!Reject, Seen, Done

(* These steps and stuttering are all that Ledger allows.                  *)
LEMMA LedgerStep ==
  ASSUME \/ \E t \in Transactions : L!Execute(t) \/ L!Reject(t)
         \/ \E ws \in Withdrawals : L!Close(ws)
         \/ Seen' = Seen /\ receipt' = receipt /\ Done' = Done
  PROVE  [L!Next]_(L!vars)
  BY DEF L!Next, L!vars, Seen, Done

(* An address with no withdrawal gets nothing at the end of the block.     *)
LEMMA AmountNone ==
  ASSUME NEW w, NEW a, a \notin recipients(w)
  PROVE  amounts(w, a) = 0
<1>1. Mine(w, a) = {}
  BY DEF Mine, recipients
<1>2. IsFiniteSet({})
  BY FS_EmptySet
<1>3. amounts(w, a) = SumOver({}, Amounts(w, a))
  BY <1>1, <1>2, AmountIsSum
<1>4. PICK g : Sums(g, Amounts(w, a), {})
  BY <1>2, SumsExist
<1>5. SumOver({}, Amounts(w, a)) = g[{}]
  BY <1>2, <1>4, SumOverSums
<1>6. g[{}] = SumOf(g, Amounts(w, a), {})
  BY <1>4 DEF Sums
<1> QED
  BY <1>3, <1>5, <1>6 DEF SumOf

(* Finalize implements Close.                                              *)
LEMMA CloseStep ==
  ASSUME Consistent, NEW w \in Withdrawals, Finalize(w)
  PROVE  L!Close(w)
<1>1. /\ frames = <<>> /\ frames' = <<>> /\ receipt' = receipt /\ txs' = txs
      /\ accounts' = withdrawn(erased(accounts), w)
  BY FinalizeFrames
<1>2. Good(accounts) /\ Covered(accounts)
  BY DEF Consistent
<1>3. Seen = World(accounts) /\ Seen' = World(accounts') /\ Done' = Done
  BY <1>1 DEF Seen, Done
<1>4. ASSUME NEW a \in Address
      PROVE  /\ accounts'[a].balance = accounts[a].balance + amounts(w, a)
             /\ accounts'[a].nonce = accounts[a].nonce
             /\ accounts'[a].code = accounts[a].code
             /\ accounts'[a].storage = accounts[a].storage \/ accounts[a].code = EmptyCode
  <2>1. /\ accounts'[a].balance = accounts[a].balance + (IF a \in recipients(w) THEN amounts(w, a) ELSE 0)
        /\ accounts'[a].nonce = accounts[a].nonce
        /\ accounts'[a].code = accounts[a].code
        /\ accounts'[a].storage = accounts[a].storage \/ accounts[a].code = EmptyCode
    BY <1>1, <1>2, FinalMap
  <2>2. a \notin recipients(w) => amounts(w, a) = 0
    BY AmountNone
  <2> QED
    BY <2>1, <2>2
<1>5. CloseTo(World(accounts), World(accounts'), w)
  BY <1>4, WorldFields DEF CloseTo
<1> QED
  BY <1>1, <1>3, <1>5, LedgerClose

(* RejectTransaction implements Reject.                                    *)
LEMMA RejectsStep ==
  ASSUME Consistent, NEW t \in Transactions, RejectTransaction(t)
  PROVE  L!Reject(t)
<1>1. /\ frames = <<>> /\ frames' = frames /\ accounts' = accounts /\ ~valid_transaction(accounts[t.sender], t)
      /\ txs' = txs
      /\ receipt' = [status |-> validation_error(accounts[t.sender], t), gas_used |-> 0, logs |-> <<>>]
  BY DEF RejectTransaction, Between
<1>2. Seen = World(accounts) /\ Seen' = Seen /\ Done' = Done
  BY <1>1 DEF Seen, Done
<1>3. t.sender \in Address
  BY TransactionTypes
<1>4. /\ ~valid_transaction(Seen[t.sender], t)
      /\ validation_error(Seen[t.sender], t) = validation_error(accounts[t.sender], t)
  BY <1>1, <1>2, <1>3, ContentsValid
<1> QED
  BY <1>1, <1>2, <1>4, LedgerReject

(* A world that differs from w in what transaction t pays for its gas.     *)
FeesPaid(w, accs, t, fee, tip) ==
  \A a \in Address :
    /\ accs[a].nonce = w[a].nonce + (IF a = t.sender THEN 1 ELSE 0)
    /\ accs[a].balance = w[a].balance - (IF a = t.sender THEN fee ELSE 0) + (IF a = coinbase THEN tip ELSE 0)
    /\ accs[a].code = w[a].code /\ accs[a].storage = w[a].storage

(* Such a world is OnlyFees of Ledger.                                     *)
LEMMA FeesOnly ==
  ASSUME NEW w \in [Address -> [nonce : Nat, balance : Int, code : Code, storage : Nat]],
         NEW accs, NEW t, t.sender \in Address, NEW g,
         NEW fee \in Int, NEW tip \in Int, fee = g * L!effective_gas_price(t), tip = g * L!priority_gas_price(t),
         FeesPaid(w, accs, t, fee, tip)
  PROVE  World(accs) = L!OnlyFees(w, t, g)
<1> DEFINE s == t.sender
           x == [w[s] EXCEPT !.balance = @ - fee]
           y == [x EXCEPT !.nonce = @ + 1]
           v == [w EXCEPT ![s] = y]
           z == [v[coinbase] EXCEPT !.balance = @ + tip]
           u == [v EXCEPT ![coinbase] = z]
<1>1. s \in Address /\ coinbase \in Address
  BY AddressAssumption
<1>2. L!OnlyFees(w, t, g) = u
  BY <1>1 DEF L!OnlyFees
<1> DEFINE R == [nonce : Nat, balance : Int, code : Code, storage : Nat]
<1>3. y \in R /\ y.nonce = w[s].nonce + 1 /\ y.balance = w[s].balance - fee /\ y.code = w[s].code /\ y.storage = w[s].storage
  <2>1. w[s] \in R
    BY <1>1
  <2>2. x \in R /\ x.nonce = w[s].nonce /\ x.balance = w[s].balance - fee /\ x.code = w[s].code /\ x.storage = w[s].storage
    BY <2>1
  <2> HIDE DEF x
  <2> QED
    BY <2>2
<1> HIDE DEF y
<1>4. v \in [Address -> R] /\ \A a \in Address : v[a] = IF a = s THEN y ELSE w[a]
  BY <1>1, <1>3
<1> HIDE DEF v
<1>5. /\ z \in R /\ z.nonce = v[coinbase].nonce /\ z.balance = v[coinbase].balance + tip
      /\ z.code = v[coinbase].code /\ z.storage = v[coinbase].storage
  <2>1. v[coinbase] \in R
    BY <1>1, <1>4
  <2> QED
    BY <2>1
<1> HIDE DEF z
<1>6. u \in [Address -> R] /\ \A a \in Address : u[a] = IF a = coinbase THEN z ELSE v[a]
  BY <1>1, <1>4, <1>5
<1> HIDE DEF u
<1>7. ASSUME NEW a \in Address
      PROVE  Contents(accs[a]) = u[a]
  <2>1. u[a] \in R /\ v[a] \in R /\ w[a] \in R
    BY <1>4, <1>6
  <2>2. /\ v[a].nonce = w[a].nonce + (IF a = s THEN 1 ELSE 0)
        /\ v[a].balance = w[a].balance - (IF a = s THEN fee ELSE 0)
        /\ v[a].code = w[a].code /\ v[a].storage = w[a].storage
    BY <1>3, <1>4, <2>1
  <2>3. /\ u[a].nonce = v[a].nonce /\ u[a].balance = v[a].balance + (IF a = coinbase THEN tip ELSE 0)
        /\ u[a].code = v[a].code /\ u[a].storage = v[a].storage
    BY <1>5, <1>6, <2>1
  <2>4. /\ accs[a].nonce = u[a].nonce /\ accs[a].balance = u[a].balance
        /\ accs[a].code = u[a].code /\ accs[a].storage = u[a].storage
    BY <2>1, <2>2, <2>3 DEF FeesPaid
  <2>5. u[a] = [nonce |-> u[a].nonce, balance |-> u[a].balance, code |-> u[a].code, storage |-> u[a].storage]
    BY <2>1
  <2> QED
    BY <2>4, <2>5 DEF Contents
<1>8. World(accs) = u
  BY <1>6, <1>7 DEF World
<1> QED
  BY <1>2, <1>8

(* The end of a transaction is the step of Ledger that executes it.        *)
LEMMA ExecuteStep ==
  ASSUME Consistent, Balanced, Atomic, Balanced', frames # <<>>, NEW r, NEW g, NEW accs, Ends(r, g, accs)
  PROVE  ExecuteTo(start, World(accounts'), receipt', tx)
<1>1. /\ Ended(frames[1], r, accs) /\ g \in Nat \ {0} /\ accounts' = settled(accs, g)
      /\ supply' = supply - g * base_fee /\ frames' = <<>>
      /\ receipt'.status = r.status /\ receipt'.gas_used = g
      /\ Good(accs) /\ Covered(accs) /\ Senders(accs)
  BY DEF Ends, Ended
<1>2. /\ tx \in Transactions /\ Priced(tx) /\ depth \in Nat /\ 1 \in 1 .. depth /\ Good(accounts)
  BY DEF Consistent, depth
<1>3. /\ start \in [Address -> [nonce : Nat, balance : Int, code : Code, storage : Nat]]
      /\ valid_transaction(start[tx.sender], tx) /\ L!Total(start) = supply
      /\ Charged(start, frames[1].snapshot, tx)
      /\ Spared(accounts[tx.sender], start[tx.sender], tx)
      /\ Spared(frames[1].snapshot[tx.sender], start[tx.sender], tx)
      /\ frames[1].runs = "code" => frames[1].recipient # tx.sender
  BY <1>2 DEF Atomic
<1>4. FrameOK(frames[1]) /\ Under(frames[1], accounts, Len(logs))
  BY <1>2, ConsistentFrames
<1>5. tx.sender \in Address /\ tx.value \in Nat /\ tx_max_cost(tx) \in Nat
  BY <1>2, TransactionTypes, Prices
<1>6. Spared(accs[tx.sender], start[tx.sender], tx)
  BY <1>1, <1>3, <1>4, <1>5, SparedEnded
<1> DEFINE back == tx_max_cost(tx) - g * effective_gas_price(tx)
           tip == g * priority_gas_price(tx)
           fee == g * effective_gas_price(tx)
<1>7. /\ Good(accounts') /\ Advanced(accs, accounts') /\ Bounded(accounts', tx, g) /\ back \in Int /\ tip \in Nat
      /\ \A a \in Address :
           /\ accounts'[a].balance = accs[a].balance + (IF a = tx.sender THEN back ELSE 0)
                + (IF a = coinbase THEN tip ELSE 0)
           /\ accounts'[a].nonce = accs[a].nonce
           /\ accounts'[a].storage = accs[a].storage
           /\ accounts'[a].code = accs[a].code
  BY <1>1, <1>2, SettledMap
<1>8. fee \in Int /\ back = tx_max_cost(tx) - fee
  <2>1. g \in Int /\ effective_gas_price(tx) \in Int
    BY <1>1, <1>2, Prices, TransactionTypes
  <2> QED
    BY <2>1
<1> HIDE DEF back, tip, fee
<1>9. World(accounts')[tx.sender].nonce = start[tx.sender].nonce + 1
  BY <1>5, <1>6, <1>7, WorldFields DEF Spared
<1>10. L!Total(World(accounts')) = L!Total(start) - g * base_fee
  <2>1. TotalBalance(accounts') = supply'
    <3>1. TotalBalance(accounts') \in Int
      BY <1>7, TotalType
    <3>2. TotalBalance(accounts') + Prepaid' = supply' /\ Prepaid' = 0
      BY <1>1 DEF Balanced, ValueConserved, Prepaid
    <3> QED
      BY <3>1, <3>2
  <2>2. L!Total(World(accounts')) = TotalBalance(accounts')
    BY LedgerTotal
  <2> QED
    BY <1>1, <1>3, <2>1, <2>2
<1>11. World(accounts')[tx.sender].balance >= start[tx.sender].balance - fee - tx.value
  <2> DEFINE b == start[tx.sender].balance
             x == accs[tx.sender].balance
             y == accounts'[tx.sender].balance
             c == tx_max_cost(tx)
  <2>1. b \in Int /\ x \in Int /\ y \in Int /\ c \in Nat /\ x >= b - (c + tx.value)
    <3>1. accs[tx.sender] \in Account /\ accounts'[tx.sender] \in Account
      BY <1>1, <1>5, <1>7 DEF Good
    <3> QED
      BY <1>3, <1>5, <1>6, <3>1, AccountTypes DEF Spared
  <2>2. y = x + back + (IF tx.sender = coinbase THEN tip ELSE 0)
    BY <1>5, <1>7
  <2>3. World(accounts')[tx.sender].balance = y /\ back = c - fee
    BY <1>5, <1>8, WorldFields
  <2> DEFINE more == IF tx.sender = coinbase THEN tip ELSE 0
             paid == tx.value
  <2>4. /\ more \in Nat /\ paid \in Nat /\ fee \in Int /\ back = c - fee /\ x >= b - (c + paid)
        /\ y = x + back + more
    BY <1>5, <1>7, <1>8, <2>1, <2>2
  <2> HIDE DEF b, x, y, c, more, paid
  <2>5. y >= b - fee - paid
    BY <2>1, <2>4
  <2> QED
    BY <2>3, <2>5 DEF b, paid
<1>12. ASSUME NEW a \in Address
       PROVE  /\ World(accounts')[a].nonce >= start[a].nonce
              /\ World(accounts')[a].balance >= 0 \/ (a = tx.sender /\ g > tx.gas_limit)
              /\ start[a].code # EmptyCode => World(accounts')[a].code = start[a].code
  <2> DEFINE x == frames[1].snapshot[a]
  <2>1. /\ x.nonce = start[a].nonce + (IF a = tx.sender THEN 1 ELSE 0) /\ x.code = start[a].code
        /\ start[a].nonce \in Nat
    BY <1>3 DEF Charged
  <2>2. x \in Account /\ accounts[a] \in Account /\ accs[a] \in Account /\ accounts'[a] \in Account
    BY <1>1, <1>2, <1>4, <1>7 DEF Good, FrameOK
  <2>3. Grown(x, accs[a])
    <3>1. CASE r.status = "SUCCESS"
      <4>1. Grown(x, accounts[a]) /\ Grown(accounts[a], accs[a])
        BY <1>1, <1>4, <3>1 DEF Under, Ended, Later
      <4> QED
        BY <2>2, <4>1, GrownTransitive
    <3>2. CASE r.status # "SUCCESS"
      BY <1>1, <3>2 DEF Ended, Advanced, Kept
    <3> QED
      BY <3>1, <3>2
  <2>4. /\ accounts'[a].nonce = accs[a].nonce /\ accounts'[a].code = accs[a].code
        /\ accounts'[a].balance >= 0 \/ (a = tx.sender /\ g > tx.gas_limit)
    BY <1>7 DEF Bounded
  <2>5. accs[a].nonce \in Nat /\ x.nonce \in Nat
    BY <2>2, AccountTypes
  <2> HIDE DEF x
  <2>6. accs[a].nonce >= start[a].nonce
    BY <2>1, <2>3, <2>5 DEF Grown
  <2>7. start[a].code # EmptyCode => accs[a].code = start[a].code
    BY <2>1, <2>3 DEF Grown
  <2> QED
    BY <2>4, <2>6, <2>7, WorldFields
<1>13. r.status # "SUCCESS" => World(accounts') = L!OnlyFees(start, tx, g)
  <2> SUFFICES ASSUME r.status # "SUCCESS" PROVE World(accounts') = L!OnlyFees(start, tx, g)
    OBVIOUS
  <2>1. ASSUME NEW a \in Address
        PROVE  /\ accounts'[a].nonce = start[a].nonce + (IF a = tx.sender THEN 1 ELSE 0)
               /\ accounts'[a].balance = start[a].balance - (IF a = tx.sender THEN fee ELSE 0)
                    + (IF a = coinbase THEN tip ELSE 0)
               /\ accounts'[a].code = start[a].code /\ accounts'[a].storage = start[a].storage
    <3>1. SameContents(frames[1].snapshot[a], accs[a])
      BY <1>1 DEF Ended, SameWorld
    <3>2. /\ accs[a].nonce = start[a].nonce + (IF a = tx.sender THEN 1 ELSE 0)
          /\ accs[a].balance = start[a].balance - (IF a = tx.sender THEN tx_max_cost(tx) ELSE 0)
          /\ accs[a].code = start[a].code /\ accs[a].storage = start[a].storage
      BY <1>3, <3>1 DEF Charged, SameContents
    <3>3. start[a].balance \in Int
      BY <1>3
    <3> QED
      BY <1>5, <1>7, <1>8, <3>2, <3>3
  <2>2. FeesPaid(start, accounts', tx, fee, tip)
    BY <2>1 DEF FeesPaid
  <2>3. /\ start \in [Address -> [nonce : Nat, balance : Int, code : Code, storage : Nat]]
        /\ tx.sender \in Address /\ fee \in Int /\ tip \in Int
    BY <1>3, <1>5, <1>7, <1>8
  <2>4. fee = g * L!effective_gas_price(tx) /\ tip = g * L!priority_gas_price(tx)
    BY LedgerPrices DEF fee, tip
  <2> QED
    BY <2>2, <2>3, <2>4, FeesOnly
<1> QED
  BY <1>1, <1>3, <1>9, <1>10, <1>11, <1>12, <1>13 DEF ExecuteTo, fee

(* Every step of the host is a step of Ledger or changes nothing it sees.  *)
LEMMA NextRefines ==
  ASSUME Consistent, Balanced, Atomic, Balanced', [Next]_vars
  PROVE  [L!Next]_(L!vars)
<1>1. CASE UNCHANGED vars
  BY <1>1, LedgerStep DEF vars, Seen, Done
<1>2. CASE \E t \in Transactions : RejectTransaction(t)
  BY <1>2, RejectsStep, LedgerStep
<1>3. CASE \E t \in Transactions : StartTransaction(t)
  <2>0. PICK t \in Transactions : StartTransaction(t)
    BY <1>3
  <2>1. PICK f : Starts(t, f)
    BY <2>0, StartStep
  <2>2. frames = <<>> /\ frames' # <<>> /\ start' = World(accounts) /\ receipt' = receipt /\ txs' = txs + 1
    BY <2>1 DEF Starts
  <2>3. txs \in Nat
    BY ParametersAssumption DEF Consistent
  <2>4. Seen' = Seen
    BY <2>2 DEF Seen
  <2>5. Done' = Done
    BY <2>2, <2>3 DEF Done
  <2> QED
    BY <2>2, <2>4, <2>5, LedgerStep
<1>4. ASSUME frames # <<>>, frames' # <<>>, start' = start, receipt' = receipt, txs' = txs
      PROVE  [L!Next]_(L!vars)
  BY <1>4, LedgerStep DEF Seen, Done
<1>5. frames \in Seq(Frame)
  BY DEF Consistent
<1>6. CASE Works
  BY <1>4, <1>5, <1>6, WorksFrames DEF Works
<1>7. CASE \E f : Sends(f)
  <2>1. PICK f : Sends(f)
    BY <1>7
  <2>2. frames # <<>> /\ frames' = Append(frames, f) /\ f \in Frame /\ start' = start /\ receipt' = receipt /\ txs' = txs
    BY <2>1 DEF Sends, FrameOK
  <2>3. frames' # <<>>
    BY <1>5, <2>2, SendsFrames
  <2> QED
    BY <1>4, <2>2, <2>3
<1>8. CASE frames # <<>> /\ \E v \in vm_results(top) : return_to_caller(v)
  <2>1. /\ depth > 1 /\ frames' = SubSeq(frames, 1, depth - 1) /\ start' = start /\ receipt' = receipt /\ txs' = txs
    BY <1>8 DEF return_to_caller
  <2>2. frames' # <<>>
    <3>1. depth = Len(frames) /\ depth \in Nat
      BY <1>5 DEF depth
    <3>2. Len(frames') = Len(frames) - 1
      BY <1>5, <1>8, <2>1, <3>1, FrontOfStack
    <3>3. Len(frames') # 0
      BY <2>1, <3>1, <3>2
    <3>4. frames' = <<>> => Len(frames') = 0
      OBVIOUS
    <3> QED
      BY <3>3, <3>4, Zenon
  <2> QED
    BY <1>4, <1>8, <2>1, <2>2
<1>9. CASE frames # <<>> /\ \E v \in vm_results(top) : EndTransaction(v)
  <2>1. PICK r, g, accs : Ends(r, g, accs)
    BY <1>9, EndStep
  <2>2. ExecuteTo(start, World(accounts'), receipt', tx)
    BY <1>9, <2>1, ExecuteStep
  <2>3. /\ frames' = <<>> /\ txs' = txs /\ receipt'.status = r.status /\ receipt'.gas_used = g
        /\ txs = 1 \/ r.status # "SUCCESS" => g <= tx.gas_limit
    BY <2>1 DEF Ends
  <2>4. Seen = start /\ Seen' = World(accounts')
    BY <1>9, <2>3 DEF Seen
  <2>5. Done = txs - 1 /\ Done' = txs /\ txs \in Nat
    BY <1>9, <2>3, ParametersAssumption DEF Done, Consistent
  <2>6. Done' = Done + 1 /\ (Done = 0 \/ receipt'.status # "SUCCESS" => receipt'.gas_used <= tx.gas_limit)
    BY <2>3, <2>5
  <2>7. L!Execute(tx) /\ tx \in Transactions
    BY <2>2, <2>4, <2>6, LedgerExecute DEF Consistent
  <2> QED
    BY <2>7, LedgerStep
<1>10. CASE \E w \in Withdrawals : Finalize(w)
  BY <1>10, CloseStep, LedgerStep
<1>11. CASE Next
  BY <1>2, <1>3, <1>6, <1>7, <1>8, <1>9, <1>10, <1>11, StepCases
<1> QED
  BY <1>1, <1>11

(* Transactions are atomic: whatever messages, failures and creations it   *)
(* is made of, a transaction is one step on balances, nonces, codes and    *)
(* storage, which costs gas, of which only the base fee disappears; one    *)
(* that fails costs its sender gas within the limit and changes nothing    *)
(* else; the first of a block stays within its limit and a later one can   *)
(* overdraw nobody but its sender, and only by gas beyond the limit; a     *)
(* rejected one changes nothing; and the end of the block pays the         *)
(* withdrawals.                                                            *)
THEOREM TransactionsAtomic == Spec => TransactionsAreAtomic
<1>1. Init => Balanced /\ Atomic /\ Done = 0
  <2> SUFFICES ASSUME Init PROVE Balanced /\ Atomic /\ Done = 0
    OBVIOUS
  <2>1. Balanced
    BY InitBalanced
  <2>2. Atomic
    BY DEF Init, Atomic
  <2>3. Done = 0
    BY DEF Init, Done
  <2> QED
    BY <2>1, <2>2, <2>3
<1>2. Reachable /\ Balanced /\ Atomic /\ [Next]_vars => Balanced' /\ Atomic'
  <2>1. Overcharged /\ Balanced /\ Atomic /\ [Next]_vars => Balanced' /\ Atomic'
    <3>1. Overcharged /\ Atomic /\ [Next]_vars => Atomic'
      BY OverchargedStays DEF vars, Overcharged, Atomic
    <3> QED
      BY <3>1, OverchargedBalanced
  <2> QED
    BY <2>1, NextBalanced, NextAtomic DEF Reachable
<1>3. Reachable /\ Balanced /\ Atomic /\ Balanced' /\ [Next]_vars => [L!Next]_(L!vars)
  <2>1. Overcharged /\ [Next]_vars => [L!Next]_(L!vars)
    BY OverchargedStays, LedgerStep DEF vars, Seen, Done
  <2> QED
    BY <2>1, NextRefines DEF Reachable
<1>4. Spec => Done = 0 /\ [][L!Next]_(L!vars)
  BY <1>1, <1>2, <1>3, ConsistentAlways, PTL DEF Spec
<1> QED
  BY <1>4 DEF TransactionsAreAtomic, L!Spec, Done
==============================================================================
