---------------------------- MODULE VestingProofs ----------------------------
(***************************************************************************)
(* Proofs about golos.vesting for every set of accounts, every parameters  *)
(* and every amount, negative ones where the code takes them: the tables   *)
(* keep their types, what is delegated and what is being withdrawn overlap *)
(* by no more than negative returns have caused, and the contract          *)
(* implements the ledger of module Shares.  Then come its books: the       *)
(* shares of the supply are owned, tokens stand behind them and their      *)
(* price never falls, balances agree with the delegation records, and from *)
(* these that the payout loop aborts for nothing but negative returns.     *)
(* A loop may abort, so each invariant also holds of the tables saved when *)
(* its transaction started.                                                *)
(***************************************************************************)
EXTENDS Vesting, SumTheorems

\* The loop works on rows that exist.
RunSound ==
  /\ run.phase = "idle" => run = Idle
  /\ run.phase = "withdraws" => run.todo \subseteq DOMAIN withdrawal
  /\ run.phase = "returns" => run.todo \subseteq DOMAIN rdelegation

\* LockedWithinVesting and WithdrawalsSound, of any tables
WithdrawingIn(records, o) ==
  IF o \in DOMAIN records THEN records[o].to_withdraw ELSE 0

LockedIn(rows, records, raised) ==
  \A o \in DOMAIN rows :
    /\ rows[o].delegated + WithdrawingIn(records, o)
         <= rows[o].vesting + raised[o]
    /\ WithdrawingIn(records, o) <= rows[o].vesting

SoundIn(records, rows) ==
  \A o \in DOMAIN records :
    /\ records[o].remaining_payments > 0
    /\ records[o].withdraw_rate > 0
    /\ records[o].withdraw_rate * records[o].remaining_payments
         <= records[o].to_withdraw
    /\ o \in DOMAIN rows

\* What an abort puts back is sound, and the loop has only taken since.
SavedSound ==
  ~Calm => /\ LockedIn(saved.accounts, saved.withdrawal, saved.grown)
           /\ SoundIn(saved.withdrawal, saved.accounts)
           /\ DOMAIN accounts = DOMAIN saved.accounts
           /\ \A o \in DOMAIN accounts :
                accounts[o].vesting <= saved.accounts[o].vesting

IInv == /\ TypeOK /\ LockedWithinVesting /\ WithdrawalsSound
        /\ RunSound /\ SavedSound

----------------------------------------------------------------------------
(* Lemmas on tables and arithmetic *)

\* Emplacing a row of the right type keeps a table's type.
LEMMA PutType ==
  ASSUME NEW S, NEW T, NEW f, IsTable(f, S, T), NEW k \in S, NEW r \in T
  PROVE  /\ IsTable(Put(f, k, r), S, T)
         /\ DOMAIN Put(f, k, r) = DOMAIN f \union {k}
         /\ Put(f, k, r)[k] = r
         /\ \A x \in DOMAIN f : x # k => Put(f, k, r)[x] = f[x]
BY DEF IsTable, Put

\* Erasing a row keeps a table's type.
LEMMA DropType ==
  ASSUME NEW S, NEW T, NEW f, IsTable(f, S, T), NEW k
  PROVE  /\ IsTable(Drop(f, k), S, T)
         /\ DOMAIN Drop(f, k) = DOMAIN f \ {k}
         /\ \A x \in DOMAIN f : x # k => Drop(f, k)[x] = f[x]
BY DEF IsTable, Drop

\* Modifying a row keeps a table's type.
LEMMA ModifyType ==
  ASSUME NEW S, NEW T, NEW f, IsTable(f, S, T), NEW k \in DOMAIN f, NEW r \in T
  PROVE  /\ IsTable([f EXCEPT ![k] = r], S, T)
         /\ DOMAIN [f EXCEPT ![k] = r] = DOMAIN f
         /\ [f EXCEPT ![k] = r][k] = r
         /\ \A x \in DOMAIN f : x # k => [f EXCEPT ![k] = r][x] = f[x]
BY DEF IsTable

\* The quotient of a natural number by a positive one
LEMMA Quotient ==
  ASSUME NEW a \in Nat, NEW b \in Nat, b > 0
  PROVE  a \div b \in Nat /\ (a \div b) * b <= a
OBVIOUS

\* Conversions multiply amounts.
LEMMA ProductNat ==
  ASSUME NEW a \in Nat, NEW b \in Nat
  PROVE  a * b \in Nat
OBVIOUS

\* One instalment fits in what is left when every instalment left does.
LEMMA Instalment ==
  ASSUME NEW rate \in Nat, NEW n \in Nat, NEW left \in Nat,
         n > 0, rate * n <= left
  PROVE  /\ rate <= left
         /\ rate * (n - 1) <= left - rate
OBVIOUS

\* Crediting an account keeps the table's type, removes no row, lowers no
\* balance and delegates nothing.
LEMMA AddBalance ==
  ASSUME NEW rows, IsTable(rows, Account, AccountType),
         NEW o \in Account, NEW n \in Nat
  PROVE  LET new == add_balance(rows, o, n) IN
         /\ IsTable(new, Account, AccountType)
         /\ DOMAIN rows \subseteq DOMAIN new
         /\ \A x \in DOMAIN rows : /\ new[x].vesting >= rows[x].vesting
                                   /\ new[x].delegated = rows[x].delegated
         /\ \A x \in DOMAIN new \ DOMAIN rows : new[x].delegated = 0
<1>1. CASE n = 0
  BY <1>1 DEF add_balance, IsTable, AccountType
<1>2. CASE n # 0 /\ o \in DOMAIN rows
  <2> DEFINE row == [rows[o] EXCEPT !.vesting = @ + n]
  <2>1. rows[o] \in AccountType
    BY <1>2 DEF IsTable
  <2>2. /\ row \in AccountType
        /\ row.vesting >= rows[o].vesting /\ row.delegated = rows[o].delegated
    BY <2>1 DEF AccountType
  <2>3. add_balance(rows, o, n) = [rows EXCEPT ![o] = row]
    BY <1>2, <2>1 DEF add_balance, IsTable, AccountType
  <2>4. \A x \in DOMAIN rows : rows[x] \in AccountType
    BY DEF IsTable
  <2> HIDE DEF row
  <2>5. \A x \in DOMAIN rows : rows[x].vesting >= rows[x].vesting
    BY <2>4 DEF AccountType
  <2>6. /\ IsTable([rows EXCEPT ![o] = row], Account, AccountType)
        /\ DOMAIN [rows EXCEPT ![o] = row] = DOMAIN rows
        /\ [rows EXCEPT ![o] = row][o] = row
        /\ \A x \in DOMAIN rows : x # o => [rows EXCEPT ![o] = row][x] = rows[x]
    BY <1>2, <2>2, ModifyType
  <2> QED BY <1>2, <2>2, <2>3, <2>5, <2>6
<1>3. CASE n # 0 /\ o \notin DOMAIN rows
  <2>1. NewRow(n, FALSE) \in AccountType /\ NewRow(n, FALSE).delegated = 0
    BY WidthAssumption DEF NewRow, AccountType
  <2>2. add_balance(rows, o, n) = Put(rows, o, NewRow(n, FALSE))
    BY <1>3 DEF add_balance
  <2>3. \A x \in DOMAIN rows : rows[x].vesting >= rows[x].vesting
    BY DEF IsTable, AccountType
  <2> DEFINE row == NewRow(n, FALSE)
  <2> HIDE DEF row
  <2>4. /\ IsTable(Put(rows, o, row), Account, AccountType)
        /\ DOMAIN Put(rows, o, row) = DOMAIN rows \union {o}
        /\ Put(rows, o, row)[o] = row
        /\ \A x \in DOMAIN rows : x # o => Put(rows, o, row)[x] = rows[x]
    <3>1. row \in AccountType
      BY <2>1 DEF row
    <3> QED BY <3>1 DEF Put, IsTable
  <2>5. add_balance(rows, o, n) = Put(rows, o, row) /\ row.delegated = 0
    BY <2>1, <2>2 DEF row
  <2> QED BY <1>3, <2>3, <2>4, <2>5
<1> QED BY <1>1, <1>2, <1>3

\* A deposit converts to no negative amount, whatever the price is.
LEMMA Conversion ==
  ASSUME TypeOK, NEW q \in Nat
  PROVE  token_to_vesting(q, balance) \in Nat
<1>1. CASE supply > 0 /\ balance > 0
  <2>1. supply \in Nat /\ balance \in Nat
    BY <1>1 DEF TypeOK
  <2>2. q * supply \in Nat
    BY <2>1, ProductNat
  <2> QED BY <1>1, <2>1, <2>2, Quotient DEF token_to_vesting
<1>2. CASE ~(supply > 0 /\ balance > 0)
  <2>1. q * ScaleUp \in Nat
    BY BoundsAssumption, ProductNat
  <2>2. ScaleDown \in Nat /\ ScaleDown > 0
    BY BoundsAssumption
  <2> QED BY <1>2, <2>1, <2>2, Quotient DEF token_to_vesting
<1> QED BY <1>1, <1>2

\* A payout is an integer whatever the balance has come to.
LEMMA PayoutInt ==
  ASSUME TypeOK, NEW v \in Nat, NEW bal \in Int
  PROVE  vesting_to_token(v, bal) \in Int
<1>1. CASE supply > 0 /\ bal > 0
  <2>1. supply \in Nat /\ v * bal \in Nat
    BY <1>1, ProductNat DEF TypeOK
  <2> QED BY <1>1, <2>1, Quotient DEF vesting_to_token
<1>2. CASE ~(supply > 0 /\ bal > 0)
  <2>1. v * ScaleDown \in Nat /\ ScaleUp \in Nat /\ ScaleUp > 0
    BY BoundsAssumption, ProductNat
  <2> QED BY <1>2, <2>1, Quotient DEF vesting_to_token
<1> QED BY <1>1, <1>2

----------------------------------------------------------------------------
(* One lemma per group of actions: IInv is inductive. *)

\* Between transactions nothing is saved.
LEMMA UnsavedType ==
  /\ Unsaved.supply \in Int /\ Unsaved.balance \in Int
  /\ IsTable(Unsaved.accounts, Account, AccountType)
  /\ IsTable(Unsaved.rdelegation, ReturnId, ReturnType)
  /\ IsTable(Unsaved.withdrawal, Account, WithdrawalType)
  /\ Unsaved.grown \in [Account -> Nat]
<1>1. \A S, T : IsTable(EmptyTable, S, T)
  BY DEF IsTable, EmptyTable
<1>2. [o \in Account |-> 0] \in [Account -> Nat]
  OBVIOUS
<1> QED BY <1>1, <1>2 DEF Unsaved

\* The initial tables are empty.
LEMMA InitIInv == Init => IInv
<1> SUFFICES ASSUME Init PROVE IInv
  OBVIOUS
<1>1. run \in RunType
  BY DEF Init, Idle, RunType
<1>2. /\ DOMAIN accounts = {} /\ DOMAIN delegation = {}
      /\ DOMAIN rdelegation = {} /\ DOMAIN withdrawal = {}
  BY DEF Init, EmptyTable
<1>3. /\ IsTable(accounts, Account, AccountType)
      /\ IsTable(delegation, Account \X Account, DelegationType)
      /\ IsTable(rdelegation, ReturnId, ReturnType)
      /\ IsTable(withdrawal, Account, WithdrawalType)
  <2>1. \A S, T : IsTable(EmptyTable, S, T)
    BY DEF IsTable, EmptyTable
  <2> QED BY <2>1 DEF Init
<1>4. /\ created \in BOOLEAN /\ deferred \in BOOLEAN
      /\ params \in ParamSets \union {NoParams}
      /\ tokenRows \subseteq Account
      /\ supply \in Int /\ balance \in Int /\ now \in Nat /\ orphaned \in Int
      /\ grown \in [Account -> Nat]
  <2>1. /\ created \in BOOLEAN /\ deferred \in BOOLEAN
        /\ params \in ParamSets \union {NoParams} /\ tokenRows \subseteq Account
    BY Zenon DEF Init
  <2>2. /\ supply \in Int /\ balance \in Int /\ now \in Nat /\ orphaned \in Int
        /\ grown \in [Account -> Nat]
    BY DEF Init
  <2> QED BY <2>1, <2>2
<1>5. TypeOK
  BY <1>1, <1>3, <1>4, UnsavedType DEF TypeOK, Init
<1>6. RunSound /\ SavedSound
  BY DEF RunSound, SavedSound, Calm, Init, Idle
<1> QED BY <1>2, <1>5, <1>6 DEF IInv, LockedWithinVesting, WithdrawalsSound

\* Actions that touch no table and no procwaiting run
LEMMA UntouchedStep ==
  ASSUME IInv, UNCHANGED <<tables, transaction, history>>,
         created' \in BOOLEAN, params' \in ParamSets \union {NoParams},
         balance' \in Int, tokenRows' \subseteq Account, now' \in Nat,
         deferred' \in BOOLEAN
  PROVE  IInv'
BY DEF IInv, TypeOK, tables, transaction, history, LockedWithinVesting,
       get_withdrawing_vesting, WithdrawalsSound, RunSound, SavedSound, Calm

\* A run starts with the withdrawals that are due.
LEMMA StartRunType ==
  ASSUME IInv, NEW b \in BOOLEAN, NEW m \in Int
  PROVE  /\ StartRun(b, m) \in RunType
         /\ StartRun(b, m).phase = "withdraws"
         /\ StartRun(b, m).todo = DueWithdrawals
<1>1. DueWithdrawals \in SUBSET (Account \union ReturnId)
  BY DEF IInv, TypeOK, IsTable, DueWithdrawals
<1> QED BY <1>1, BoundsAssumption DEF StartRun, RunType

\* Actions that start a run: what is due has a row, and what is saved is sound.
LEMMA StartStep ==
  ASSUME IInv, UNCHANGED <<created, tables, params, tokenRows, now, history>>,
         balance' \in Int, deferred' \in BOOLEAN,
         run' \in RunType, run'.phase = "withdraws",
         run'.todo = DueWithdrawals, saved' = Snapshot
  PROVE  IInv'
<1>1. TypeOK'
  BY DEF IInv, TypeOK, tables, history, Snapshot
<1>2. LockedWithinVesting' /\ WithdrawalsSound'
  BY DEF IInv, tables, history, LockedWithinVesting, get_withdrawing_vesting,
         WithdrawalsSound
<1>3. RunSound'
  BY DEF IInv, RunSound, DueWithdrawals, tables
<1>4. SavedSound'
  <2>1. LockedIn(accounts, withdrawal, grown) /\ SoundIn(withdrawal, accounts)
    BY DEF IInv, LockedWithinVesting, get_withdrawing_vesting, LockedIn,
           WithdrawingIn, WithdrawalsSound, SoundIn
  <2>2. \A o \in DOMAIN accounts : accounts[o].vesting <= accounts[o].vesting
    BY DEF IInv, TypeOK, IsTable, AccountType
  <2> QED BY <2>1, <2>2 DEF SavedSound, Snapshot, tables
<1> QED BY <1>1, <1>2, <1>3, <1>4 DEF IInv

\* Credits to accounts: balances only grow, so no lock is broken.
LEMMA CreditStep ==
  ASSUME IInv, IsTable(accounts', Account, AccountType),
         DOMAIN accounts \subseteq DOMAIN accounts',
         \A x \in DOMAIN accounts :
           /\ accounts'[x].vesting >= accounts[x].vesting
           /\ accounts'[x].delegated = accounts[x].delegated,
         \A x \in DOMAIN accounts' \ DOMAIN accounts :
           accounts'[x].delegated = 0,
         balance' \in Int, supply' \in Int,
         UNCHANGED <<created, delegation, rdelegation, withdrawal, params,
                     tokenRows, now, deferred, transaction, history>>,
         Calm
  PROVE  IInv'
<1>1. TypeOK'
  BY DEF IInv, TypeOK, transaction, history
<1>2. WithdrawalsSound'
  BY DEF IInv, WithdrawalsSound
<1>3. LockedWithinVesting'
  <2> SUFFICES ASSUME NEW x \in DOMAIN accounts'
               PROVE  /\ accounts'[x].delegated + get_withdrawing_vesting(x)'
                           <= accounts'[x].vesting + grown[x]
                      /\ get_withdrawing_vesting(x)' <= accounts'[x].vesting
    BY DEF LockedWithinVesting, history
  <2>1. /\ get_withdrawing_vesting(x)' = get_withdrawing_vesting(x)
        /\ get_withdrawing_vesting(x) \in Nat
    BY DEF IInv, TypeOK, IsTable, WithdrawalType, get_withdrawing_vesting
  <2>2. accounts'[x].vesting \in Nat /\ grown[x] \in Nat
    BY DEF IInv, TypeOK, IsTable, AccountType
  <2>3. CASE x \in DOMAIN accounts
    <3>1. accounts[x].vesting \in Nat /\ accounts[x].delegated \in Nat
      BY <2>3, WidthAssumption DEF IInv, TypeOK, IsTable, AccountType
    <3> QED BY <2>1, <2>2, <2>3, <3>1 DEF IInv, LockedWithinVesting
  <2>4. CASE x \notin DOMAIN accounts
    <3>1. get_withdrawing_vesting(x) = 0
      BY <2>4 DEF IInv, WithdrawalsSound, get_withdrawing_vesting
    <3> QED BY <2>1, <2>2, <2>4, <3>1
  <2> QED BY <2>3, <2>4
<1>4. RunSound' /\ SavedSound'
  BY DEF IInv, RunSound, SavedSound, Calm, transaction
<1> QED BY <1>1, <1>2, <1>3, <1>4 DEF IInv

\* A transfer in buys shares for one account.
LEMMA TransferStep ==
  ASSUME IInv, NEW o \in Account, NEW q \in Deposit, on_transfer(o, q)
  PROVE  IInv'
<1> DEFINE c == token_to_vesting(q, balance)
<1>1. c \in Nat /\ balance' \in Int /\ supply' \in Int
  BY Conversion, BoundsAssumption DEF on_transfer, IInv, TypeOK
<1>2. accounts' = add_balance(accounts, o, c)
  BY DEF on_transfer
<1>3. IsTable(accounts, Account, AccountType)
  BY DEF IInv, TypeOK
<1> HIDE DEF c
<1>4. /\ IsTable(accounts', Account, AccountType)
      /\ DOMAIN accounts \subseteq DOMAIN accounts'
      /\ \A x \in DOMAIN accounts :
           /\ accounts'[x].vesting >= accounts[x].vesting
           /\ accounts'[x].delegated = accounts[x].delegated
      /\ \A x \in DOMAIN accounts' \ DOMAIN accounts :
           accounts'[x].delegated = 0
  BY <1>1, <1>2, <1>3, AddBalance
<1> QED BY <1>1, <1>4, CreditStep DEF on_transfer

\* A bulk transfer buys shares for several.
LEMMA BulkTransferStep ==
  ASSUME IInv, NEW o1 \in Account, NEW o2 \in Account,
         NEW q1 \in Deposit, NEW q2 \in Deposit,
         on_bulk_transfer(o1, q1, o2, q2)
  PROVE  IInv'
<1> DEFINE c1 == token_to_vesting(q1, balance)
           c2 == token_to_vesting(q2, balance)
           mid == add_balance(accounts, o1, c1)
<1>1. /\ c1 \in Nat /\ c2 \in Nat
      /\ balance' \in Int /\ supply' \in Int
  BY Conversion, BoundsAssumption DEF on_bulk_transfer, IInv, TypeOK
<1>2. accounts' = add_balance(mid, o2, c2)
  BY DEF on_bulk_transfer
<1>3. IsTable(accounts, Account, AccountType)
  BY DEF IInv, TypeOK
<1> HIDE DEF c1, c2
<1>4. /\ IsTable(mid, Account, AccountType)
      /\ DOMAIN accounts \subseteq DOMAIN mid
      /\ \A x \in DOMAIN accounts :
           /\ mid[x].vesting >= accounts[x].vesting
           /\ mid[x].delegated = accounts[x].delegated
      /\ \A x \in DOMAIN mid \ DOMAIN accounts : mid[x].delegated = 0
  BY <1>1, <1>3, AddBalance
<1> HIDE DEF mid
<1>5. /\ IsTable(accounts', Account, AccountType)
      /\ DOMAIN mid \subseteq DOMAIN accounts'
      /\ \A x \in DOMAIN mid :
           /\ accounts'[x].vesting >= mid[x].vesting
           /\ accounts'[x].delegated = mid[x].delegated
      /\ \A x \in DOMAIN accounts' \ DOMAIN mid : accounts'[x].delegated = 0
  BY <1>1, <1>2, <1>4, AddBalance
<1>6. /\ \A x \in DOMAIN accounts : accounts[x].vesting \in Nat
      /\ \A x \in DOMAIN mid : mid[x].vesting \in Nat
      /\ \A x \in DOMAIN accounts' : accounts'[x].vesting \in Nat
  BY <1>3, <1>4, <1>5 DEF IsTable, AccountType
<1>7. /\ DOMAIN accounts \subseteq DOMAIN accounts'
      /\ \A x \in DOMAIN accounts :
           /\ accounts'[x].vesting >= accounts[x].vesting
           /\ accounts'[x].delegated = accounts[x].delegated
      /\ \A x \in DOMAIN accounts' \ DOMAIN accounts :
           accounts'[x].delegated = 0
  BY <1>4, <1>5, <1>6
<1> QED BY <1>1, <1>5, <1>7, CreditStep DEF on_bulk_transfer

\* What IInv says of one account, with its numbers typed
LEMMA AccountFacts ==
  ASSUME IInv, NEW o \in DOMAIN accounts
  PROVE  /\ o \in Account /\ accounts[o] \in AccountType
         /\ accounts[o].vesting \in Nat /\ accounts[o].delegated \in Nat
         /\ accounts[o].delegated <= MaxAmount
         /\ get_withdrawing_vesting(o) \in Nat /\ grown[o] \in Nat
         /\ accounts[o].delegated + get_withdrawing_vesting(o)
              <= accounts[o].vesting + grown[o]
         /\ get_withdrawing_vesting(o) <= accounts[o].vesting
<1>1. o \in Account /\ accounts[o] \in AccountType
  BY DEF IInv, TypeOK, IsTable
<1>2. get_withdrawing_vesting(o) \in Nat
  BY DEF IInv, TypeOK, IsTable, WithdrawalType, get_withdrawing_vesting
<1>3. grown[o] \in Nat
  BY <1>1 DEF IInv, TypeOK
<1> QED BY <1>1, <1>2, <1>3, WidthAssumption
        DEF AccountType, IInv, LockedWithinVesting

\* What IInv says of one withdrawal: no branch that "must not happen" is
\* reached, what is sent is no more than what is left or held, and locked only
\* as far as negative returns have grown the delegated part.
LEMMA WithdrawalFacts ==
  ASSUME IInv, NEW o \in DOMAIN withdrawal
  PROVE  /\ o \in DOMAIN accounts /\ withdrawal[o] \in WithdrawalType
         /\ get_withdrawing_vesting(o) = withdrawal[o].to_withdraw
         /\ withdrawal[o].withdraw_rate <= withdrawal[o].to_withdraw
         /\ to_send(o) \in Nat /\ to_send(o) > 0
         /\ to_send(o) <= withdrawal[o].to_withdraw
         /\ to_send(o) <= accounts[o].vesting
         /\ accounts[o].delegated + to_send(o) <= accounts[o].vesting + grown[o]
<1>1. /\ o \in DOMAIN accounts /\ withdrawal[o] \in WithdrawalType
      /\ get_withdrawing_vesting(o) = withdrawal[o].to_withdraw
  BY DEF IInv, WithdrawalsSound, TypeOK, IsTable, get_withdrawing_vesting
<1>2. /\ withdrawal[o].withdraw_rate \in Nat
      /\ withdrawal[o].remaining_payments \in Nat
      /\ withdrawal[o].to_withdraw \in Nat
  BY <1>1 DEF WithdrawalType
<1>3. /\ withdrawal[o].remaining_payments > 0
      /\ withdrawal[o].withdraw_rate > 0
      /\ withdrawal[o].withdraw_rate * withdrawal[o].remaining_payments
           <= withdrawal[o].to_withdraw
  BY DEF IInv, WithdrawalsSound
<1>4. withdrawal[o].withdraw_rate <= withdrawal[o].to_withdraw
  BY <1>2, <1>3, Instalment
<1>5. /\ to_send(o) \in Nat /\ to_send(o) > 0
      /\ to_send(o) <= withdrawal[o].to_withdraw
  BY <1>2, <1>3, <1>4 DEF to_send
<1> QED BY <1>1, <1>2, <1>4, <1>5, AccountFacts

\* An opened row is empty.
LEMMA OpenStep ==
  ASSUME IInv, NEW o \in Account, open(o)
  PROVE  IInv'
<1>1. IsTable(accounts', Account, AccountType)
  BY WidthAssumption
  DEF open, IInv, TypeOK, IsTable, Put, NewRow, AccountType
<1>2. TypeOK'
  BY <1>1 DEF open, IInv, TypeOK, transaction, history
<1>3. grown \in [Account -> Nat]
  BY DEF IInv, TypeOK
<1>4. LockedWithinVesting'
  BY <1>3 DEF open, IInv, LockedWithinVesting, WithdrawalsSound, history,
              get_withdrawing_vesting, Put, NewRow
<1>5. WithdrawalsSound' /\ RunSound' /\ SavedSound'
  BY DEF open, IInv, WithdrawalsSound, RunSound, SavedSound, Calm, transaction,
         Put
<1> QED BY <1>2, <1>4, <1>5 DEF IInv

\* An account with an open withdrawal owns vesting, so it cannot be closed.
LEMMA CloseStep ==
  ASSUME IInv, NEW o \in Account, close(o)
  PROVE  IInv'
<1>1. o \notin DOMAIN withdrawal
  <2> SUFFICES ASSUME o \in DOMAIN withdrawal PROVE FALSE
    OBVIOUS
  <2>1. /\ to_send(o) \in Nat /\ to_send(o) > 0
        /\ to_send(o) <= accounts[o].vesting
    BY WithdrawalFacts
  <2> QED BY <2>1 DEF close
<1>2. TypeOK'
  <2>1. IsTable(accounts', Account, AccountType)
    BY DEF close, IInv, TypeOK, IsTable, Drop
  <2> QED BY <2>1 DEF close, IInv, TypeOK, transaction, history
<1>3. LockedWithinVesting' /\ WithdrawalsSound' /\ RunSound' /\ SavedSound'
  BY <1>1 DEF close, IInv, LockedWithinVesting, WithdrawalsSound, RunSound,
         SavedSound, Calm, transaction, history, get_withdrawing_vesting, Drop
<1> QED BY <1>2, <1>3 DEF IInv

\* Removing a withdrawal only unlocks.
LEMMA UnlockStep ==
  ASSUME IInv, NEW o \in Account, withdrawal' = Drop(withdrawal, o),
         UNCHANGED <<created, supply, accounts, delegation, rdelegation,
                     params, balance, tokenRows, now, deferred, saved, history>>,
         run' \in RunType, run.phase = "idle" => run' = run,
         run.phase = "withdraws" => /\ run'.phase = "withdraws"
                                    /\ run'.todo = run.todo \ {o},
         run.phase # "returns"
  PROVE  IInv'
<1>1. TypeOK'
  <2>1. IsTable(withdrawal', Account, WithdrawalType)
    BY DEF IInv, TypeOK, IsTable, Drop
  <2> QED BY <2>1 DEF IInv, TypeOK, history
<1>2. LockedWithinVesting'
  <2> SUFFICES ASSUME NEW x \in DOMAIN accounts
               PROVE  /\ accounts[x].delegated + get_withdrawing_vesting(x)'
                           <= accounts[x].vesting + grown[x]
                      /\ get_withdrawing_vesting(x)' <= accounts[x].vesting
    BY DEF LockedWithinVesting, history
  <2>1. get_withdrawing_vesting(x)' \in {get_withdrawing_vesting(x), 0}
    BY DEF get_withdrawing_vesting, Drop
  <2> QED BY <2>1, AccountFacts
<1>3. WithdrawalsSound'
  BY DEF IInv, WithdrawalsSound, Drop
<1>4. RunSound'
  <2>1. DOMAIN withdrawal' = DOMAIN withdrawal \ {o}
    BY DEF Drop
  <2> QED BY <2>1 DEF IInv, RunSound, TypeOK, RunType, Idle
<1>5. SavedSound'
  BY DEF IInv, SavedSound, Calm, TypeOK, RunType
<1> QED BY <1>1, <1>2, <1>3, <1>4, <1>5 DEF IInv

\* A stopped withdrawal frees what was locked.
LEMMA StopWithdrawStep ==
  ASSUME IInv, NEW o \in Account, stopwithdraw(o)
  PROVE  IInv'
<1>1. run' \in RunType
  BY DEF stopwithdraw, transaction, IInv, TypeOK
<1> QED BY <1>1, UnlockStep DEF stopwithdraw, Calm, transaction

\* A loop iteration takes one record off what is left to visit.
LEMMA VisitedType ==
  ASSUME run \in RunType, run.steps > 0, NEW x
  PROVE  /\ Visited(x) \in RunType
         /\ Visited(x).phase = run.phase
         /\ Visited(x).todo = run.todo \ {x}
<1>1. /\ run.steps - 1 \in Nat
      /\ run.todo \ {x} \in SUBSET (Account \union ReturnId)
  BY DEF RunType
<1> DEFINE t == run.todo \ {x}
           s == run.steps - 1
<1>2. Visited(x) = [run EXCEPT !.todo = t, !.steps = s]
  BY DEF Visited, RunType
<1> HIDE DEF t, s
<1>3. t \in SUBSET (Account \union ReturnId) /\ s \in Nat
  BY <1>1 DEF t, s
<1>4. /\ [run EXCEPT !.todo = t, !.steps = s] \in RunType
      /\ [run EXCEPT !.todo = t, !.steps = s].phase = run.phase
      /\ [run EXCEPT !.todo = t, !.steps = s].todo = t
  BY <1>3 DEF RunType
<1> QED BY <1>2, <1>4 DEF t

\* A finished withdrawal leaves no lock.
LEMMA DropWithdrawalStep ==
  ASSUME IInv, NEW o \in Account, drop_withdrawal(o)
  PROVE  IInv'
<1>1. run' = Visited(o) /\ run.phase = "withdraws" /\ run.steps > 0
  BY DEF drop_withdrawal, NextWithdrawal
<1>2. /\ run' \in RunType
      /\ run'.phase = "withdraws"
      /\ run'.todo = run.todo \ {o}
  BY <1>1, VisitedType DEF IInv, TypeOK
<1> QED BY <1>1, <1>2, UnlockStep DEF drop_withdrawal

\* What is withdrawn was available, and the first payment and all others fit.
LEMMA WithdrawStep ==
  ASSUME IInv, NEW o \in Account, NEW to \in Account,
         NEW q \in 1..MaxSupply, withdraw(o, to, q)
  PROVE  IInv'
<1> DEFINE n    == params.intervals
           rate == q \div n
           row  == [to |-> to, interval_seconds |-> params.interval_seconds,
                    remaining_payments |-> n,
                    next_payout |-> now + params.interval_seconds,
                    withdraw_rate |-> rate, to_withdraw |-> q]
<1>1. /\ q \in Nat /\ n \in Nat /\ n > 0 /\ now \in Nat
      /\ params.interval_seconds \in Nat
  BY ParamsAssumption, BoundsAssumption
  DEF withdraw, IInv, TypeOK, ParamType
<1>2. rate \in Nat /\ rate * n <= q /\ rate > 0
  BY <1>1, Quotient DEF withdraw, rate_of
<1>3. row \in WithdrawalType
  BY <1>1, <1>2 DEF WithdrawalType
<1>4. withdrawal' = Put(withdrawal, o, row)
  BY DEF withdraw, rate_of
<1>5. /\ row.remaining_payments > 0 /\ row.withdraw_rate > 0
      /\ row.withdraw_rate * row.remaining_payments <= row.to_withdraw
      /\ row.to_withdraw = q
  BY <1>1, <1>2
<1>6. /\ o \in DOMAIN accounts
      /\ accounts[o].delegated + q <= accounts[o].vesting + grown[o]
      /\ q <= accounts[o].vesting
  <2>1. o \in DOMAIN accounts /\ accounts[o].vesting - accounts[o].delegated >= q
    BY DEF withdraw, available_vesting
  <2> QED BY <1>1, <2>1, AccountFacts
<1> HIDE DEF row
<1>7. TypeOK'
  <2>1. IsTable(withdrawal', Account, WithdrawalType)
    BY <1>3, <1>4 DEF IInv, TypeOK, IsTable, Put
  <2> QED BY <2>1 DEF withdraw, IInv, TypeOK, transaction, history
<1>8. LockedWithinVesting'
  BY <1>4, <1>5, <1>6 DEF withdraw, IInv, LockedWithinVesting, history,
                          get_withdrawing_vesting, Put
<1>9. WithdrawalsSound'
  BY <1>4, <1>5, <1>6 DEF withdraw, IInv, WithdrawalsSound, Put
<1>10. RunSound' /\ SavedSound'
  BY DEF withdraw, Calm, transaction, IInv, RunSound, SavedSound, Idle
<1> QED BY <1>7, <1>8, <1>9, <1>10 DEF IInv

\* The limit is no part of the locks.
LEMMA UnlockLimitStep ==
  ASSUME IInv, NEW o \in Account, NEW q \in Limit, unlocklimit(o, q)
  PROVE  IInv'
<1>1. IsTable(accounts', Account, AccountType)
  BY BoundsAssumption DEF unlocklimit, IInv, TypeOK, IsTable, AccountType
<1>2. TypeOK'
  BY <1>1 DEF unlocklimit, IInv, TypeOK, transaction, history
<1>3. LockedWithinVesting' /\ WithdrawalsSound'
  BY DEF unlocklimit, IInv, TypeOK, IsTable, AccountType, LockedWithinVesting,
         WithdrawalsSound, history, get_withdrawing_vesting
<1>4. RunSound' /\ SavedSound'
  BY DEF unlocklimit, Calm, transaction, IInv, RunSound, SavedSound
<1> QED BY <1>2, <1>3, <1>4 DEF IInv

\* The issuer can burn neither what is delegated nor what is being withdrawn.
LEMMA RetireStep ==
  ASSUME IInv, NEW o \in Account, NEW q \in 1..MaxSupply, retire(o, q)
  PROVE  IInv'
<1> DEFINE row == [accounts[o] EXCEPT !.vesting = @ - q,
                                      !.unlocked_limit = @ - q]
<1>1. /\ o \in DOMAIN accounts /\ q \in Nat
      /\ accounts[o].unlocked_limit >= q
      /\ accounts[o].vesting - accounts[o].delegated
           - get_withdrawing_vesting(o) >= q
  <2>1. o \in DOMAIN accounts /\ q \in Nat /\ can_retire_vesting(o, q)
    BY BoundsAssumption DEF retire
  <2>2. accounts[o].unlocked_limit \in Nat
    BY <2>1, AccountFacts DEF AccountType
  <2> QED BY <2>1, <2>2, AccountFacts
          DEF can_retire_vesting, Least, available_vesting
<1>2. row \in AccountType /\ row.vesting = accounts[o].vesting - q
      /\ row.delegated = accounts[o].delegated
  <2>1. accounts[o].vesting - q \in Nat /\ accounts[o].unlocked_limit - q \in Nat
    BY <1>1, AccountFacts DEF AccountType
  <2> QED BY <1>1, <2>1, AccountFacts DEF AccountType
<1>3. accounts' = [accounts EXCEPT ![o] = row]
  BY <1>1, AccountFacts DEF retire, sub_balance, AccountType
<1> HIDE DEF row
<1>4. TypeOK'
  <2>1. IsTable(accounts', Account, AccountType)
    BY <1>2, <1>3 DEF IInv, TypeOK, IsTable
  <2>2. supply' \in Int
    BY <1>1 DEF retire, IInv, TypeOK
  <2> QED BY <2>1, <2>2 DEF retire, IInv, TypeOK, transaction, history
<1>5. LockedWithinVesting'
  <2> SUFFICES ASSUME NEW x \in DOMAIN accounts
               PROVE  /\ accounts'[x].delegated + get_withdrawing_vesting(x)
                           <= accounts'[x].vesting + grown[x]
                      /\ get_withdrawing_vesting(x) <= accounts'[x].vesting
    BY <1>3 DEF LockedWithinVesting, get_withdrawing_vesting, retire, history
  <2>1. CASE x = o
    BY <1>1, <1>2, <1>3, <2>1, AccountFacts
  <2>2. CASE x # o
    BY <1>3, <2>2, AccountFacts
  <2> QED BY <2>1, <2>2
<1>6. WithdrawalsSound' /\ RunSound' /\ SavedSound'
  BY <1>3 DEF retire, IInv, WithdrawalsSound, RunSound, SavedSound, Calm,
              transaction
<1> QED BY <1>4, <1>5, <1>6 DEF IInv

\* What is delegated was neither delegated nor being withdrawn.
LEMMA DelegateStep ==
  ASSUME IInv, NEW from \in Account, NEW to \in Account,
         NEW q \in 1..MaxSupply, NEW charge \in ChargeLevel,
         delegate(from, to, q, charge)
  PROVE  IInv'
<1> DEFINE exists == <<from, to>> \in DOMAIN delegation
           give   == [accounts[from] EXCEPT !.delegated = @ + q]
           take   == [accounts[to] EXCEPT
                        !.received = @ + q,
                        !.delegators = IF exists THEN @ ELSE @ + 1]
<1>1. /\ from # to /\ from \in DOMAIN accounts /\ to \in DOMAIN accounts
      /\ q \in Nat /\ params.min_time \in Nat /\ now \in Nat
  BY ParamsAssumption, BoundsAssumption
  DEF delegate, IInv, TypeOK, ParamType
<1>2. /\ accounts[from].delegated + q + get_withdrawing_vesting(from)
           <= accounts[from].vesting
      /\ accounts[from].delegated + q \in 0..MaxAmount
  <2>1. /\ accounts[from].vesting - get_withdrawing_vesting(from)
             >= q + accounts[from].delegated
        /\ q + accounts[from].delegated <= MaxAmount
    BY DEF delegate
  <2> QED BY <1>1, <2>1, AccountFacts, WidthAssumption
<1>3. /\ give \in AccountType /\ give.vesting = accounts[from].vesting
      /\ give.delegated = accounts[from].delegated + q
  BY <1>1, <1>2, AccountFacts DEF AccountType
<1>4. /\ take \in AccountType /\ take.vesting = accounts[to].vesting
      /\ take.delegated = accounts[to].delegated
  <2>1. accounts[to] \in AccountType
    BY <1>1, AccountFacts
  <2>2. /\ accounts[to].received + q \in Int
        /\ (IF exists THEN accounts[to].delegators
                      ELSE accounts[to].delegators + 1) \in Int
    BY <1>1, <2>1 DEF AccountType
  <2> HIDE DEF exists
  <2> QED BY <2>1, <2>2 DEF AccountType
<1>5. accounts' = [accounts EXCEPT ![from] = give, ![to] = take]
  BY <1>1, AccountFacts DEF delegate, AccountType
<1> HIDE DEF give, take
<1>6. IsTable(accounts', Account, AccountType)
  BY <1>1, <1>3, <1>4, <1>5 DEF IInv, TypeOK, IsTable
<1>7. IsTable(delegation', Account \X Account, DelegationType)
  <2>1. CASE exists
    <3> DEFINE row == [delegation[<<from, to>>] EXCEPT !.quantity = @ + q]
    <3>1. delegation[<<from, to>>] \in DelegationType
      BY <2>1 DEF IInv, TypeOK, IsTable
    <3>2. row \in DelegationType
      <4>1. delegation[<<from, to>>].quantity + q <= MaxAmount
        BY <2>1 DEF delegate
      <4> QED BY <1>1, <3>1, <4>1, WidthAssumption DEF DelegationType
    <3>3. delegation' = [delegation EXCEPT ![<<from, to>>] = row]
      BY <2>1, <3>1 DEF delegate, DelegationType
    <3> HIDE DEF row
    <3> QED BY <2>1, <3>2, <3>3 DEF IInv, TypeOK, IsTable
  <2>2. CASE ~exists
    <3> DEFINE row == [quantity |-> q,
                       min_delegation_time |-> now + params.min_time]
    <3>1. row \in DelegationType
      <4>1. q > 0 /\ q <= MaxAmount
        BY <1>1, <1>2, AccountFacts, WidthAssumption DEF delegate
      <4> QED BY <1>1, <4>1, WidthAssumption DEF DelegationType
    <3>2. delegation' = Put(delegation, <<from, to>>, row)
      BY <2>2 DEF delegate
    <3> HIDE DEF row
    <3> QED BY <3>1, <3>2 DEF IInv, TypeOK, IsTable, Put
  <2> QED BY <2>1, <2>2
<1>8. TypeOK'
  BY <1>6, <1>7 DEF delegate, IInv, TypeOK, transaction, history
<1>9. LockedWithinVesting'
  <2> SUFFICES ASSUME NEW x \in DOMAIN accounts
               PROVE  /\ accounts'[x].delegated + get_withdrawing_vesting(x)
                           <= accounts'[x].vesting + grown[x]
                      /\ get_withdrawing_vesting(x) <= accounts'[x].vesting
    BY <1>5 DEF LockedWithinVesting, get_withdrawing_vesting, delegate, history
  <2>1. CASE x = from
    BY <1>1, <1>2, <1>3, <1>5, <2>1, AccountFacts
  <2>2. CASE x = to
    BY <1>1, <1>4, <1>5, <2>2, AccountFacts
  <2>3. CASE x # from /\ x # to
    BY <1>5, <2>3, AccountFacts
  <2> QED BY <2>1, <2>2, <2>3
<1>10. WithdrawalsSound' /\ RunSound' /\ SavedSound'
  BY <1>5 DEF delegate, IInv, WithdrawalsSound, RunSound, SavedSound, Calm,
              transaction
<1> QED BY <1>8, <1>9, <1>10 DEF IInv

\* The test of the minimum lets any negative quantity pass, but not zero.
LEMMA NonzeroQuantity ==
  ASSUME IInv, NEW from \in Account, NEW to \in Account,
         NEW q \in (-MaxAmount)..MaxAmount, NEW id \in ReturnId,
         undelegate(from, to, q, id)
  PROVE  q \in Int \ {0}
<1>1. params.deleg_min_amount \in Nat \ {0}
  BY ParamsAssumption DEF undelegate, IInv, TypeOK, ParamType
<1>2. unsigned(q) >= params.deleg_min_amount /\ q \in Int
  BY WidthAssumption DEF undelegate
<1> QED BY <1>1, <1>2 DEF unsigned

\* The recipient's side only; what the delegator has locked stays locked until
\* the return matures.
LEMMA UndelegateStep ==
  ASSUME IInv, NEW from \in Account, NEW to \in Account,
         NEW q \in (-MaxAmount)..MaxAmount, NEW id \in ReturnId,
         undelegate(from, to, q, id)
  PROVE  IInv'
<1> DEFINE erasing == delegation[<<from, to>>].quantity = q
           lose    == [accounts[to] EXCEPT
                         !.received = @ - q,
                         !.delegators = IF erasing THEN @ - 1 ELSE @]
           back    == [delegator |-> from, quantity |-> q,
                       date |-> now + params.return_time]
<1>1. /\ to \in DOMAIN accounts /\ now \in Nat
      /\ params.return_time \in Nat
      /\ <<from, to>> \in DOMAIN delegation
      /\ delegation[<<from, to>>] \in DelegationType
      /\ q \in Int \ {0}
  <2>1. /\ to \in DOMAIN accounts /\ now \in Nat
        /\ params.return_time \in Nat
        /\ <<from, to>> \in DOMAIN delegation
        /\ delegation[<<from, to>>] \in DelegationType
    BY ParamsAssumption DEF undelegate, IInv, TypeOK, ParamType, IsTable
  <2> QED BY <2>1, NonzeroQuantity
<1>2. /\ lose \in AccountType /\ lose.vesting = accounts[to].vesting
      /\ lose.delegated = accounts[to].delegated
  <2>1. accounts[to] \in AccountType
    BY <1>1, AccountFacts
  <2>2. /\ accounts[to].received - q \in Int
        /\ (IF erasing THEN accounts[to].delegators - 1
                       ELSE accounts[to].delegators) \in Int
    BY <1>1, <2>1 DEF AccountType
  <2> HIDE DEF erasing
  <2> QED BY <2>1, <2>2 DEF AccountType
<1>3. accounts' = [accounts EXCEPT ![to] = lose]
  BY <1>1, AccountFacts DEF undelegate, take_back, AccountType
<1>4. IsTable(rdelegation', ReturnId, ReturnType)
  <2>1. back \in ReturnType
    BY <1>1 DEF ReturnType
  <2>2. rdelegation' = Put(rdelegation, id, back)
    BY DEF undelegate
  <2> HIDE DEF back
  <2> QED BY <2>1, <2>2 DEF IInv, TypeOK, IsTable, Put
<1>5. IsTable(delegation', Account \X Account, DelegationType)
  <2>1. CASE erasing
    BY <2>1 DEF undelegate, IInv, TypeOK, IsTable, Drop
  <2>2. CASE ~erasing
    <3> DEFINE row == [delegation[<<from, to>>] EXCEPT !.quantity = @ - q]
    <3>1. row \in DelegationType
      <4>1. /\ delegation[<<from, to>>].quantity >= q
            /\ delegation[<<from, to>>].quantity - q <= MaxAmount
        BY DEF undelegate
      <4>2. delegation[<<from, to>>].quantity - q \in 1..MaxAmount
        BY <1>1, <2>2, <4>1, WidthAssumption DEF DelegationType
      <4> QED BY <1>1, <4>2 DEF DelegationType
    <3>2. delegation' = [delegation EXCEPT ![<<from, to>>] = row]
      BY <1>1, <2>2 DEF undelegate, DelegationType
    <3> HIDE DEF row
    <3> QED BY <1>1, <3>1, <3>2 DEF IInv, TypeOK, IsTable
  <2> QED BY <2>1, <2>2
<1> HIDE DEF lose
<1>6. TypeOK'
  <2>1. IsTable(accounts', Account, AccountType)
    BY <1>1, <1>2, <1>3 DEF IInv, TypeOK, IsTable
  <2> QED BY <1>4, <1>5, <2>1
          DEF undelegate, IInv, TypeOK, transaction, history
<1>7. LockedWithinVesting'
  BY <1>1, <1>2, <1>3 DEF undelegate, IInv, LockedWithinVesting, history,
                          get_withdrawing_vesting
<1>8. WithdrawalsSound' /\ RunSound' /\ SavedSound'
  BY <1>3 DEF undelegate, IInv, WithdrawalsSound, RunSound, SavedSound, Calm,
              transaction
<1> QED BY <1>6, <1>7, <1>8 DEF IInv

\* A payout takes the same amount from the lock and from the balance, and the
\* instalments that remain still fit in what remains.
LEMMA PayWithdrawalStep ==
  ASSUME IInv, NEW o \in Account, pay_withdrawal(o)
  PROVE  IInv'
<1> DEFINE w    == withdrawal[o]
           last == w.remaining_payments = 1
           paid == [accounts[o] EXCEPT !.vesting = @ - to_send(o)]
           rest == [w EXCEPT !.next_payout = @ + w.interval_seconds,
                             !.to_withdraw = @ - w.withdraw_rate,
                             !.remaining_payments = @ - 1]
<1>1. /\ run.phase = "withdraws" /\ run.steps > 0
      /\ o \in DOMAIN withdrawal /\ o \in DOMAIN accounts
  BY DEF pay_withdrawal, NextWithdrawal, IInv, RunSound, WithdrawalsSound
<1>2. /\ w \in WithdrawalType
      /\ get_withdrawing_vesting(o) = w.to_withdraw
      /\ w.withdraw_rate <= w.to_withdraw
      /\ to_send(o) \in Nat
      /\ to_send(o) <= accounts[o].vesting
  BY <1>1, WithdrawalFacts
<1>3. /\ w.to_withdraw \in Nat /\ w.withdraw_rate \in Nat
      /\ w.remaining_payments \in Nat /\ w.remaining_payments > 0
      /\ w.withdraw_rate > 0 /\ w.next_payout + w.interval_seconds \in Nat
      /\ w.withdraw_rate * w.remaining_payments <= w.to_withdraw
  BY <1>1, <1>2 DEF WithdrawalType, IInv, WithdrawalsSound
<1>4. /\ paid \in AccountType
      /\ paid.vesting = accounts[o].vesting - to_send(o)
      /\ paid.delegated = accounts[o].delegated
      /\ accounts' = [accounts EXCEPT ![o] = paid]
  <2>1. accounts[o].vesting - to_send(o) \in Nat
    BY <1>1, <1>2, AccountFacts
  <2> QED BY <1>1, <2>1, AccountFacts
          DEF pay_withdrawal, sub_balance, AccountType
<1>5. run' \in RunType /\ run'.phase = "withdraws" /\ run'.todo = run.todo \ {o}
  <2> DEFINE sum == Visited(o).paid + converted_payout(o)
             ash == Visited(o).burnt + to_send(o)
  <2>1. run \in RunType /\ run.steps > 0
    BY <1>1 DEF IInv, TypeOK
  <2>2. /\ Visited(o) \in RunType /\ Visited(o).phase = run.phase
        /\ Visited(o).todo = run.todo \ {o}
    BY <2>1, VisitedType
  <2>3. sum \in Int /\ ash \in Int
    <3>1. converted_payout(o) \in Int
      <4>1. balance - run.paid \in Int
        BY <2>1 DEF IInv, TypeOK, RunType
      <4> QED BY <1>2, <4>1, PayoutInt DEF converted_payout, IInv
    <3> QED BY <1>2, <2>2, <3>1 DEF RunType
  <2> DEFINE next == [Visited(o) EXCEPT !.paid = sum, !.burnt = ash]
  <2>4. run' = next
    BY <2>2 DEF pay_withdrawal, RunType
  <2> HIDE DEF sum, ash
  <2>5. /\ next \in RunType
        /\ next.phase = Visited(o).phase
        /\ next.todo = Visited(o).todo
    BY <2>2, <2>3 DEF RunType
  <2> QED BY <1>1, <2>2, <2>4, <2>5
<1>6. ~last => /\ rest \in WithdrawalType
               /\ rest.to_withdraw = w.to_withdraw - to_send(o)
               /\ rest.withdraw_rate = w.withdraw_rate
               /\ rest.remaining_payments = w.remaining_payments - 1
  <2>1. w.to_withdraw - w.withdraw_rate \in Nat /\ w.remaining_payments - 1 \in Nat
    BY <1>2, <1>3
  <2>2. ~last => to_send(o) = w.withdraw_rate
    BY DEF to_send
  <2> QED BY <1>2, <1>3, <2>1, <2>2 DEF WithdrawalType
<1>7. ~last => /\ rest.remaining_payments > 0 /\ rest.withdraw_rate > 0
               /\ rest.withdraw_rate * rest.remaining_payments
                    <= rest.to_withdraw
  <2>1. w.withdraw_rate * (w.remaining_payments - 1)
          <= w.to_withdraw - w.withdraw_rate
    BY <1>3, Instalment
  <2>2. ~last => to_send(o) = w.withdraw_rate
    BY DEF to_send
  <2> QED BY <1>3, <1>6, <2>1, <2>2
<1>8. withdrawal' = IF last THEN Drop(withdrawal, o)
                            ELSE [withdrawal EXCEPT ![o] = rest]
  BY <1>1, <1>2 DEF pay_withdrawal, WithdrawalType
<1>9. UNCHANGED <<created, delegation, rdelegation, params, balance, tokenRows,
                  now, deferred, saved, history>> /\ supply' = supply - to_send(o)
  BY DEF pay_withdrawal
<1> HIDE DEF paid, rest, last
<1>10. TypeOK'
  <2>1. IsTable(accounts', Account, AccountType)
    BY <1>1, <1>4 DEF IInv, TypeOK, IsTable
  <2>2. IsTable(withdrawal', Account, WithdrawalType)
    BY <1>1, <1>6, <1>8 DEF IInv, TypeOK, IsTable, Drop
  <2>3. supply' \in Int
    BY <1>2, <1>9 DEF IInv, TypeOK
  <2> QED BY <1>5, <1>9, <2>1, <2>2, <2>3 DEF IInv, TypeOK, history
<1>11. LockedWithinVesting'
  <2> SUFFICES ASSUME NEW x \in DOMAIN accounts
               PROVE  /\ accounts'[x].delegated + get_withdrawing_vesting(x)'
                           <= accounts'[x].vesting + grown[x]
                      /\ get_withdrawing_vesting(x)' <= accounts'[x].vesting
    BY <1>4, <1>9 DEF LockedWithinVesting, history
  <2>1. CASE x = o /\ last
    <3>1. get_withdrawing_vesting(o)' = 0
      BY <1>8, <2>1 DEF get_withdrawing_vesting, Drop
    <3>2. accounts[o].delegated + to_send(o) <= accounts[o].vesting + grown[o]
      BY <1>1, WithdrawalFacts
    <3> QED BY <1>1, <1>2, <1>4, <2>1, <3>1, <3>2, AccountFacts
  <2>2. CASE x = o /\ ~last
    <3>1. get_withdrawing_vesting(o)' = w.to_withdraw - to_send(o)
      BY <1>1, <1>6, <1>8, <2>2 DEF get_withdrawing_vesting
    <3> QED BY <1>1, <1>2, <1>3, <1>4, <2>2, <3>1, AccountFacts
  <2>3. CASE x # o
    <3>1. get_withdrawing_vesting(x)' = get_withdrawing_vesting(x)
      BY <1>8, <2>3 DEF get_withdrawing_vesting, Drop
    <3> QED BY <1>4, <2>3, <3>1, AccountFacts
  <2> QED BY <2>1, <2>2, <2>3
<1>12. WithdrawalsSound'
  BY <1>1, <1>4, <1>6, <1>7, <1>8 DEF IInv, WithdrawalsSound, Drop
<1>13. RunSound'
  BY <1>1, <1>5, <1>8 DEF IInv, RunSound, Drop
<1>14. SavedSound'
  <2>1. /\ LockedIn(saved.accounts, saved.withdrawal, saved.grown)
        /\ SoundIn(saved.withdrawal, saved.accounts)
        /\ DOMAIN accounts = DOMAIN saved.accounts
        /\ \A x \in DOMAIN accounts :
             accounts[x].vesting <= saved.accounts[x].vesting
    BY <1>1 DEF IInv, SavedSound, Calm
  <2>2. \A x \in DOMAIN accounts : /\ accounts[x].vesting \in Nat
                                   /\ saved.accounts[x].vesting \in Nat
    BY <2>1 DEF IInv, TypeOK, IsTable, AccountType
  <2>3. \A x \in DOMAIN accounts :
          accounts'[x].vesting <= saved.accounts[x].vesting
    BY <1>1, <1>2, <1>4, <2>1, <2>2
  <2> QED BY <1>4, <1>9, <2>1, <2>3 DEF SavedSound
<1> QED BY <1>10, <1>11, <1>12, <1>13, <1>14 DEF IInv

\* The loop goes from withdrawals to returns.
LEMMA BeginReturnsStep ==
  ASSUME IInv, begin_returns
  PROVE  IInv'
<1>1. run' \in RunType
  BY BoundsAssumption
  DEF begin_returns, IInv, TypeOK, IsTable, RunType, DueReturns
<1>2. RunSound'
  BY DEF begin_returns, tables, IInv, TypeOK, RunType, RunSound, DueReturns
<1>3. TypeOK' /\ LockedWithinVesting' /\ WithdrawalsSound'
  BY <1>1 DEF begin_returns, tables, history, IInv, TypeOK,
              LockedWithinVesting, WithdrawalsSound, get_withdrawing_vesting
<1>4. SavedSound'
  BY DEF begin_returns, tables, IInv, SavedSound, Calm
<1> QED BY <1>2, <1>3, <1>4 DEF IInv

\* A return unlocks, or grown records by how much it locks.
LEMMA ReturnDelegationStep ==
  ASSUME IInv, NEW id \in ReturnId, return_delegation(id)
  PROVE  IInv'
<1> DEFINE r   == rdelegation[id]
           o   == r.delegator
           n   == accounts[o].delegated - r.quantity
           row == [accounts[o] EXCEPT !.delegated = n]
<1>1. /\ run.phase = "returns" /\ run.steps > 0 /\ id \in DOMAIN rdelegation
      /\ r.quantity \in Int /\ o \in Account
  BY DEF return_delegation, NextReturn, IInv, RunSound, TypeOK, IsTable,
         ReturnType
<1>2. o \in DOMAIN accounts => n \in 0..MaxAmount
  <2> SUFFICES ASSUME o \in DOMAIN accounts PROVE n \in 0..MaxAmount
    OBVIOUS
  <2>1. /\ ~(accounts[o].delegated < r.quantity)
        /\ ~(accounts[o].delegated - r.quantity > MaxAmount)
    BY DEF return_delegation, return_fails
  <2> QED BY <1>1, <2>1, AccountFacts, WidthAssumption
<1>3. accounts' = [accounts EXCEPT ![o].delegated = n]
  BY DEF return_delegation
<1>4. /\ DOMAIN accounts' = DOMAIN accounts
      /\ \A x \in DOMAIN accounts :
           /\ accounts'[x] \in AccountType
           /\ accounts'[x].vesting = accounts[x].vesting
           /\ accounts'[x].delegated = IF x = o THEN n ELSE accounts[x].delegated
  <2>1. o \in DOMAIN accounts => accounts[o] \in AccountType
    BY DEF IInv, TypeOK, IsTable
  <2>2. o \in DOMAIN accounts =>
          /\ row \in AccountType /\ row.vesting = accounts[o].vesting
          /\ row.delegated = n
    BY <1>2, <2>1 DEF AccountType
  <2>3. accounts' = [accounts EXCEPT ![o] = row]
    BY <1>3
  <2>4. accounts \in [DOMAIN accounts -> AccountType]
    BY DEF IInv, TypeOK, IsTable
  <2> HIDE DEF row, n, o
  <2> QED BY <2>2, <2>3, <2>4
<1>5. /\ grown' \in [Account -> Nat]
      /\ \A x \in Account : /\ grown[x] \in Nat /\ grown'[x] >= grown[x]
                            /\ x = o => grown'[x] >= grown[x] - r.quantity
  <2>1. grown \in [Account -> Nat]
    BY DEF IInv, TypeOK
  <2>2. CASE r.quantity < 0
    <3>1. grown' = [grown EXCEPT ![o] = @ - r.quantity]
      BY <2>2 DEF return_delegation
    <3>2. grown[o] - r.quantity \in Nat /\ grown[o] - r.quantity >= grown[o]
      BY <1>1, <2>1, <2>2
    <3> HIDE DEF o, r
    <3> QED BY <1>1, <2>1, <3>1, <3>2
  <2>3. CASE ~(r.quantity < 0)
    <3>1. grown' = grown
      BY <2>3 DEF return_delegation
    <3> QED BY <1>1, <2>1, <2>3, <3>1
  <2> QED BY <2>2, <2>3
<1>6. run' \in RunType /\ run'.phase = "returns" /\ run'.todo = run.todo \ {id}
  BY <1>1, VisitedType DEF return_delegation, IInv, TypeOK
<1>7. UNCHANGED <<created, supply, delegation, withdrawal, params, balance,
                  tokenRows, now, deferred, saved, orphaned>>
      /\ rdelegation' = Drop(rdelegation, id)
  BY DEF return_delegation
<1> HIDE DEF n
<1>8. TypeOK'
  <2>1. IsTable(accounts', Account, AccountType)
    <3>1. accounts' = [x \in DOMAIN accounts' |-> accounts'[x]]
      BY <1>3 DEF IInv, TypeOK, IsTable
    <3> QED BY <1>4, <3>1 DEF IInv, TypeOK, IsTable
  <2>2. IsTable(rdelegation', ReturnId, ReturnType)
    BY <1>7 DEF IInv, TypeOK, IsTable, Drop
  <2> QED BY <1>5, <1>6, <1>7, <2>1, <2>2 DEF IInv, TypeOK
<1>9. LockedWithinVesting'
  <2> SUFFICES ASSUME NEW x \in DOMAIN accounts
               PROVE  /\ accounts'[x].delegated + get_withdrawing_vesting(x)
                           <= accounts'[x].vesting + grown'[x]
                      /\ get_withdrawing_vesting(x) <= accounts'[x].vesting
    BY <1>4, <1>7 DEF LockedWithinVesting, get_withdrawing_vesting
  <2>1. CASE x = o
    <3>1. accounts'[x].delegated = accounts[x].delegated - r.quantity
      BY <1>4, <2>1 DEF n
    <3> QED BY <1>1, <1>4, <1>5, <2>1, <3>1, AccountFacts
  <2>2. CASE x # o
    <3>1. x \in Account
      BY AccountFacts
    <3> QED BY <1>4, <1>5, <2>2, <3>1, AccountFacts
  <2> QED BY <2>1, <2>2
<1>10. WithdrawalsSound'
  BY <1>4, <1>7 DEF IInv, WithdrawalsSound
<1>11. RunSound'
  BY <1>1, <1>6, <1>7 DEF IInv, RunSound, Drop
<1>12. SavedSound'
  BY <1>1, <1>4, <1>7 DEF IInv, SavedSound, Calm
<1> QED BY <1>8, <1>9, <1>10, <1>11, <1>12 DEF IInv

\* The end of a run changes supply and balance, not the accounts.
LEMMA EndRunStep ==
  ASSUME IInv, end_run
  PROVE  IInv'
<1>1. TypeOK'
  <2>1. balance' \in Int /\ supply' \in Int /\ orphaned' \in Int
    BY DEF end_run, IInv, TypeOK, RunType
  <2>2. run' \in RunType
    BY DEF end_run, Idle, RunType
  <2>3. deferred' \in BOOLEAN
    BY Zenon DEF end_run
  <2>4. saved' = Unsaved
    BY DEF end_run
  <2> QED BY <2>1, <2>2, <2>3, <2>4, UnsavedType DEF end_run, IInv, TypeOK
<1>2. LockedWithinVesting' /\ WithdrawalsSound'
  BY DEF end_run, IInv, LockedWithinVesting, WithdrawalsSound,
         get_withdrawing_vesting
<1>3. RunSound' /\ SavedSound'
  BY DEF end_run, Idle, RunSound, SavedSound, Calm
<1> QED BY <1>1, <1>2, <1>3 DEF IInv

\* Only a running loop aborts.
LEMMA AbortRuns ==
  ASSUME abort_run
  PROVE  ~Calm
BY DEF abort_run, overdraws, NextWithdrawal, NextReturn, Calm

\* An abort goes back to tables that were sound.
LEMMA AbortStep ==
  ASSUME IInv, abort_run
  PROVE  IInv'
<1>1. TypeOK'
  <2>1. run' \in RunType /\ saved' = Unsaved
    BY DEF abort_run, Idle, RunType
  <2> QED BY <2>1, UnsavedType DEF abort_run, IInv, TypeOK
<1>2. /\ LockedIn(saved.accounts, saved.withdrawal, saved.grown)
      /\ SoundIn(saved.withdrawal, saved.accounts)
  BY AbortRuns DEF IInv, SavedSound
<1>3. LockedWithinVesting' /\ WithdrawalsSound'
  BY <1>2 DEF abort_run, LockedIn, WithdrawingIn, SoundIn, LockedWithinVesting,
              get_withdrawing_vesting, WithdrawalsSound
<1>4. RunSound' /\ SavedSound'
  BY DEF abort_run, Idle, RunSound, SavedSound, Calm
<1> QED BY <1>1, <1>3, <1>4 DEF IInv

----------------------------------------------------------------------------
(* Results *)

\* Every step of the contract, of its users and of what surrounds it keeps the
\* invariant.
LEMMA IInvStep == IInv /\ [Next]_vars => IInv'
<1> SUFFICES ASSUME IInv, [Next]_vars PROVE IInv'
  OBVIOUS
<1>1. CASE create
  BY <1>1, UntouchedStep DEF create, IInv, TypeOK
<1>2. CASE \E p \in ParamSets : setparams(p)
  BY <1>2, UntouchedStep DEF setparams, IInv, TypeOK
<1>3. CASE \E o \in Account : open(o) \/ close(o) \/ stopwithdraw(o)
  BY <1>3, OpenStep, CloseStep, StopWithdrawStep
<1>4. CASE \E o \in Account, q \in Deposit : on_transfer(o, q)
  BY <1>4, TransferStep
<1>5. CASE \E o1, o2 \in Account, q1, q2 \in Deposit :
             on_bulk_transfer(o1, q1, o2, q2)
  BY <1>5, BulkTransferStep
<1>6. CASE \E q \in Deposit : issuer_transfer(q) \/ issuer_bulk_transfer(q)
  <2> PICK q \in Deposit : issuer_transfer(q) \/ issuer_bulk_transfer(q)
    BY <1>6
  <2>1. balance' \in Int /\ deferred' \in BOOLEAN
    <3>1. balance \in Int /\ q \in Nat /\ deferred \in BOOLEAN
      BY BoundsAssumption DEF IInv, TypeOK
    <3>2. balance' = balance + q /\ deferred' = deferred
      BY Zenon DEF issuer_transfer, issuer_bulk_transfer
    <3> QED BY <3>1, <3>2
  <2>2. token_to_vesting(q, balance) \in Int
    <3>1. q \in Nat /\ TypeOK
      BY BoundsAssumption DEF IInv
    <3>2. token_to_vesting(q, balance) \in Nat
      BY <3>1, Conversion
    <3> QED BY <3>2
  <2>3. /\ run' \in RunType /\ run'.phase = "withdraws"
        /\ run'.todo = DueWithdrawals
    <3>0. 0 \in Int
      OBVIOUS
    <3>1. CASE issuer_transfer(q)
      BY <3>0, <3>1, StartRunType, Zenon DEF issuer_transfer
    <3>2. CASE issuer_bulk_transfer(q)
      BY <2>2, <3>2, StartRunType, Zenon DEF issuer_bulk_transfer
    <3> QED BY <3>1, <3>2
  <2> QED BY <2>1, <2>3, StartStep DEF issuer_transfer, issuer_bulk_transfer
<1>7. CASE \E o, to \in Account, q \in 1..MaxSupply : withdraw(o, to, q)
  BY <1>7, WithdrawStep
<1>8. CASE \E o \in Account, q \in Limit : unlocklimit(o, q)
  BY <1>8, UnlockLimitStep
<1>9. CASE \E o \in Account, q \in 1..MaxSupply : retire(o, q)
  BY <1>9, RetireStep
<1>10. CASE \E from, to \in Account, q \in 1..MaxSupply, c \in ChargeLevel :
              delegate(from, to, q, c)
  BY <1>10, DelegateStep
<1>11. CASE \E from, to \in Account, q \in (-MaxAmount)..MaxAmount,
              id \in ReturnId : undelegate(from, to, q, id)
  BY <1>11, UndelegateStep
<1>12. CASE procwaiting
  <2>1. /\ run' \in RunType /\ run'.phase = "withdraws"
        /\ run'.todo = DueWithdrawals
    <3>1. 0 \in Int
      OBVIOUS
    <3> QED BY <1>12, <3>1, StartRunType, Zenon DEF procwaiting
  <2> QED BY <1>12, <2>1, StartStep DEF procwaiting, tables, IInv, TypeOK
<1>13. CASE deferred_procwaiting
  <2>1. deferred' \in BOOLEAN /\ balance' \in Int
    BY <1>13 DEF deferred_procwaiting, IInv, TypeOK
  <2>2. /\ run' \in RunType /\ run'.phase = "withdraws"
        /\ run'.todo = DueWithdrawals
    <3>1. 0 \in Int
      OBVIOUS
    <3> QED BY <1>13, <3>1, StartRunType, Zenon DEF deferred_procwaiting
  <2> QED BY <1>13, <2>1, <2>2, StartStep DEF deferred_procwaiting
<1>14. CASE RunStep
  BY <1>14, DropWithdrawalStep, PayWithdrawalStep, ReturnDelegationStep,
     BeginReturnsStep, EndRunStep, AbortStep DEF RunStep
<1>15. CASE Tick
  BY <1>15, UntouchedStep DEF Tick, IInv, TypeOK
<1>16. CASE \E a \in Fickle : ToggleTokenRow(a)
  BY <1>16, UntouchedStep, BoundsAssumption
  DEF ToggleTokenRow, IInv, TypeOK
<1>17. CASE DeferredLost
  BY <1>17, UntouchedStep DEF DeferredLost, IInv, TypeOK
<1>18. CASE UNCHANGED vars
  BY <1>18, UntouchedStep DEF vars, tables, IInv, TypeOK
<1> QED BY <1>1, <1>2, <1>3, <1>4, <1>5, <1>6, <1>7, <1>8, <1>9, <1>10, <1>11,
           <1>12, <1>13, <1>14, <1>15, <1>16, <1>17, <1>18 DEF Next, Step

\* The five invariants hold together in every reachable state.
LEMMA Invariance == Spec => []IInv
BY InitIInv, IInvStep, PTL DEF Spec

\* For any accounts, parameters and amounts, no table of the contract ever
\* holds a negative balance, delegated amount, limit or instalment, although
\* returns may be negative; nor does one that an aborted loop puts back.
THEOREM TypeCorrect == Spec => []TypeOK
<1>1. IInv => TypeOK
  BY DEF IInv
<1> QED BY <1>1, Invariance, PTL

\* No sequence of transfers, delegations, withdrawals, retirements, payouts and
\* aborted loops makes the delegated and the withdrawing part of a balance
\* overlap by more than negative returns of its owner have matured, and the
\* withdrawing part alone never exceeds the balance.
THEOREM LockedStaysWithinVesting == Spec => []LockedWithinVesting
<1>1. IInv => LockedWithinVesting
  BY DEF IInv
<1> QED BY <1>1, Invariance, PTL

\* Every withdrawal can pay its instalments in full, and its owner's account
\* row exists until it ends.
THEOREM WithdrawalsStaySound == Spec => []WithdrawalsSound
<1>1. IInv => WithdrawalsSound
  BY DEF IInv
<1> QED BY <1>1, Invariance, PTL

----------------------------------------------------------------------------
(* The ledger that golos.ctrl relies on.  Most transactions leave every
   balance as it was.  The others change the balance of one account or, in a
   bulk transfer, of two, and create the rows they need; a loop pays any
   number of accounts, which the ledger sees at its end, or not at all. *)

\* The balances of the tables as they stand, in a loop or not
Standing == [o \in DOMAIN accounts |-> accounts[o].vesting]

\* Actions that may rewrite rows but keep every balance
LEMMA SameBalances ==
  ASSUME DOMAIN accounts' = DOMAIN accounts,
         \A x \in DOMAIN accounts : accounts'[x].vesting = accounts[x].vesting
  PROVE  Standing' = Standing
BY DEF Standing

\* Where a transaction starts and ends, and what it keeps in between
Starts == /\ Calm /\ ~Calm' /\ saved' = Snapshot
          /\ UNCHANGED <<tables, history>>

Inside == /\ ~Calm /\ ~Calm'
          /\ UNCHANGED <<saved, delegation, orphaned>>

\* Every step is one of a transaction without a loop, starts a loop, is one of
\* its iterations, or ends it one way or the other.
LEMMA Phases ==
  ASSUME IInv, [Next]_vars
  PROVE  (Calm /\ Calm') \/ Starts \/ Inside \/ end_run \/ abort_run
<1>1. CASE \/ create
           \/ \E p \in ParamSets : setparams(p)
           \/ \E o \in Account : open(o) \/ close(o) \/ stopwithdraw(o)
           \/ \E o \in Account, q \in Deposit : on_transfer(o, q)
           \/ \E o1, o2 \in Account, q1, q2 \in Deposit :
                on_bulk_transfer(o1, q1, o2, q2)
           \/ \E o, to \in Account, q \in 1..MaxSupply : withdraw(o, to, q)
           \/ \E o \in Account, q \in Limit : unlocklimit(o, q)
           \/ \E o \in Account, q \in 1..MaxSupply : retire(o, q)
           \/ Tick \/ DeferredLost
           \/ \E a \in Fickle : ToggleTokenRow(a)
  <2>1. Calm /\ UNCHANGED run
    BY <1>1 DEF create, setparams, open, close, stopwithdraw, on_transfer,
       on_bulk_transfer, withdraw, unlocklimit, retire, Tick, DeferredLost,
       ToggleTokenRow, transaction
  <2> QED BY <2>1 DEF Calm
<1>2. ASSUME NEW from, NEW to, NEW q, NEW c, delegate(from, to, q, c)
      PROVE  Calm /\ Calm'
  BY <1>2 DEF delegate, Calm, transaction
<1>3. ASSUME NEW from, NEW to, NEW q, NEW id, undelegate(from, to, q, id)
      PROVE  Calm /\ Calm'
  BY <1>3 DEF undelegate, Calm, transaction
<1>4. CASE \/ \E q \in Deposit : issuer_transfer(q) \/ issuer_bulk_transfer(q)
           \/ procwaiting \/ deferred_procwaiting
  BY <1>4 DEF issuer_transfer, issuer_bulk_transfer, procwaiting,
     deferred_procwaiting, Starts, StartRun, Calm, history
<1>5. CASE \E o \in Account : drop_withdrawal(o) \/ pay_withdrawal(o)
  BY <1>5 DEF drop_withdrawal, pay_withdrawal, NextWithdrawal, Visited, Inside,
     Calm, history, IInv, TypeOK, RunType
<1>6. CASE \E id \in ReturnId : return_delegation(id)
  BY <1>6 DEF return_delegation, NextReturn, Visited, Inside, Calm, IInv,
     TypeOK, RunType
<1>7. CASE begin_returns
  BY <1>7 DEF begin_returns, Inside, Calm, tables, history, IInv, TypeOK,
     RunType
<1>8. CASE UNCHANGED vars
  BY <1>8 DEF vars, tables, transaction, history, Calm, Inside
<1> QED BY <1>1, <1>2, <1>3, <1>4, <1>5, <1>6, <1>7, <1>8
        DEF Next, Step, RunStep

\* A balance that is in a row of the right type
LEMMA BalanceNat ==
  ASSUME NEW rows, IsTable(rows, Account, AccountType)
  PROVE  \A x \in DOMAIN rows : rows[x].vesting \in Nat
BY DEF IsTable, AccountType

\* Only one account's balance differs, or its row is new.
LEMMA OneBalance ==
  ASSUME IsTable(accounts, Account, AccountType),
         IsTable(accounts', Account, AccountType), Calm, Calm',
         NEW o \in Account,
         DOMAIN accounts' = DOMAIN accounts \union {o},
         \A x \in DOMAIN accounts :
           x # o => accounts'[x].vesting = accounts[x].vesting
  PROVE  Ledger!Next
<1> DEFINE n == vestings'[o] - Ledger!Held(vestings, o)
<1>1. /\ Ledger!Held(vestings, o) \in Int
      /\ o \in DOMAIN vestings' /\ vestings'[o] \in Nat
  BY BalanceNat DEF vestings, committed, Ledger!Held
<1>2. Ledger!Held(vestings, o) + n = vestings'[o]
  BY <1>1
<1> HIDE DEF n
<1>3. vestings' = Ledger!moved(vestings, o, n)
  BY <1>2 DEF vestings, committed, Ledger!moved, Ledger!Put
<1>4. Ledger!change(o, n)
  BY <1>1, <1>2, <1>3 DEF Ledger!change, vestings, committed
<1> QED BY <1>1, <1>4 DEF Ledger!Next, vestings, committed, n

\* The balances of two accounts differ, or their rows are new.
LEMMA TwoBalances ==
  ASSUME IsTable(accounts, Account, AccountType),
         IsTable(accounts', Account, AccountType), Calm, Calm',
         NEW o1 \in Account, NEW o2 \in Account, o1 # o2,
         DOMAIN accounts' = DOMAIN accounts \union {o1, o2},
         \A x \in DOMAIN accounts :
           x # o1 /\ x # o2 => accounts'[x].vesting = accounts[x].vesting
  PROVE  Ledger!Next
<1> DEFINE n1 == vestings'[o1] - Ledger!Held(vestings, o1)
           n2 == vestings'[o2] - Ledger!Held(vestings, o2)
           mid == Ledger!moved(vestings, o1, n1)
<1>1. /\ Ledger!Held(vestings, o1) \in Int /\ Ledger!Held(vestings, o2) \in Int
      /\ o1 \in DOMAIN vestings' /\ vestings'[o1] \in Nat
      /\ o2 \in DOMAIN vestings' /\ vestings'[o2] \in Nat
  BY BalanceNat DEF vestings, committed, Ledger!Held
<1>2. /\ Ledger!Held(vestings, o1) + n1 = vestings'[o1]
      /\ Ledger!Held(vestings, o2) + n2 = vestings'[o2]
  BY <1>1
<1> HIDE DEF n1, n2
<1>3. /\ DOMAIN mid = DOMAIN vestings \union {o1}
      /\ mid[o1] = vestings'[o1]
      /\ \A x \in DOMAIN vestings : x # o1 => mid[x] = vestings[x]
      /\ Ledger!Held(mid, o2) = Ledger!Held(vestings, o2)
  BY <1>2 DEF Ledger!moved, Ledger!Put, Ledger!Held
<1> HIDE DEF mid
<1>4. vestings' = Ledger!moved(mid, o2, n2)
  BY <1>2, <1>3 DEF vestings, committed, Ledger!moved, Ledger!Put
<1>5. Ledger!change_two(o1, n1, o2, n2)
  BY <1>1, <1>2, <1>3, <1>4 DEF Ledger!change_two, vestings, committed, mid
<1> QED BY <1>1, <1>5 DEF Ledger!Next, vestings, committed, n1, n2

----------------------------------------------------------------------------
(* The steps of vesting *)

\* A credit of nothing changes nothing, another only its own account's row.
LEMMA CreditedBalances ==
  ASSUME NEW rows, IsTable(rows, Account, AccountType),
         NEW o \in Account, NEW n \in Nat
  PROVE  LET new == add_balance(rows, o, n) IN
         \/ new = rows
         \/ /\ DOMAIN new = DOMAIN rows \union {o}
            /\ \A x \in DOMAIN rows : x # o => new[x] = rows[x]
<1>1. CASE n = 0
  BY <1>1 DEF add_balance
<1>2. CASE n # 0 /\ o \in DOMAIN rows
  BY <1>2 DEF add_balance
<1>3. CASE n # 0 /\ o \notin DOMAIN rows
  BY <1>3 DEF add_balance, Put
<1> QED BY <1>1, <1>2, <1>3

\* A transfer in changes one balance.
LEMMA TransferLedger ==
  ASSUME IInv, IInv', NEW o \in Account, NEW q \in Deposit, on_transfer(o, q)
  PROVE  Ledger!Next \/ vestings' = vestings
<1> DEFINE c == token_to_vesting(q, balance)
<1>1. c \in Nat /\ accounts' = add_balance(accounts, o, c) /\ Calm /\ Calm'
  BY Conversion, BoundsAssumption DEF on_transfer, IInv, Calm, transaction
<1> HIDE DEF c
<1>2. /\ IsTable(accounts, Account, AccountType)
      /\ IsTable(accounts', Account, AccountType)
  BY DEF IInv, TypeOK
<1>3. CASE accounts' = accounts
  BY <1>1, <1>3 DEF vestings, committed
<1>4. CASE /\ DOMAIN accounts' = DOMAIN accounts \union {o}
           /\ \A x \in DOMAIN accounts : x # o => accounts'[x] = accounts[x]
  BY <1>1, <1>2, <1>4, OneBalance
<1> QED BY <1>1, <1>2, <1>3, <1>4, CreditedBalances

\* Two credits change one balance when one of them is of nothing or both are
\* to the same account.
LEMMA BulkTransferLedger ==
  ASSUME IInv, IInv', NEW o1 \in Account, NEW o2 \in Account,
         NEW q1 \in Deposit, NEW q2 \in Deposit,
         on_bulk_transfer(o1, q1, o2, q2)
  PROVE  Ledger!Next \/ vestings' = vestings
<1> DEFINE c1 == token_to_vesting(q1, balance)
           c2 == token_to_vesting(q2, balance)
           mid == add_balance(accounts, o1, c1)
           Touched(new, rows, o) ==
             /\ DOMAIN new = DOMAIN rows \union {o}
             /\ \A x \in DOMAIN rows : x # o => new[x] = rows[x]
<1>1. /\ c1 \in Nat /\ c2 \in Nat /\ accounts' = add_balance(mid, o2, c2)
      /\ Calm /\ Calm'
  BY Conversion, BoundsAssumption DEF on_bulk_transfer, IInv, Calm, transaction
<1> HIDE DEF c1, c2
<1>2. /\ IsTable(accounts, Account, AccountType)
      /\ IsTable(accounts', Account, AccountType)
  BY DEF IInv, TypeOK
<1>3. IsTable(mid, Account, AccountType)
  BY <1>1, <1>2, AddBalance
<1>4. mid = accounts \/ Touched(mid, accounts, o1)
  BY <1>1, <1>2, CreditedBalances
<1> HIDE DEF mid
<1>5. accounts' = mid \/ Touched(accounts', mid, o2)
  BY <1>1, <1>3, CreditedBalances
<1>6. CASE accounts' = accounts
  BY <1>1, <1>6 DEF vestings, committed
<1>7. CASE Touched(accounts', accounts, o1) \/ Touched(accounts', accounts, o2)
  BY <1>1, <1>2, <1>7, OneBalance
<1>8. CASE Touched(mid, accounts, o1) /\ Touched(accounts', mid, o2)
  <2>1. /\ DOMAIN accounts' = DOMAIN accounts \union {o1, o2}
        /\ \A x \in DOMAIN accounts :
             x # o1 /\ x # o2 => accounts'[x] = accounts[x]
    BY <1>8
  <2>2. CASE o1 # o2
    BY <1>1, <1>2, <2>1, <2>2, TwoBalances
  <2>3. CASE o1 = o2
    BY <1>1, <1>2, <2>1, <2>3, OneBalance
  <2> QED BY <2>2, <2>3
<1> QED BY <1>4, <1>5, <1>6, <1>7, <1>8

\* A retirement changes one balance; opening and closing a row is what it is
\* in the ledger.
LEMMA OwnerLedger ==
  ASSUME IInv, IInv', NEW o \in Account,
         \/ open(o) \/ close(o)
         \/ (\E q \in 1..MaxSupply : retire(o, q))
  PROVE  Ledger!Next
<1>1. /\ IsTable(accounts, Account, AccountType)
      /\ IsTable(accounts', Account, AccountType)
  BY DEF IInv, TypeOK
<1>2. Calm /\ Calm'
  BY DEF open, close, retire, Calm, transaction
<1>3. CASE open(o)
  BY <1>2, <1>3 DEF open, vestings, committed, Put, NewRow, Ledger!Next,
                    Ledger!open, Ledger!Put
<1>4. CASE close(o)
  BY <1>2, <1>4 DEF close, vestings, committed, Drop, Ledger!Next,
                    Ledger!close, Ledger!Drop
<1>5. CASE \E q \in 1..MaxSupply : retire(o, q)
  <2>1. /\ o \in DOMAIN accounts
        /\ \E q \in 1..MaxSupply : accounts' = sub_balance(accounts, o, q, TRUE)
    BY <1>5 DEF retire
  <2>2. /\ DOMAIN accounts' = DOMAIN accounts \union {o}
        /\ \A x \in DOMAIN accounts : x # o => accounts'[x] = accounts[x]
    BY <2>1 DEF sub_balance
  <2> QED BY <1>1, <1>2, <2>2, OneBalance
<1> QED BY <1>3, <1>4, <1>5

\* Delegating, taking back, returning and unlocking rewrite rows and keep every
\* balance.
LEMMA OtherRows ==
  ASSUME IInv,
         \/ \E o \in Account, q \in Limit : unlocklimit(o, q)
         \/ \E from, to \in Account, q \in 1..MaxSupply, c \in ChargeLevel :
              delegate(from, to, q, c)
         \/ \E from, to \in Account, q \in (-MaxAmount)..MaxAmount,
               id \in ReturnId : undelegate(from, to, q, id)
         \/ \E id \in ReturnId : return_delegation(id)
  PROVE  Standing' = Standing
<1>1. \A x \in DOMAIN accounts : accounts[x] \in AccountType
  BY DEF IInv, TypeOK, IsTable
<1>2. ASSUME NEW o \in Account, NEW q \in Limit, unlocklimit(o, q)
      PROVE  Standing' = Standing
  BY <1>1, <1>2, SameBalances DEF unlocklimit, AccountType
<1>3. ASSUME NEW from \in Account, NEW to \in Account, NEW q \in 1..MaxSupply,
             NEW c \in ChargeLevel, delegate(from, to, q, c)
      PROVE  Standing' = Standing
  BY <1>1, <1>3, SameBalances DEF delegate, AccountType
<1>4. ASSUME NEW from \in Account, NEW to \in Account,
             NEW q \in (-MaxAmount)..MaxAmount, NEW id \in ReturnId,
             undelegate(from, to, q, id)
      PROVE  Standing' = Standing
  BY <1>1, <1>4, SameBalances DEF undelegate, take_back, AccountType
<1>5. ASSUME NEW id \in ReturnId, return_delegation(id)
      PROVE  Standing' = Standing
  BY <1>1, <1>5, SameBalances DEF return_delegation, AccountType
<1> QED BY <1>2, <1>3, <1>4, <1>5

\* What a loop has paid shows when its transaction ends.
LEMMA EndRunLedger ==
  ASSUME IInv, end_run
  PROVE  Ledger!Next
<1>1. /\ ~Calm /\ Calm' /\ accounts' = accounts
  BY DEF end_run, Calm, Idle
<1>2. /\ DOMAIN accounts = DOMAIN saved.accounts
      /\ \A o \in DOMAIN accounts : /\ accounts[o].vesting \in Nat
                                    /\ accounts[o].vesting
                                         <= saved.accounts[o].vesting
  BY <1>1, AccountFacts DEF IInv, SavedSound
<1>3. Ledger!pay_out
  BY <1>1, <1>2 DEF Ledger!pay_out, vestings, committed
<1> QED BY <1>3 DEF Ledger!Next

\* Every step is a step of the ledger or leaves it alone.
LEMMA LedgerStep ==
  IInv /\ IInv' /\ [Next]_vars => (Ledger!Next \/ vestings' = vestings)
<1> SUFFICES ASSUME IInv, IInv', [Next]_vars
             PROVE  Ledger!Next \/ vestings' = vestings
  OBVIOUS
<1>1. CASE Starts
  BY <1>1 DEF Starts, vestings, committed, Snapshot
<1>2. CASE Inside
  BY <1>2 DEF Inside, vestings, committed
<1>3. CASE end_run
  BY <1>3, EndRunLedger
<1>4. CASE abort_run
  BY <1>4, AbortRuns DEF abort_run, Idle, Calm, vestings, committed
<1>5. CASE Calm /\ Calm'
  <2>1. Standing' = Standing => vestings' = vestings
    BY <1>5 DEF Standing, vestings, committed
  <2>2. CASE UNCHANGED accounts
    BY <2>1, <2>2 DEF Standing
  <2>3. CASE \E o \in Account, q \in Deposit : on_transfer(o, q)
    BY <2>3, TransferLedger
  <2>4. CASE \E o1, o2 \in Account, q1, q2 \in Deposit :
               on_bulk_transfer(o1, q1, o2, q2)
    BY <2>4, BulkTransferLedger
  <2>5. CASE \E o \in Account :
               \/ open(o) \/ close(o)
               \/ (\E q \in 1..MaxSupply : retire(o, q))
    BY <2>5, OwnerLedger
  <2>6. CASE \/ \E o \in Account, q \in Limit : unlocklimit(o, q)
             \/ \E from, to \in Account, q \in 1..MaxSupply, c \in ChargeLevel :
                  delegate(from, to, q, c)
             \/ \E from, to \in Account, q \in (-MaxAmount)..MaxAmount,
                   id \in ReturnId : undelegate(from, to, q, id)
             \/ \E id \in ReturnId : return_delegation(id)
    BY <2>1, <2>6, OtherRows
  <2>7. CASE \/ create
             \/ \E p \in ParamSets : setparams(p)
             \/ \E q \in Deposit : issuer_transfer(q) \/ issuer_bulk_transfer(q)
             \/ procwaiting \/ deferred_procwaiting \/ begin_returns
             \/ Tick \/ DeferredLost
             \/ \E a \in Fickle : ToggleTokenRow(a)
             \/ UNCHANGED vars
    BY <2>2, <2>7 DEF create, setparams, issuer_transfer, issuer_bulk_transfer,
       procwaiting, deferred_procwaiting, begin_returns, Tick, DeferredLost,
       ToggleTokenRow, vars, tables
  <2>8. CASE \E o, to \in Account, q \in 1..MaxSupply : withdraw(o, to, q)
    BY <2>2, <2>8 DEF withdraw
  <2>9. CASE \E o \in Account : stopwithdraw(o) \/ drop_withdrawal(o)
    BY <2>2, <2>9 DEF stopwithdraw, drop_withdrawal
  <2>10. CASE \E o \in Account : pay_withdrawal(o)
    BY <1>5, <2>10 DEF pay_withdrawal, NextWithdrawal, Calm
  <2> QED BY <1>3, <1>4, <2>3, <2>4, <2>5, <2>6, <2>7, <2>8, <2>9, <2>10
          DEF Next, Step, RunStep
<1> QED BY <1>1, <1>2, <1>3, <1>4, <1>5, Phases

\* golos.vesting implements the ledger of shares: whatever is transferred,
\* delegated, withdrawn or paid, rows open and close empty, no balance is below
\* zero, one transaction changes what at most two accounts hold, and a payout
\* loop only takes, all at once or, when it aborts, not at all.
THEOREM VestingIsALedger == Spec => ImplementsLedger
<1>1. Init => Ledger!Init
  BY DEF Init, Idle, Calm, Ledger!Init, vestings, committed, EmptyTable,
         Ledger!EmptyTable
<1>2. IInv /\ IInv' /\ [Next]_vars => [Ledger!Next]_vestings
  BY LedgerStep
<1>3. Init /\ [][Next]_vars => Ledger!Init /\ [][Ledger!Next]_vestings
  BY <1>1, <1>2, Invariance, PTL DEF Spec
<1> QED BY <1>3 DEF Spec, ImplementsLedger, Ledger!Spec

----------------------------------------------------------------------------
(* The books *)


\* What the rows of an account table hold together
HeldIn(rows) == Total([o \in DOMAIN rows |-> rows[o].vesting])

\* Shares are only ever minted to nobody, and burnt.
MintSound == orphaned \in Nat /\ run.mint \in Nat /\ run.burnt \in Nat

\* Whoever holds a share holds it of something.
Backed == BackingTokens >= 0 /\ (VestingHeld > 0 => BackingTokens > 0)

SupplyInv == /\ IInv
             /\ IsFiniteSet(DOMAIN accounts)
             /\ SupplyIsOwned /\ MintSound /\ Backed

\* The same of what an abort would put back
SavedSupply ==
  ~Calm => /\ IsFiniteSet(DOMAIN saved.accounts)
           /\ saved.supply = HeldIn(saved.accounts) + orphaned
           /\ saved.balance >= 0
           /\ (HeldIn(saved.accounts) > 0 => saved.balance > 0)

----------------------------------------------------------------------------
(* Lemmas on tables of balances *)

\* One row is new or changed.
LEMMA HeldAfterOne ==
  ASSUME NEW rows, IsFiniteSet(DOMAIN rows), NEW new, NEW o,
         DOMAIN new = DOMAIN rows \union {o},
         \A x \in DOMAIN rows : rows[x].vesting \in Int,
         \A x \in DOMAIN rows \ {o} : new[x].vesting = rows[x].vesting,
         new[o].vesting \in Int
  PROVE  /\ IsFiniteSet(DOMAIN new)
         /\ HeldIn(new) = HeldIn(rows) + new[o].vesting
                            - (IF o \in DOMAIN rows THEN rows[o].vesting ELSE 0)
         /\ HeldIn(rows) \in Int
<1> DEFINE f == [x \in DOMAIN rows |-> rows[x].vesting]
           g == [x \in DOMAIN new |-> new[x].vesting]
<1>1. IsFiniteSet(DOMAIN new)
  BY FS_AddElement
<1>2. /\ DOMAIN f = DOMAIN rows /\ DOMAIN g = DOMAIN rows \union {o}
      /\ \A x \in DOMAIN f : f[x] \in Int /\ f[x] = rows[x].vesting
      /\ \A x \in DOMAIN f \ {o} : g[x] = f[x]
      /\ g[o] = new[o].vesting /\ g[o] \in Int
  OBVIOUS
<1> HIDE DEF f, g
<1>3. Total(f) \in Int
  BY <1>2, TotalInt
<1>4. CASE o \in DOMAIN rows
  <2>1. DOMAIN g = DOMAIN f /\ \A x \in DOMAIN f : g[x] \in Int
    BY <1>2, <1>4
  <2>2. Total(g) = Total(f) + g[o] - f[o]
    BY <1>2, <1>4, <2>1, TotalChange
  <2> QED BY <1>1, <1>2, <1>3, <1>4, <2>2 DEF HeldIn, f, g
<1>5. CASE o \notin DOMAIN rows
  <2>1. Total(g) = Total(f) + g[o]
    BY <1>2, <1>5, TotalInsert
  <2>2. HeldIn(new) = HeldIn(rows) + new[o].vesting
    BY <1>2, <2>1 DEF HeldIn, f, g
  <2>3. HeldIn(rows) \in Int
    BY <1>3 DEF HeldIn, f
  <2> QED BY <1>1, <1>5, <2>2, <2>3
<1> QED BY <1>4, <1>5

\* Rows change, but not what they hold.
LEMMA HeldTheSame ==
  ASSUME NEW rows, IsFiniteSet(DOMAIN rows), NEW new, DOMAIN new = DOMAIN rows,
         \A x \in DOMAIN rows : rows[x].vesting \in Int
                                /\ new[x].vesting = rows[x].vesting
  PROVE  HeldIn(new) = HeldIn(rows)
<1> DEFINE f == [x \in DOMAIN rows |-> rows[x].vesting]
           g == [x \in DOMAIN new |-> new[x].vesting]
<1>1. /\ DOMAIN f = DOMAIN rows /\ DOMAIN g = DOMAIN f
      /\ \A x \in DOMAIN f : f[x] \in Int /\ g[x] = f[x]
  OBVIOUS
<1> HIDE DEF f, g
<1>2. Total(g) = Total(f)
  BY <1>1, TotalSame
<1> QED BY <1>2 DEF HeldIn, f, g

\* An empty row is erased.
LEMMA HeldAfterErase ==
  ASSUME NEW rows, IsFiniteSet(DOMAIN rows), NEW new, NEW o \in DOMAIN rows,
         DOMAIN new = DOMAIN rows \ {o}, rows[o].vesting = 0,
         \A x \in DOMAIN rows : rows[x].vesting \in Int,
         \A x \in DOMAIN new : new[x].vesting = rows[x].vesting
  PROVE  IsFiniteSet(DOMAIN new) /\ HeldIn(new) = HeldIn(rows)
<1> DEFINE f == [x \in DOMAIN rows |-> rows[x].vesting]
           g == [x \in DOMAIN new |-> new[x].vesting]
<1>1. /\ DOMAIN f = DOMAIN rows /\ DOMAIN g = DOMAIN f \ {o} /\ o \in DOMAIN f
      /\ \A x \in DOMAIN f : f[x] \in Int
      /\ \A x \in DOMAIN g : g[x] = f[x]
      /\ f[o] = 0
  OBVIOUS
<1> HIDE DEF f, g
<1>2. Total(g) = Total(f) - f[o] /\ Total(f) \in Int
  BY <1>1, TotalRemove, TotalInt
<1>3. HeldIn(new) = HeldIn(rows)
  BY <1>1, <1>2 DEF HeldIn, f, g
<1> QED BY <1>3, FS_RemoveElement

\* Holdings are natural numbers, and nobody holds more than all do.
LEMMA HeldFacts ==
  ASSUME IInv, IsFiniteSet(DOMAIN accounts)
  PROVE  /\ VestingHeld \in Nat
         /\ VestingHeld = HeldIn(accounts)
         /\ \A o \in DOMAIN accounts : accounts[o].vesting <= VestingHeld
<1> DEFINE f == [x \in DOMAIN accounts |-> accounts[x].vesting]
<1>1. /\ DOMAIN f = DOMAIN accounts
      /\ \A x \in DOMAIN f : f[x] \in Nat /\ f[x] = accounts[x].vesting
  BY AccountFacts
<1> HIDE DEF f
<1>2. Total(f) \in Nat /\ \A x \in DOMAIN f : f[x] <= Total(f)
  BY <1>1, TotalNat, TotalPart
<1>3. VestingHeld = Total(f) /\ HeldIn(accounts) = Total(f)
  BY DEF VestingHeld, HeldIn, f
<1> QED BY <1>1, <1>2, <1>3

\* A credit adds what it credits.
LEMMA HeldAfterCredit ==
  ASSUME NEW rows, IsTable(rows, Account, AccountType),
         IsFiniteSet(DOMAIN rows), NEW o \in Account, NEW n \in Nat
  PROVE  LET new == add_balance(rows, o, n) IN
         /\ IsFiniteSet(DOMAIN new)
         /\ HeldIn(new) = HeldIn(rows) + n
<1>1. \A x \in DOMAIN rows : rows[x] \in AccountType /\ rows[x].vesting \in Nat
  BY DEF IsTable, AccountType
<1> DEFINE new == add_balance(rows, o, n)
<1>2. CASE n = 0
  <2>1. new = rows
    BY <1>2 DEF add_balance
  <2>2. HeldIn(rows) \in Int
    <3> DEFINE f == [x \in DOMAIN rows |-> rows[x].vesting]
    <3>1. DOMAIN f = DOMAIN rows /\ \A x \in DOMAIN f : f[x] \in Int
      BY <1>1
    <3> HIDE DEF f
    <3> QED BY <3>1, TotalInt DEF HeldIn, f
  <2> QED BY <1>2, <2>1, <2>2
<1>3. CASE n # 0
  <2>1. /\ DOMAIN new = DOMAIN rows \union {o}
        /\ \A x \in DOMAIN rows \ {o} : new[x].vesting = rows[x].vesting
        /\ new[o].vesting =
             (IF o \in DOMAIN rows THEN rows[o].vesting ELSE 0) + n
    <3>1. CASE o \in DOMAIN rows
      BY <1>1, <1>3, <3>1 DEF add_balance, AccountType
    <3>2. CASE o \notin DOMAIN rows
      BY <1>3, <3>2 DEF add_balance, Put, NewRow
    <3> QED BY <3>1, <3>2
  <2>2. new[o].vesting \in Int
    BY <1>1, <2>1
  <2>3. \A x \in DOMAIN rows : rows[x].vesting \in Int
    BY <1>1
  <2> HIDE DEF new
  <2>4. /\ IsFiniteSet(DOMAIN new) /\ HeldIn(rows) \in Int
        /\ HeldIn(new) = HeldIn(rows) + new[o].vesting
                           - (IF o \in DOMAIN rows THEN rows[o].vesting ELSE 0)
    BY <2>1, <2>2, <2>3, HeldAfterOne
  <2>5. HeldIn(new) = HeldIn(rows) + n
    <3>1. CASE o \in DOMAIN rows
      BY <2>1, <2>3, <2>4, <3>1
    <3>2. CASE o \notin DOMAIN rows
      BY <2>1, <2>4, <3>2
    <3> QED BY <3>1, <3>2
  <2> QED BY <2>4, <2>5 DEF new
<1> QED BY <1>2, <1>3

----------------------------------------------------------------------------
(* Lemmas on prices *)

\* A product grows with its first factor.
LEMMA ProductGrows ==
  ASSUME NEW a \in Nat, NEW b \in Nat, NEW c \in Nat
  PROVE  /\ a <= b => a * c <= b * c
         /\ a < b /\ c > 0 => a * c < b * c
<1>1. a <= b => a * c <= b * c
  OBVIOUS
<1>2. a < b /\ c > 0 => a * c < b * c
  OBVIOUS
<1> QED BY <1>1, <1>2

\* Who sells v of s shares of b tokens gets no more than all of them, and less
\* when others are left.
LEMMA PayoutBound ==
  ASSUME NEW v \in Nat, NEW b \in Nat, NEW s \in Nat, s > 0, v <= s
  PROVE  LET k == (v * b) \div s IN
         /\ k \in Nat /\ k * s <= v * b /\ k <= b
         /\ v < s /\ b > 0 => k < b
<1> DEFINE k == (v * b) \div s
<1>1. v * b \in Nat
  BY ProductNat
<1>2. k \in Nat /\ k * s <= v * b
  BY <1>1, Quotient
<1> HIDE DEF k
<1>3. v * b <= s * b /\ (v < s /\ b > 0 => v * b < s * b)
  BY ProductGrows
<1>4. k > b => s * b < k * s
  <2>1. k > b => b * s < k * s
    BY <1>2, ProductGrows
  <2>2. b * s = s * b
    OBVIOUS
  <2> QED BY <2>1, <2>2
<1>5. k * s \in Nat /\ s * b \in Nat
  BY <1>2, ProductNat
<1>6. k <= b
  BY <1>1, <1>2, <1>3, <1>4, <1>5
<1>7. v < s /\ b > 0 => k < b
  <2> SUFFICES ASSUME v < s, b > 0, k = b PROVE FALSE
    BY <1>2, <1>6
  <2>1. k * s = s * b
    OBVIOUS
  <2> QED BY <1>1, <1>2, <1>3, <1>5, <2>1
<1> QED BY <1>2, <1>6, <1>7 DEF k

----------------------------------------------------------------------------
(* Who owns the supply, and what stands behind it *)

\* The state predicate of PriceNeverFalls, for one step
PriceKept ==
  NothingOrphaned' /\ supply > 0 /\ supply' > 0
    => BackingTokens' * supply >= BackingTokens * supply' \/ abort_run

\* The numbers of the supply, typed
LEMMA SupplyFacts ==
  ASSUME SupplyInv
  PROVE  /\ supply \in Nat /\ VestingHeld \in Nat /\ orphaned \in Nat
         /\ supply = VestingHeld + orphaned
         /\ BackingTokens \in Nat /\ balance \in Int /\ run.paid \in Int
         /\ BackingTokens = balance - run.paid
         /\ run.mint \in Nat /\ run.burnt \in Nat
         /\ (VestingHeld > 0 => BackingTokens > 0)
<1>1. VestingHeld \in Nat
  BY HeldFacts DEF SupplyInv
<1>2. balance \in Int /\ run.paid \in Int
  BY DEF SupplyInv, IInv, TypeOK, RunType
<1>3. BackingTokens = balance - run.paid /\ BackingTokens \in Int
  BY <1>2 DEF BackingTokens
<1> QED BY <1>1, <1>2, <1>3 DEF SupplyInv, SupplyIsOwned, MintSound, Backed

\* Outside a loop no payment is under way.
LEMMA CalmFacts ==
  ASSUME SupplyInv, Calm
  PROVE  run.paid = 0 /\ BackingTokens = balance
<1>1. run = Idle
  BY DEF SupplyInv, IInv, RunSound, Calm
<1> QED BY <1>1, SupplyFacts DEF Idle

\* The same balances are the same holdings.
LEMMA HeldKept ==
  ASSUME Standing' = Standing
  PROVE  VestingHeld' = VestingHeld /\ DOMAIN accounts' = DOMAIN accounts
<1>1. VestingHeld = Total(Standing) /\ VestingHeld' = Total(Standing')
  BY DEF VestingHeld, Standing
<1>2. DOMAIN Standing = DOMAIN accounts /\ DOMAIN Standing' = DOMAIN accounts'
  BY DEF Standing
<1>3. Total(Standing') = Total(Standing)
  BY Zenon
<1> QED BY <1>1, <1>2, <1>3

\* A step that neither mints nor burns, moves no balance and takes no token
LEMMA QuietSupply ==
  ASSUME SupplyInv, IInv', VestingHeld' = VestingHeld,
         IsFiniteSet(DOMAIN accounts'), UNCHANGED <<supply, orphaned>>,
         run'.mint \in Nat, run'.burnt \in Nat,
         BackingTokens' \in Int, BackingTokens' >= BackingTokens
  PROVE  SupplyInv' /\ PriceKept
<1>1. SupplyInv'
  BY SupplyFacts DEF SupplyInv, SupplyIsOwned, MintSound, Backed
<1>2. BackingTokens \in Nat /\ BackingTokens' \in Nat /\ supply \in Nat
  BY SupplyFacts
<1>3. BackingTokens' * supply >= BackingTokens * supply
  <2>1. BackingTokens * supply <= BackingTokens' * supply
    BY <1>2, ProductGrows
  <2>2. BackingTokens * supply \in Nat /\ BackingTokens' * supply \in Nat
    BY <1>2, ProductNat
  <2> QED BY <2>1, <2>2
<1> QED BY <1>1, <1>3 DEF PriceKept

\* Buying c shares for q tokens: the price stays or rises.
LEMMA DepositPrice ==
  ASSUME NEW b \in Nat, NEW s \in Nat, NEW q \in Nat, NEW c \in Nat,
         c * b <= q * s
  PROVE  (b + q) * s >= b * (s + c)
<1>1. (b + q) * s = b * s + q * s
  OBVIOUS
<1>2. b * (s + c) = b * s + c * b
  OBVIOUS
<1>3. b * s \in Nat /\ q * s \in Nat /\ c * b \in Nat
  BY ProductNat
<1> QED BY <1>1, <1>2, <1>3

\* Selling v shares for k tokens
LEMMA PayoutPrice ==
  ASSUME NEW b \in Nat, NEW s \in Nat, NEW k \in Nat, NEW v \in Nat,
         k * s <= v * b
  PROVE  (b - k) * s >= b * (s - v)
<1>1. (b - k) * s = b * s - k * s
  OBVIOUS
<1>2. b * (s - v) = b * s - v * b
  OBVIOUS
<1>3. b * s \in Nat /\ k * s \in Nat /\ v * b \in Nat
  BY ProductNat
<1> QED BY <1>1, <1>2, <1>3

\* A conversion never gives more shares than the tokens buy at the price.
LEMMA ConversionPrice ==
  ASSUME SupplyInv, Calm, NEW q \in Nat, supply > 0
  PROVE  token_to_vesting(q, balance) * balance <= q * supply
<1> DEFINE c == token_to_vesting(q, balance)
<1>1. supply \in Nat /\ balance \in Nat
  BY SupplyFacts, CalmFacts
<1>2. q * supply \in Nat /\ c \in Nat
  BY <1>1, ProductNat, Conversion DEF SupplyInv, IInv
<1>3. CASE balance > 0
  BY <1>1, <1>2, <1>3, Quotient DEF token_to_vesting
<1>4. CASE balance = 0
  <2> HIDE DEF c
  <2>1. c * balance = 0
    BY <1>2, <1>4
  <2> QED BY <1>2, <2>1 DEF c
<1> QED BY <1>1, <1>3, <1>4

\* Deposits: what is credited is what the supply grows by.
LEMMA DepositSupply ==
  ASSUME SupplyInv, IInv', Calm, NEW q \in Nat, q > 0, NEW c \in Nat,
         supply > 0 => c * balance <= q * supply,
         balance' = balance + q, supply' = supply + c,
         VestingHeld' = VestingHeld + c, IsFiniteSet(DOMAIN accounts'),
         UNCHANGED <<run, orphaned>>
  PROVE  SupplyInv' /\ PriceKept
<1>1. /\ supply \in Nat /\ balance \in Nat /\ BackingTokens = balance
      /\ run.paid = 0
  BY SupplyFacts, CalmFacts
<1>2. BackingTokens' = balance + q
  BY <1>1 DEF BackingTokens
<1>3. SupplyInv'
  BY <1>1, <1>2, SupplyFacts DEF SupplyInv, SupplyIsOwned, MintSound, Backed
<1>4. PriceKept
  <2>1. supply > 0 => (balance + q) * supply >= balance * (supply + c)
    BY <1>1, DepositPrice
  <2> QED BY <1>1, <1>2, <2>1 DEF PriceKept
<1> QED BY <1>3, <1>4

\* One transfer in
LEMMA TransferSupply ==
  ASSUME SupplyInv, IInv', NEW o \in Account, NEW q \in Deposit,
         on_transfer(o, q)
  PROVE  SupplyInv' /\ PriceKept
<1> DEFINE c == token_to_vesting(q, balance)
<1>1. /\ q \in Nat /\ q > 0 /\ Calm /\ c \in Nat
      /\ accounts' = add_balance(accounts, o, c)
      /\ balance' = balance + q /\ supply' = supply + c
      /\ UNCHANGED <<run, orphaned>>
  <2>1. q \in Nat /\ q > 0 /\ TypeOK
    BY BoundsAssumption DEF SupplyInv, IInv
  <2>2. c \in Nat
    BY <2>1, Conversion
  <2> QED BY <2>1, <2>2 DEF on_transfer, transaction, history
<1>2. supply > 0 => c * balance <= q * supply
  BY <1>1, ConversionPrice
<1> HIDE DEF c
<1>3. /\ IsFiniteSet(DOMAIN accounts')
      /\ HeldIn(accounts') = HeldIn(accounts) + c
  BY <1>1, HeldAfterCredit DEF SupplyInv, IInv, TypeOK
<1>4. VestingHeld' = VestingHeld + c
  BY <1>3 DEF VestingHeld, HeldIn
<1> QED BY <1>1, <1>2, <1>3, <1>4, DepositSupply

\* Two conversions at the same price are one of the sum.
LEMMA BulkTransferSupply ==
  ASSUME SupplyInv, IInv', NEW o1 \in Account, NEW o2 \in Account,
         NEW q1 \in Deposit, NEW q2 \in Deposit,
         on_bulk_transfer(o1, q1, o2, q2)
  PROVE  SupplyInv' /\ PriceKept
<1> DEFINE c1 == token_to_vesting(q1, balance)
           c2 == token_to_vesting(q2, balance)
           mid == add_balance(accounts, o1, c1)
<1>1. /\ q1 \in Nat /\ q1 > 0 /\ q2 \in Nat /\ q2 > 0 /\ TypeOK
      /\ balance \in Int /\ supply \in Int
  BY BoundsAssumption DEF SupplyInv, IInv, TypeOK
<1>2. c1 \in Nat /\ c2 \in Nat
  BY <1>1, Conversion
<1>3. /\ Calm /\ accounts' = add_balance(mid, o2, c2)
      /\ balance' = balance + q1 + q2 /\ supply' = supply + c1 + c2
      /\ UNCHANGED <<run, orphaned>>
  BY DEF on_bulk_transfer, transaction, history
<1>4. supply > 0 => c1 * balance <= q1 * supply /\ c2 * balance <= q2 * supply
  <2>1. supply > 0 => c1 * balance <= q1 * supply
    BY <1>1, <1>3, ConversionPrice
  <2>2. supply > 0 => c2 * balance <= q2 * supply
    BY <1>1, <1>3, ConversionPrice
  <2> QED BY <2>1, <2>2
<1> HIDE DEF c1, c2
<1>5. /\ IsTable(mid, Account, AccountType)
      /\ IsFiniteSet(DOMAIN mid)
      /\ HeldIn(mid) = HeldIn(accounts) + c1
  BY <1>2, AddBalance, HeldAfterCredit DEF SupplyInv, IInv, TypeOK
<1> HIDE DEF mid
<1>6. /\ IsFiniteSet(DOMAIN accounts')
      /\ HeldIn(accounts') = HeldIn(mid) + c2
  BY <1>2, <1>3, <1>5, HeldAfterCredit
<1>7. VestingHeld' = VestingHeld + (c1 + c2)
  <2>1. VestingHeld = HeldIn(accounts) /\ VestingHeld' = HeldIn(accounts')
    BY DEF VestingHeld, HeldIn
  <2>2. VestingHeld \in Nat
    BY SupplyFacts
  <2> QED BY <1>2, <1>5, <1>6, <2>1, <2>2
<1>8. /\ q1 + q2 \in Nat /\ q1 + q2 > 0 /\ c1 + c2 \in Nat
      /\ balance' = balance + (q1 + q2) /\ supply' = supply + (c1 + c2)
  BY <1>1, <1>2, <1>3
<1>9. supply > 0 => (c1 + c2) * balance <= (q1 + q2) * supply
  <2> SUFFICES ASSUME supply > 0
               PROVE  (c1 + c2) * balance <= (q1 + q2) * supply
    OBVIOUS
  <2>1. supply \in Nat /\ balance \in Nat
    BY <1>3, SupplyFacts, CalmFacts
  <2>2. /\ (c1 + c2) * balance = c1 * balance + c2 * balance
        /\ (q1 + q2) * supply = q1 * supply + q2 * supply
    BY <1>1, <1>2, <2>1
  <2>3. /\ c1 * balance \in Nat /\ c2 * balance \in Nat
        /\ q1 * supply \in Nat /\ q2 * supply \in Nat
    BY <1>1, <1>2, <2>1, ProductNat
  <2> QED BY <1>4, <2>2, <2>3
<1> QED BY <1>3, <1>6, <1>7, <1>8, <1>9, DepositSupply

\* What one account loses, all lose together.
LEMMA HeldAfterDebit ==
  ASSUME SupplyInv, NEW o \in DOMAIN accounts, NEW n \in Nat, NEW mode,
         accounts' = sub_balance(accounts, o, n, mode)
  PROVE  /\ IsFiniteSet(DOMAIN accounts')
         /\ VestingHeld' = VestingHeld - n
<1>1. \A x \in DOMAIN accounts :
        accounts[x] \in AccountType /\ accounts[x].vesting \in Int
  BY AccountFacts DEF SupplyInv
<1>2. /\ DOMAIN accounts' = DOMAIN accounts \union {o}
      /\ \A x \in DOMAIN accounts \ {o} :
           accounts'[x].vesting = accounts[x].vesting
      /\ accounts'[o].vesting = accounts[o].vesting - n
  <2>1. /\ DOMAIN accounts' = DOMAIN accounts
        /\ \A x \in DOMAIN accounts \ {o} : accounts'[x] = accounts[x]
    BY DEF sub_balance
  <2>2. accounts'[o].vesting = accounts[o].vesting - n
    <3>1. accounts[o] \in AccountType
      BY <1>1
    <3> QED BY <3>1 DEF sub_balance, AccountType
  <2> QED BY <2>1, <2>2
<1>3. /\ IsFiniteSet(DOMAIN accounts')
      /\ HeldIn(accounts') = HeldIn(accounts) + accounts'[o].vesting
           - (IF o \in DOMAIN accounts THEN accounts[o].vesting ELSE 0)
      /\ HeldIn(accounts) \in Int
  <2>1. accounts'[o].vesting \in Int
    BY <1>1, <1>2
  <2> QED BY <1>1, <1>2, <2>1, HeldAfterOne DEF SupplyInv
<1>4. VestingHeld = HeldIn(accounts) /\ VestingHeld' = HeldIn(accounts')
  BY DEF VestingHeld, HeldIn
<1> QED BY <1>1, <1>2, <1>3, <1>4

\* Burning shares leaves more tokens behind each of the others.
LEMMA RetireSupply ==
  ASSUME SupplyInv, IInv', NEW o \in Account, NEW q \in 1..MaxSupply,
         retire(o, q)
  PROVE  SupplyInv' /\ PriceKept
<1>1. /\ q \in Nat /\ o \in DOMAIN accounts /\ q <= supply
      /\ accounts' = sub_balance(accounts, o, q, TRUE)
      /\ supply' = supply - q
      /\ UNCHANGED <<balance, run, orphaned>>
  BY BoundsAssumption DEF retire, transaction, history
<1>2. IsFiniteSet(DOMAIN accounts') /\ VestingHeld' = VestingHeld - q
  BY <1>1, HeldAfterDebit
<1>3. VestingHeld' \in Int /\ BackingTokens' = BackingTokens
  BY <1>1, <1>2, SupplyFacts DEF BackingTokens
<1>4. SupplyInv'
  <2>1. SupplyIsOwned' /\ Backed'
    BY <1>1, <1>2, <1>3, SupplyFacts DEF SupplyIsOwned, Backed
  <2>2. MintSound'
    BY <1>1 DEF SupplyInv, MintSound
  <2> QED BY <1>2, <2>1, <2>2 DEF SupplyInv
<1>5. PriceKept
  <2>1. supply \in Nat /\ supply - q \in Nat /\ BackingTokens \in Nat
    BY <1>1, SupplyFacts
  <2>2. (supply - q) * BackingTokens <= supply * BackingTokens
    BY <1>1, <2>1, ProductGrows
  <2>3. /\ (supply - q) * BackingTokens = BackingTokens * (supply - q)
        /\ supply * BackingTokens = BackingTokens * supply
        /\ supply * BackingTokens \in Nat /\ (supply - q) * BackingTokens \in Nat
    BY <2>1, ProductNat
  <2>4. BackingTokens * supply >= BackingTokens * (supply - q)
    BY <2>2, <2>3
  <2> QED BY <1>1, <1>3, <2>4 DEF PriceKept
<1> QED BY <1>4, <1>5

\* An iteration of the loop that pays nothing leaves its sums alone.
LEMMA VisitedSums ==
  ASSUME SupplyInv, NEW x
  PROVE  /\ Visited(x).paid = run.paid /\ Visited(x).mint = run.mint
         /\ Visited(x).burnt = run.burnt
BY DEF Visited, SupplyInv, IInv, TypeOK, RunType

\* A payout takes no more tokens than its shares are worth, and not the last
\* one while others hold shares.
LEMMA PayoutSupply ==
  ASSUME SupplyInv, IInv', NEW o \in Account, pay_withdrawal(o)
  PROVE  SupplyInv' /\ PriceKept
<1> DEFINE v == to_send(o)
           k == converted_payout(o)
<1>1. o \in DOMAIN withdrawal
  BY DEF pay_withdrawal, NextWithdrawal, SupplyInv, IInv, RunSound
<1>2. /\ o \in DOMAIN accounts /\ v \in Nat /\ v > 0
      /\ v <= accounts[o].vesting
  BY <1>1, WithdrawalFacts DEF SupplyInv
<1>3. /\ accounts' = sub_balance(accounts, o, v, FALSE)
      /\ supply' = supply - v
      /\ UNCHANGED <<balance, orphaned>>
  BY DEF pay_withdrawal, history
<1>4. IsFiniteSet(DOMAIN accounts') /\ VestingHeld' = VestingHeld - v
  BY <1>2, <1>3, HeldAfterDebit
<1>5. v <= VestingHeld /\ v <= supply /\ BackingTokens > 0
  <2>1. /\ accounts[o].vesting \in Nat /\ accounts[o].delegated \in Nat
        /\ accounts[o].vesting <= VestingHeld
    BY <1>2, AccountFacts, HeldFacts DEF SupplyInv
  <2> QED BY <1>2, <2>1, SupplyFacts
<1>6. k = (v * BackingTokens) \div supply
  <2>1. supply > 0 /\ balance - run.paid > 0
    BY <1>2, <1>5, SupplyFacts
  <2> QED BY <2>1, SupplyFacts DEF converted_payout, vesting_to_token
<1> HIDE DEF v, k
<1>7. supply \in Nat /\ supply > 0 /\ BackingTokens \in Nat
  BY <1>2, <1>5, SupplyFacts
<1>8. /\ k \in Nat /\ k * supply <= v * BackingTokens /\ k <= BackingTokens
      /\ v < supply => k < BackingTokens
  BY <1>2, <1>5, <1>6, <1>7, PayoutBound
<1>9. run'.paid = run.paid + k /\ run'.mint = run.mint
      /\ run'.burnt = run.burnt + v
  <2>1. run' = [Visited(o) EXCEPT !.paid = @ + k, !.burnt = @ + v]
    BY DEF pay_withdrawal, k, v
  <2>2. DOMAIN Visited(o) = DOMAIN run
    BY DEF Visited
  <2>3. DOMAIN run = {"phase", "todo", "steps", "remain", "paid", "burnt",
                      "bulk", "mint"}
    BY DEF SupplyInv, IInv, TypeOK, RunType
  <2> DEFINE r == Visited(o)
  <2> HIDE DEF r
  <2>4. run' = [r EXCEPT !.paid = @ + k, !.burnt = @ + v]
    BY <2>1 DEF r
  <2>5. DOMAIN r = {"phase", "todo", "steps", "remain", "paid", "burnt",
                    "bulk", "mint"}
    BY <2>2, <2>3 DEF r
  <2>6. /\ run'.paid = r.paid + k /\ run'.mint = r.mint
        /\ run'.burnt = r.burnt + v
    BY <2>4, <2>5
  <2> QED BY <2>6, VisitedSums DEF r
<1>10. BackingTokens' = BackingTokens - k
  BY <1>3, <1>8, <1>9, SupplyFacts DEF BackingTokens
<1>11. SupplyInv'
  <2>1. SupplyIsOwned'
    BY <1>2, <1>3, <1>4, SupplyFacts DEF SupplyIsOwned
  <2>2. Backed'
    BY <1>2, <1>4, <1>5, <1>7, <1>8, <1>10, SupplyFacts DEF Backed
  <2>3. MintSound'
    BY <1>2, <1>3, <1>9, SupplyFacts DEF MintSound
  <2> QED BY <1>4, <2>1, <2>2, <2>3 DEF SupplyInv
<1>12. PriceKept
  <2>1. (BackingTokens - k) * supply >= BackingTokens * (supply - v)
    BY <1>2, <1>7, <1>8, PayoutPrice
  <2> QED BY <1>3, <1>10, <2>1 DEF PriceKept
<1> QED BY <1>11, <1>12

\* The end of a loop settles what it paid.  What a bulk run adds to the supply
\* belongs to nobody.
LEMMA EndRunSupply ==
  ASSUME SupplyInv, IInv', end_run
  PROVE  SupplyInv' /\ PriceKept
<1>1. PICK revived \in IF run.bulk THEN {0, run.burnt} ELSE {0} :
        /\ balance' = balance - run.paid
        /\ supply' = supply + run.mint + revived
        /\ orphaned' = orphaned + run.mint + revived
        /\ run' = Idle
        /\ UNCHANGED accounts
  BY DEF end_run
<1>2. revived \in Nat
  BY SupplyFacts
<1>3. /\ VestingHeld' = VestingHeld /\ IsFiniteSet(DOMAIN accounts')
      /\ run'.paid = 0 /\ run'.mint = 0 /\ run'.burnt = 0
  BY <1>1 DEF VestingHeld, SupplyInv, Idle
<1>4. BackingTokens' = BackingTokens
  BY <1>1, <1>3, SupplyFacts DEF BackingTokens
<1>5. SupplyInv'
  <2>1. SupplyIsOwned' /\ Backed' /\ MintSound'
    BY <1>1, <1>2, <1>3, <1>4, SupplyFacts
    DEF SupplyIsOwned, Backed, MintSound
  <2> QED BY <1>3, <2>1 DEF SupplyInv
<1>6. PriceKept
  <2> SUFFICES ASSUME orphaned' = 0
               PROVE  BackingTokens' * supply >= BackingTokens * supply'
    BY DEF PriceKept, NothingOrphaned
  <2>1. supply' = supply
    <3>1. orphaned + run.mint + revived = 0
      BY <1>1
    <3>2. supply \in Nat /\ orphaned \in Nat /\ run.mint \in Nat
      BY SupplyFacts
    <3>3. run.mint = 0 /\ revived = 0
      BY <1>2, <3>1, <3>2
    <3> QED BY <1>1, <3>2, <3>3
  <2>2. BackingTokens * supply \in Nat
    BY SupplyFacts, ProductNat
  <2>3. BackingTokens' * supply = BackingTokens * supply'
    BY <1>4, <2>1
  <2> QED BY <2>1, <2>2, <2>3
<1> QED BY <1>5, <1>6

\* Steps that start a loop: tokens may have arrived for nobody.
LEMMA StartSupply ==
  ASSUME SupplyInv, IInv', Calm, UNCHANGED <<accounts, supply, orphaned>>,
         NEW q \in Nat, balance' = balance + q,
         NEW b, NEW m \in Nat, run' = StartRun(b, m)
  PROVE  SupplyInv' /\ PriceKept
<1>1. run'.paid = 0 /\ run'.mint = m /\ run'.burnt = 0
  BY DEF StartRun
<1>2. BackingTokens = balance /\ BackingTokens' = balance + q /\ balance \in Int
  BY <1>1, SupplyFacts, CalmFacts DEF BackingTokens
<1>3. VestingHeld' = VestingHeld /\ IsFiniteSet(DOMAIN accounts')
  BY DEF VestingHeld, SupplyInv
<1> QED BY <1>1, <1>2, <1>3, QuietSupply

\* Steps that touch neither the supply, nor a balance, nor a token
LEMMA StillSupply ==
  ASSUME SupplyInv, IInv', VestingHeld' = VestingHeld,
         IsFiniteSet(DOMAIN accounts'), UNCHANGED <<balance, supply, orphaned>>,
         run'.paid = run.paid, run'.mint = run.mint, run'.burnt = run.burnt
  PROVE  SupplyInv' /\ PriceKept
<1>1. BackingTokens' = BackingTokens /\ BackingTokens \in Int
  BY SupplyFacts DEF BackingTokens
<1> QED BY <1>1, SupplyFacts, QuietSupply

\* A row that is opened or closed is empty.
LEMMA RowSupply ==
  ASSUME SupplyInv, IInv', NEW o \in Account, open(o) \/ close(o)
  PROVE  SupplyInv' /\ PriceKept
<1>1. /\ \A x \in DOMAIN accounts : accounts[x].vesting \in Int
      /\ IsFiniteSet(DOMAIN accounts)
  BY AccountFacts DEF SupplyInv
<1>2. /\ VestingHeld = HeldIn(accounts) /\ VestingHeld' = HeldIn(accounts')
      /\ VestingHeld \in Nat
  BY SupplyFacts DEF VestingHeld, HeldIn
<1>3. VestingHeld' = VestingHeld /\ IsFiniteSet(DOMAIN accounts')
  <2>1. CASE open(o)
    <3>1. /\ DOMAIN accounts' = DOMAIN accounts \union {o}
          /\ o \notin DOMAIN accounts
          /\ \A x \in DOMAIN accounts \ {o} :
               accounts'[x].vesting = accounts[x].vesting
          /\ accounts'[o].vesting = 0
      BY <2>1 DEF open, Put, NewRow
    <3>2. accounts'[o].vesting \in Int
      BY <3>1
    <3>3. /\ IsFiniteSet(DOMAIN accounts')
          /\ HeldIn(accounts') = HeldIn(accounts) + accounts'[o].vesting
               - (IF o \in DOMAIN accounts THEN accounts[o].vesting ELSE 0)
      BY <1>1, <3>1, <3>2, HeldAfterOne
    <3> QED BY <1>2, <3>1, <3>3
  <2>2. CASE close(o)
    <3>1. /\ DOMAIN accounts' = DOMAIN accounts \ {o}
          /\ o \in DOMAIN accounts /\ accounts[o].vesting = 0
          /\ \A x \in DOMAIN accounts' :
               accounts'[x].vesting = accounts[x].vesting
      BY <2>2 DEF close, Drop
    <3> QED BY <1>1, <1>2, <3>1, HeldAfterErase
  <2> QED BY <2>1, <2>2
<1> QED BY <1>3, StillSupply DEF open, close, transaction, history

\* Delegation and limits move no share.
LEMMA DelegationSupply ==
  ASSUME SupplyInv, IInv',
         \/ \E o \in Account, q \in Limit : unlocklimit(o, q)
         \/ \E from, to \in Account, q \in 1..MaxSupply, c \in ChargeLevel :
              delegate(from, to, q, c)
         \/ \E from, to \in Account, q \in (-MaxAmount)..MaxAmount,
               id \in ReturnId : undelegate(from, to, q, id)
         \/ \E id \in ReturnId : return_delegation(id)
  PROVE  SupplyInv' /\ PriceKept
<1>1. Standing' = Standing
  BY OtherRows DEF SupplyInv
<1>2. VestingHeld' = VestingHeld /\ IsFiniteSet(DOMAIN accounts')
  BY <1>1, HeldKept DEF SupplyInv
<1>3. /\ UNCHANGED <<balance, supply, orphaned>>
      /\ run' = run \/ \E id \in ReturnId : run' = Visited(id)
  <2>1. CASE \E o \in Account, q \in Limit : unlocklimit(o, q)
    <3>1. ASSUME NEW o, NEW q, unlocklimit(o, q)
          PROVE  UNCHANGED <<balance, supply, orphaned, run>>
      BY <3>1 DEF unlocklimit, transaction, history
    <3> QED BY <2>1, <3>1
  <2>2. CASE \E from, to \in Account, q \in 1..MaxSupply, c \in ChargeLevel :
               delegate(from, to, q, c)
    <3>1. ASSUME NEW from, NEW to, NEW q, NEW c, delegate(from, to, q, c)
          PROVE  UNCHANGED <<balance, supply, orphaned, run>>
      BY <3>1 DEF delegate, transaction, history
    <3> QED BY <2>2, <3>1
  <2>3. CASE \E from, to \in Account, q \in (-MaxAmount)..MaxAmount,
               id \in ReturnId : undelegate(from, to, q, id)
    <3>1. ASSUME NEW from, NEW to, NEW q, NEW id, undelegate(from, to, q, id)
          PROVE  UNCHANGED <<balance, supply, orphaned, run>>
      BY <3>1 DEF undelegate, transaction, history
    <3> QED BY <2>3, <3>1
  <2>4. CASE \E id \in ReturnId : return_delegation(id)
    BY <2>4, Zenon DEF return_delegation
  <2> QED BY <2>1, <2>2, <2>3, <2>4
<1>4. run'.paid = run.paid /\ run'.mint = run.mint /\ run'.burnt = run.burnt
  BY <1>3, VisitedSums
<1> QED BY <1>2, <1>3, <1>4, StillSupply

\* What the loop's transaction found is saved, and its iterations mint nothing.
LEMMA SavedSupplyStep ==
  ASSUME SupplyInv, SavedSupply, [Next]_vars
  PROVE  SavedSupply'
<1>1. CASE Starts
  <2>1. saved' = Snapshot /\ orphaned' = orphaned /\ Calm
    BY <1>1 DEF Starts, history
  <2>2. /\ saved'.supply = supply /\ saved'.balance = balance
        /\ saved'.accounts = accounts
    BY <2>1 DEF Snapshot
  <2>3. VestingHeld = HeldIn(accounts)
    BY DEF VestingHeld, HeldIn
  <2>4. IsFiniteSet(DOMAIN accounts)
    BY DEF SupplyInv
  <2> QED BY <2>1, <2>2, <2>3, <2>4, SupplyFacts, CalmFacts DEF SavedSupply
<1>2. CASE Inside
  BY <1>2 DEF Inside, SavedSupply
<1>3. CASE Calm'
  BY <1>3 DEF SavedSupply
<1>4. end_run \/ abort_run => Calm'
  BY DEF end_run, abort_run, Calm, Idle
<1> QED BY <1>1, <1>2, <1>3, <1>4, Phases DEF SupplyInv

\* An abort gives back what the loop had burnt and pays nothing.
LEMMA AbortSupply ==
  ASSUME SupplyInv, SavedSupply, IInv', abort_run
  PROVE  SupplyInv' /\ PriceKept
<1>1. /\ accounts' = saved.accounts /\ supply' = saved.supply
      /\ balance' = saved.balance /\ orphaned' = orphaned /\ run' = Idle
  BY DEF abort_run
<1>2. /\ IsFiniteSet(DOMAIN saved.accounts)
      /\ saved.supply = HeldIn(saved.accounts) + orphaned
      /\ saved.balance >= 0
      /\ (HeldIn(saved.accounts) > 0 => saved.balance > 0)
  BY AbortRuns DEF SavedSupply
<1>3. VestingHeld' = HeldIn(saved.accounts)
  BY <1>1 DEF VestingHeld, HeldIn
<1>4. saved.balance \in Int
  BY DEF SupplyInv, IInv, TypeOK
<1>5. BackingTokens' = saved.balance
  BY <1>1, <1>4 DEF BackingTokens, Idle
<1>6. SupplyIsOwned' /\ Backed' /\ MintSound'
  BY <1>1, <1>2, <1>3, <1>5
  DEF SupplyIsOwned, Backed, SupplyInv, MintSound, Idle
<1> QED BY <1>1, <1>2, <1>6 DEF SupplyInv, PriceKept

\* Every step keeps the books of the supply and the price of a share.
LEMMA SupplyStep ==
  ASSUME SupplyInv, SavedSupply, [Next]_vars
  PROVE  SupplyInv' /\ PriceKept
<1>0. IInv'
  BY IInvStep DEF SupplyInv
<1>00. UNCHANGED accounts => /\ VestingHeld' = VestingHeld
                             /\ IsFiniteSet(DOMAIN accounts')
  BY DEF VestingHeld, SupplyInv
<1>1. CASE \/ create
           \/ \E p \in ParamSets : setparams(p)
           \/ \E o \in Account : stopwithdraw(o)
           \/ \E o, to \in Account, q \in 1..MaxSupply : withdraw(o, to, q)
           \/ Tick \/ DeferredLost
           \/ \E a \in Fickle : ToggleTokenRow(a)
           \/ UNCHANGED vars
  <2>1. UNCHANGED <<accounts, balance, supply, orphaned, run>>
    BY <1>1 DEF create, setparams, stopwithdraw, withdraw, Tick, DeferredLost,
       ToggleTokenRow, vars, tables, transaction, history
  <2> QED BY <1>0, <1>00, <2>1, StillSupply
<1>2. CASE \E o \in Account : drop_withdrawal(o)
  <2>1. /\ UNCHANGED <<accounts, balance, supply, orphaned>>
        /\ \E o \in Account : run' = Visited(o)
    BY <1>2 DEF drop_withdrawal, history
  <2>2. run'.paid = run.paid /\ run'.mint = run.mint /\ run'.burnt = run.burnt
    BY <2>1, VisitedSums
  <2> QED BY <1>0, <1>00, <2>1, <2>2, StillSupply
<1>3. CASE begin_returns
  <2>1. /\ UNCHANGED <<accounts, balance, supply, orphaned>>
        /\ run'.paid = run.paid /\ run'.mint = run.mint
        /\ run'.burnt = run.burnt
    BY <1>3 DEF begin_returns, tables, history, SupplyInv, IInv, TypeOK, RunType
  <2> QED BY <1>0, <1>00, <2>1, StillSupply
<1>4. CASE procwaiting \/ deferred_procwaiting
  <2>1. /\ UNCHANGED <<accounts, supply, orphaned>> /\ Calm
        /\ run' = StartRun(FALSE, 0) /\ balance' = balance
    BY <1>4 DEF procwaiting, deferred_procwaiting, tables, history
  <2>2. balance' = balance + 0 /\ 0 \in Nat
    BY <2>1, SupplyFacts
  <2> QED BY <1>0, <2>1, <2>2, StartSupply
<1>5. CASE \E q \in Deposit : issuer_transfer(q)
  <2> PICK q \in Deposit : issuer_transfer(q)
    BY <1>5
  <2>1. /\ UNCHANGED <<accounts, supply, orphaned>> /\ Calm
        /\ run' = StartRun(FALSE, 0) /\ balance' = balance + q
        /\ q \in Nat /\ 0 \in Nat
    BY BoundsAssumption DEF issuer_transfer, tables, history
  <2> QED BY <1>0, <2>1, StartSupply
<1>6. CASE \E q \in Deposit : issuer_bulk_transfer(q)
  <2> PICK q \in Deposit : issuer_bulk_transfer(q)
    BY <1>6
  <2>1. q \in Nat /\ token_to_vesting(q, balance) \in Nat
    BY BoundsAssumption, Conversion DEF SupplyInv, IInv
  <2>2. /\ UNCHANGED <<accounts, supply, orphaned>> /\ Calm
        /\ run' = StartRun(TRUE, token_to_vesting(q, balance))
        /\ balance' = balance + q
    BY DEF issuer_bulk_transfer, tables, history
  <2> QED BY <1>0, <2>1, <2>2, StartSupply
<1>7. CASE \E o \in Account, q \in Deposit : on_transfer(o, q)
  BY <1>0, <1>7, TransferSupply
<1>8. CASE \E o1, o2 \in Account, q1, q2 \in Deposit :
             on_bulk_transfer(o1, q1, o2, q2)
  BY <1>0, <1>8, BulkTransferSupply
<1>9. CASE \E o \in Account : open(o) \/ close(o)
  BY <1>0, <1>9, RowSupply
<1>10. CASE \E o \in Account, q \in 1..MaxSupply : retire(o, q)
  BY <1>0, <1>10, RetireSupply
<1>11. CASE \E o \in Account : pay_withdrawal(o)
  BY <1>0, <1>11, PayoutSupply
<1>12. CASE end_run
  BY <1>0, <1>12, EndRunSupply
<1>13. CASE \/ \E o \in Account, q \in Limit : unlocklimit(o, q)
            \/ \E from, to \in Account, q \in 1..MaxSupply, c \in ChargeLevel :
                 delegate(from, to, q, c)
            \/ \E from, to \in Account, q \in (-MaxAmount)..MaxAmount,
                  id \in ReturnId : undelegate(from, to, q, id)
            \/ \E id \in ReturnId : return_delegation(id)
  BY <1>0, <1>13, DelegationSupply
<1>14. CASE abort_run
  BY <1>0, <1>14, AbortSupply
<1> QED BY <1>1, <1>2, <1>3, <1>4, <1>5, <1>6, <1>7, <1>8, <1>9, <1>10, <1>11,
           <1>12, <1>13, <1>14 DEF Next, Step, RunStep

\* At first nothing is held, minted or owed.
LEMMA InitSupply == Init => SupplyInv /\ SavedSupply
<1> SUFFICES ASSUME Init PROVE SupplyInv /\ SavedSupply
  OBVIOUS
<1>1. DOMAIN accounts = {}
  BY DEF Init, EmptyTable
<1>2. IsFiniteSet(DOMAIN accounts)
  BY <1>1, FS_EmptySet
<1>3. VestingHeld = 0
  <2> DEFINE f == [o \in DOMAIN accounts |-> accounts[o].vesting]
  <2>1. DOMAIN f = {}
    BY <1>1
  <2> HIDE DEF f
  <2>2. Total(f) = 0
    BY <2>1, TotalEmpty
  <2> QED BY <2>2 DEF VestingHeld, f
<1>4. SupplyIsOwned /\ MintSound /\ Backed
  BY <1>3 DEF Init, Idle, SupplyIsOwned, MintSound, Backed, BackingTokens
<1>5. SavedSupply
  BY DEF Init, Idle, Calm, SavedSupply
<1> QED BY <1>2, <1>4, <1>5, InitIInv DEF SupplyInv

\* The invariant of the supply holds in every reachable state.
LEMMA SupplyInvariance == Spec => [](SupplyInv /\ SavedSupply)
<1>1. SupplyInv /\ SavedSupply /\ [Next]_vars => (SupplyInv /\ SavedSupply)'
  BY SupplyStep, SavedSupplyStep
<1> QED BY <1>1, InitSupply, PTL DEF Spec

\* For any number of accounts and any amounts, every share of the supply is in
\* a row, but for those that bulk transfers of the issuer mint to nobody.
THEOREM SupplyStaysOwned == Spec => []SupplyIsOwned
<1>1. SupplyInv => SupplyIsOwned
  BY DEF SupplyInv
<1> QED BY <1>1, SupplyInvariance, PTL

\* The payouts of one loop never exceed the tokens there are, and shares never
\* remain without tokens behind them, whatever the rounding of the conversions.
THEOREM SharesStayBacked == Spec => []SharesAreBacked
<1>1. SupplyInv => SharesAreBacked
  BY SupplyFacts DEF SharesAreBacked, NothingOrphaned
<1> QED BY <1>1, SupplyInvariance, PTL

\* No step lowers the tokens that stand behind one share: not a deposit at any
\* price, nor a payout in the middle of a loop, nor a retirement.  An abort only
\* takes back what its loop has done.
THEOREM PriceOnlyRises == Spec => PriceNeverFalls
<1>1. SupplyInv /\ SavedSupply /\ [Next]_vars => [PriceKept]_vars
  BY SupplyStep
<1>2. Spec => [][PriceKept]_vars
  BY <1>1, SupplyInvariance, PTL DEF Spec
<1> QED BY <1>2 DEF PriceNeverFalls, PriceKept

----------------------------------------------------------------------------
(* What the delegation records add up to *)

\* The sums of DelegationBooks over any table
ByIn(t, o) == Total([d \in DOMAIN t |-> IF d[1] = o THEN t[d].quantity ELSE 0])
ToIn(t, o) == Total([d \in DOMAIN t |-> IF d[2] = o THEN t[d].quantity ELSE 0])
BackIn(t, o) ==
  Total([r \in DOMAIN t |-> IF t[r].delegator = o THEN t[r].quantity ELSE 0])
CountIn(S, o) == Cardinality({d \in S : d[2] = o})

\* Quantities are added to what a record holds, or to a new record.
LEMMA DelegationPut ==
  ASSUME NEW t, NEW new, IsFiniteSet(DOMAIN t), NEW a, NEW b, NEW n \in Int,
         DOMAIN new = DOMAIN t \union {<<a, b>>},
         \A d \in DOMAIN t : t[d].quantity \in Int,
         \A d \in DOMAIN t \ {<<a, b>>} : new[d].quantity = t[d].quantity,
         new[<<a, b>>].quantity =
           (IF <<a, b>> \in DOMAIN t THEN t[<<a, b>>].quantity ELSE 0) + n
  PROVE  /\ \A o : ByIn(new, o) = ByIn(t, o) + (IF o = a THEN n ELSE 0)
         /\ \A o : ToIn(new, o) = ToIn(t, o) + (IF o = b THEN n ELSE 0)
         /\ \A o : ByIn(t, o) \in Int /\ ToIn(t, o) \in Int
<1> DEFINE k == <<a, b>>
<1>1. k[1] = a /\ k[2] = b
  OBVIOUS
<1>2. /\ DOMAIN new = DOMAIN t \union {k}
      /\ \A d \in DOMAIN t \ {k} : new[d].quantity = t[d].quantity
      /\ new[k].quantity \in Int
      /\ new[k].quantity = (IF k \in DOMAIN t THEN t[k].quantity ELSE 0) + n
  OBVIOUS
<1> HIDE DEF k
<1>3. ASSUME NEW o
      PROVE  /\ ByIn(new, o) = ByIn(t, o) + (IF o = a THEN n ELSE 0)
             /\ ByIn(t, o) \in Int
  <2> DEFINE f == [d \in DOMAIN t |-> IF d[1] = o THEN t[d].quantity ELSE 0]
             g == [d \in DOMAIN new |->
                     IF d[1] = o THEN new[d].quantity ELSE 0]
  <2>1. /\ DOMAIN f = DOMAIN t /\ DOMAIN g = DOMAIN t \union {k}
        /\ \A d \in DOMAIN f : f[d] \in Int
        /\ \A d \in DOMAIN f \ {k} : g[d] = f[d]
        /\ g[k] \in Int
        /\ g[k] = (IF k \in DOMAIN f THEN f[k] ELSE 0)
                    + (IF o = a THEN n ELSE 0)
        /\ (IF k \in DOMAIN f THEN f[k] ELSE 0) \in Int
    BY <1>1, <1>2
  <2> HIDE DEF f, g
  <2>2. /\ Total(f) \in Int
        /\ Total(g) = Total(f) + g[k] - (IF k \in DOMAIN f THEN f[k] ELSE 0)
    BY <2>1, TotalPut
  <2> QED BY <2>1, <2>2 DEF ByIn, f, g
<1>4. ASSUME NEW o
      PROVE  /\ ToIn(new, o) = ToIn(t, o) + (IF o = b THEN n ELSE 0)
             /\ ToIn(t, o) \in Int
  <2> DEFINE f == [d \in DOMAIN t |-> IF d[2] = o THEN t[d].quantity ELSE 0]
             g == [d \in DOMAIN new |->
                     IF d[2] = o THEN new[d].quantity ELSE 0]
  <2>1. /\ DOMAIN f = DOMAIN t /\ DOMAIN g = DOMAIN t \union {k}
        /\ \A d \in DOMAIN f : f[d] \in Int
        /\ \A d \in DOMAIN f \ {k} : g[d] = f[d]
        /\ g[k] \in Int
        /\ g[k] = (IF k \in DOMAIN f THEN f[k] ELSE 0)
                    + (IF o = b THEN n ELSE 0)
        /\ (IF k \in DOMAIN f THEN f[k] ELSE 0) \in Int
    BY <1>1, <1>2
  <2> HIDE DEF f, g
  <2>2. /\ Total(f) \in Int
        /\ Total(g) = Total(f) + g[k] - (IF k \in DOMAIN f THEN f[k] ELSE 0)
    BY <2>1, TotalPut
  <2> QED BY <2>1, <2>2 DEF ToIn, f, g
<1> QED BY <1>3, <1>4

\* The sums are numbers.
LEMMA SumsInt ==
  ASSUME NEW t, IsFiniteSet(DOMAIN t),
         \A d \in DOMAIN t : t[d].quantity \in Int
  PROVE  \A o : ByIn(t, o) \in Int /\ ToIn(t, o) \in Int
<1> TAKE o
<1> DEFINE f == [d \in DOMAIN t |-> IF d[1] = o THEN t[d].quantity ELSE 0]
           g == [d \in DOMAIN t |-> IF d[2] = o THEN t[d].quantity ELSE 0]
<1>1. /\ DOMAIN f = DOMAIN t /\ \A d \in DOMAIN f : f[d] \in Int
      /\ DOMAIN g = DOMAIN t /\ \A d \in DOMAIN g : g[d] \in Int
  OBVIOUS
<1> HIDE DEF f, g
<1>2. Total(f) \in Int /\ Total(g) \in Int
  BY <1>1, TotalInt
<1> QED BY <1>2 DEF ByIn, ToIn, f, g

\* A record is erased.
LEMMA DelegationDrop ==
  ASSUME NEW t, NEW new, IsFiniteSet(DOMAIN t), NEW a, NEW b,
         <<a, b>> \in DOMAIN t, DOMAIN new = DOMAIN t \ {<<a, b>>},
         \A d \in DOMAIN t : t[d].quantity \in Int,
         \A d \in DOMAIN new : new[d] = t[d]
  PROVE  /\ \A o : ByIn(new, o) =
                     ByIn(t, o) - (IF o = a THEN t[<<a, b>>].quantity ELSE 0)
         /\ \A o : ToIn(new, o) =
                     ToIn(t, o) - (IF o = b THEN t[<<a, b>>].quantity ELSE 0)
<1> DEFINE k == <<a, b>>
<1>1. k[1] = a /\ k[2] = b
  OBVIOUS
<1>2. k \in DOMAIN t /\ DOMAIN new = DOMAIN t \ {k}
  OBVIOUS
<1> HIDE DEF k
<1>3. ASSUME NEW o
      PROVE  ByIn(new, o) = ByIn(t, o) - (IF o = a THEN t[k].quantity ELSE 0)
  <2> DEFINE f == [d \in DOMAIN t |-> IF d[1] = o THEN t[d].quantity ELSE 0]
             g == [d \in DOMAIN new |->
                     IF d[1] = o THEN new[d].quantity ELSE 0]
  <2>1. /\ DOMAIN f = DOMAIN t /\ DOMAIN g = DOMAIN t \ {k}
        /\ \A d \in DOMAIN f : f[d] \in Int
        /\ \A d \in DOMAIN g : g[d] = f[d]
        /\ k \in DOMAIN f /\ f[k] = (IF o = a THEN t[k].quantity ELSE 0)
    BY <1>1, <1>2
  <2> HIDE DEF f, g
  <2>2. Total(g) = Total(f) - f[k]
    BY <2>1, TotalRemove
  <2> QED BY <2>1, <2>2 DEF ByIn, f, g
<1>4. ASSUME NEW o
      PROVE  ToIn(new, o) = ToIn(t, o) - (IF o = b THEN t[k].quantity ELSE 0)
  <2> DEFINE f == [d \in DOMAIN t |-> IF d[2] = o THEN t[d].quantity ELSE 0]
             g == [d \in DOMAIN new |->
                     IF d[2] = o THEN new[d].quantity ELSE 0]
  <2>1. /\ DOMAIN f = DOMAIN t /\ DOMAIN g = DOMAIN t \ {k}
        /\ \A d \in DOMAIN f : f[d] \in Int
        /\ \A d \in DOMAIN g : g[d] = f[d]
        /\ k \in DOMAIN f /\ f[k] = (IF o = b THEN t[k].quantity ELSE 0)
    BY <1>1, <1>2
  <2> HIDE DEF f, g
  <2>2. Total(g) = Total(f) - f[k]
    BY <2>1, TotalRemove
  <2> QED BY <2>1, <2>2 DEF ToIn, f, g
<1> QED BY <1>3, <1>4 DEF k

\* What is on its way back is a number.
LEMMA BackInt ==
  ASSUME NEW t, IsFiniteSet(DOMAIN t),
         \A r \in DOMAIN t : t[r].quantity \in Int
  PROVE  \A o : BackIn(t, o) \in Int
<1> TAKE o
<1> DEFINE f == [r \in DOMAIN t |->
                   IF t[r].delegator = o THEN t[r].quantity ELSE 0]
<1>1. DOMAIN f = DOMAIN t /\ \A r \in DOMAIN f : f[r] \in Int
  OBVIOUS
<1> HIDE DEF f
<1> QED BY <1>1, TotalInt DEF BackIn, f

\* A return is recorded, or it matures.
LEMMA ReturnPut ==
  ASSUME NEW t, NEW new, IsFiniteSet(DOMAIN t), NEW id, id \notin DOMAIN t,
         DOMAIN new = DOMAIN t \union {id},
         \A r \in DOMAIN t : t[r].quantity \in Int /\ new[r] = t[r],
         new[id].quantity \in Int
  PROVE  \A o : /\ BackIn(new, o) = BackIn(t, o)
                     + (IF o = new[id].delegator THEN new[id].quantity ELSE 0)
                /\ BackIn(t, o) \in Int
<1> TAKE o
<1> DEFINE f == [r \in DOMAIN t |->
                   IF t[r].delegator = o THEN t[r].quantity ELSE 0]
           g == [r \in DOMAIN new |->
                   IF new[r].delegator = o THEN new[r].quantity ELSE 0]
<1>1. /\ DOMAIN f = DOMAIN t /\ DOMAIN g = DOMAIN t \union {id}
      /\ \A r \in DOMAIN f : f[r] \in Int /\ g[r] = f[r]
      /\ g[id] \in Int
      /\ g[id] = (IF o = new[id].delegator THEN new[id].quantity ELSE 0)
  OBVIOUS
<1> HIDE DEF f, g
<1>2. Total(g) = Total(f) + g[id] /\ Total(f) \in Int
  BY <1>1, TotalInsert, TotalInt
<1> QED BY <1>1, <1>2 DEF BackIn, f, g

\* A row of the return table that goes takes its quantity from what is on its way
\* back to its owner.
LEMMA ReturnDrop ==
  ASSUME NEW t, NEW new, IsFiniteSet(DOMAIN t), NEW id \in DOMAIN t,
         DOMAIN new = DOMAIN t \ {id},
         \A r \in DOMAIN t : t[r].quantity \in Int,
         \A r \in DOMAIN new : new[r] = t[r]
  PROVE  \A o : /\ BackIn(new, o) = BackIn(t, o)
                     - (IF o = t[id].delegator THEN t[id].quantity ELSE 0)
                /\ BackIn(t, o) \in Int
<1> TAKE o
<1> DEFINE f == [r \in DOMAIN t |->
                   IF t[r].delegator = o THEN t[r].quantity ELSE 0]
           g == [r \in DOMAIN new |->
                   IF new[r].delegator = o THEN new[r].quantity ELSE 0]
<1>1. /\ DOMAIN f = DOMAIN t /\ DOMAIN g = DOMAIN f \ {id}
      /\ \A r \in DOMAIN f : f[r] \in Int
      /\ \A r \in DOMAIN g : g[r] = f[r]
      /\ f[id] = (IF o = t[id].delegator THEN t[id].quantity ELSE 0)
  OBVIOUS
<1> HIDE DEF f, g
<1>2. Total(g) = Total(f) - f[id] /\ Total(f) \in Int
  BY <1>1, TotalRemove, TotalInt
<1> QED BY <1>1, <1>2 DEF BackIn, f, g

\* A recipient has one delegator more, or one less.
LEMMA CountPut ==
  ASSUME NEW S, IsFiniteSet(S), NEW a, NEW b, <<a, b>> \notin S
  PROVE  \A o : /\ CountIn(S \union {<<a, b>>}, o) =
                     CountIn(S, o) + (IF o = b THEN 1 ELSE 0)
                /\ CountIn(S, o) \in Nat
<1> TAKE o
<1> DEFINE k == <<a, b>>
           T == {d \in S : d[2] = o}
           U == {d \in S \union {k} : d[2] = o}
<1>1. IsFiniteSet(T) /\ k \notin T
  BY FS_Subset
<1>2. U = IF o = b THEN T \union {k} ELSE T
  OBVIOUS
<1> HIDE DEF k, T, U
<1>3. /\ Cardinality(T) \in Nat
      /\ Cardinality(T \union {k}) = Cardinality(T) + 1
  BY <1>1, FS_CardinalityType, FS_AddElement
<1>4. Cardinality(U) = Cardinality(T) + (IF o = b THEN 1 ELSE 0)
  BY <1>2, <1>3
<1> QED BY <1>3, <1>4 DEF CountIn, k, T, U

\* A pair that goes takes one from the number of pairs of its second account.
LEMMA CountDrop ==
  ASSUME NEW S, IsFiniteSet(S), NEW a, NEW b, <<a, b>> \in S
  PROVE  \A o : CountIn(S \ {<<a, b>>}, o) =
                  CountIn(S, o) - (IF o = b THEN 1 ELSE 0)
<1> TAKE o
<1> DEFINE k == <<a, b>>
           R == S \ {k}
<1>1. k \notin R /\ IsFiniteSet(R) /\ S = R \union {k}
  BY FS_RemoveElement
<1> HIDE DEF R
<1>2. /\ CountIn(R \union {k}, o) = CountIn(R, o) + (IF o = b THEN 1 ELSE 0)
      /\ CountIn(R, o) \in Nat
  BY <1>1, CountPut
<1>3. CountIn(R, o) = CountIn(S, o) - (IF o = b THEN 1 ELSE 0)
  BY <1>1, <1>2
<1> QED BY <1>3 DEF R

\* The row of an account, or that of one that has none
RowIn(rows, o) == IF o \in DOMAIN rows THEN rows[o] ELSE NewRow(0, TRUE)

BooksOf(rows, t, r) ==
  \A o \in Account :
    /\ RowIn(rows, o).delegated = ByIn(t, o) + BackIn(r, o)
    /\ RowIn(rows, o).received = ToIn(t, o)
    /\ RowIn(rows, o).delegators = CountIn(DOMAIN t, o)

DelegationInv == /\ IInv
                 /\ IsFiniteSet(DOMAIN delegation)
                 /\ IsFiniteSet(DOMAIN rdelegation)
                 /\ DelegationBooks

\* The same of what an abort would put back; no loop changes a delegation.
SavedBooks ==
  ~Calm => /\ IsFiniteSet(DOMAIN saved.rdelegation)
           /\ BooksOf(saved.accounts, delegation, saved.rdelegation)

\* DelegationBooks, as a statement about the three tables
LEMMA BooksAre == DelegationBooks <=> BooksOf(accounts, delegation, rdelegation)
BY DEF DelegationBooks, BooksOf, RowIn, ByIn, ToIn, BackIn, CountIn,
       DelegatedBy, DelegatedTo, ReturningTo

\* The records, typed
LEMMA RecordFacts ==
  ASSUME DelegationInv
  PROVE  /\ \A d \in DOMAIN delegation :
              /\ delegation[d].quantity \in Nat
              /\ delegation[d].quantity > 0
              /\ DOMAIN delegation[d] = {"quantity", "min_delegation_time"}
         /\ \A r \in DOMAIN rdelegation : rdelegation[r].quantity \in Int
         /\ \A o \in DOMAIN accounts : accounts[o] \in AccountType
         /\ IsFiniteSet(DOMAIN delegation) /\ IsFiniteSet(DOMAIN rdelegation)
         /\ BooksOf(accounts, delegation, rdelegation)
<1>1. \A d \in DOMAIN delegation : delegation[d] \in DelegationType
  BY DEF DelegationInv, IInv, TypeOK, IsTable
<1>2. \A n \in 1..MaxAmount : n \in Nat /\ n > 0
  BY WidthAssumption
<1>3. \A d \in DOMAIN delegation :
        /\ delegation[d].quantity \in Nat /\ delegation[d].quantity > 0
        /\ DOMAIN delegation[d] = {"quantity", "min_delegation_time"}
  BY <1>1, <1>2 DEF DelegationType
<1>4. /\ \A r \in DOMAIN rdelegation : rdelegation[r].quantity \in Int
      /\ \A o \in DOMAIN accounts : accounts[o] \in AccountType
  BY DEF DelegationInv, IInv, TypeOK, IsTable, ReturnType
<1> QED BY <1>3, <1>4, BooksAre DEF DelegationInv

\* Steps that touch no record and no side of a delegation
LEMMA BooksKept ==
  ASSUME DelegationInv, IInv', UNCHANGED <<delegation, rdelegation>>,
         \A o \in Account :
           /\ RowIn(accounts', o).delegated = RowIn(accounts, o).delegated
           /\ RowIn(accounts', o).received = RowIn(accounts, o).received
           /\ RowIn(accounts', o).delegators = RowIn(accounts, o).delegators
  PROVE  DelegationInv'
<1>1. BooksOf(accounts, delegation, rdelegation)
  BY RecordFacts
<1>2. BooksOf(accounts', delegation, rdelegation)
  BY <1>1 DEF BooksOf
<1>3. BooksOf(accounts', delegation', rdelegation')
  BY <1>2
<1>4. DelegationBooks'
  BY <1>3 DEF DelegationBooks, BooksOf, RowIn, ByIn, ToIn, BackIn, CountIn,
              DelegatedBy, DelegatedTo, ReturningTo
<1> QED BY <1>4 DEF DelegationInv

\* A credit opens an empty row or changes a balance only.
LEMMA CreditRows ==
  ASSUME NEW rows, IsTable(rows, Account, AccountType),
         NEW o \in Account, NEW n \in Nat, NEW x \in Account
  PROVE  LET new == add_balance(rows, o, n) IN
         /\ RowIn(new, x).delegated = RowIn(rows, x).delegated
         /\ RowIn(new, x).received = RowIn(rows, x).received
         /\ RowIn(new, x).delegators = RowIn(rows, x).delegators
<1>1. CASE n = 0
  BY <1>1 DEF add_balance
<1>2. CASE n # 0 /\ o \in DOMAIN rows
  <2>1. rows[o] \in AccountType
    BY <1>2 DEF IsTable
  <2> DEFINE new == [rows EXCEPT ![o].vesting = @ + n]
  <2>2. /\ DOMAIN new = DOMAIN rows
        /\ \A y \in DOMAIN rows \ {o} : new[y] = rows[y]
        /\ new[o] = [rows[o] EXCEPT !.vesting = @ + n]
    BY <1>2
  <2>3. /\ new[o].delegated = rows[o].delegated
        /\ new[o].received = rows[o].received
        /\ new[o].delegators = rows[o].delegators
    BY <2>1, <2>2 DEF AccountType
  <2>4. add_balance(rows, o, n) = new
    BY <1>2 DEF add_balance
  <2> HIDE DEF new
  <2> QED BY <1>2, <2>2, <2>3, <2>4 DEF RowIn
<1>3. CASE n # 0 /\ o \notin DOMAIN rows
  BY <1>3 DEF add_balance, Put, NewRow, RowIn
<1> QED BY <1>1, <1>2, <1>3

\* Steps that move shares, open rows or set limits
LEMMA SharesBooks ==
  ASSUME DelegationInv, IInv',
         \/ \E o \in Account : open(o) \/ pay_withdrawal(o)
         \/ \E o \in Account, q \in Deposit : on_transfer(o, q)
         \/ \E o1, o2 \in Account, q1, q2 \in Deposit :
              on_bulk_transfer(o1, q1, o2, q2)
         \/ \E o \in Account, q \in 1..MaxSupply : retire(o, q)
         \/ \E o \in Account, q \in Limit : unlocklimit(o, q)
  PROVE  DelegationInv'
<1> DEFINE Same(new, rows) ==
             \A x \in Account :
               /\ RowIn(new, x).delegated = RowIn(rows, x).delegated
               /\ RowIn(new, x).received = RowIn(rows, x).received
               /\ RowIn(new, x).delegators = RowIn(rows, x).delegators
<1>0. /\ IsTable(accounts, Account, AccountType) /\ TypeOK
      /\ \A o \in DOMAIN accounts : accounts[o] \in AccountType
  BY RecordFacts DEF DelegationInv, IInv, TypeOK
<1>1. ASSUME NEW o \in Account, open(o)
      PROVE  Same(accounts', accounts) /\ UNCHANGED <<delegation, rdelegation>>
  BY <1>1 DEF open, RowIn, Put
<1>2. ASSUME NEW o \in Account, pay_withdrawal(o)
      PROVE  Same(accounts', accounts) /\ UNCHANGED <<delegation, rdelegation>>
  <2>1. o \in DOMAIN accounts
    BY <1>2 DEF pay_withdrawal, NextWithdrawal, DelegationInv, IInv, RunSound,
       WithdrawalsSound
  <2>2. /\ accounts' = sub_balance(accounts, o, to_send(o), FALSE)
        /\ UNCHANGED <<delegation, rdelegation>>
    BY <1>2 DEF pay_withdrawal
  <2>3. accounts[o] \in AccountType
    BY <1>0, <2>1
  <2>4. /\ DOMAIN accounts' = DOMAIN accounts
        /\ \A y \in DOMAIN accounts \ {o} : accounts'[y] = accounts[y]
    BY <2>2 DEF sub_balance
  <2>5. /\ accounts'[o].delegated = accounts[o].delegated
        /\ accounts'[o].received = accounts[o].received
        /\ accounts'[o].delegators = accounts[o].delegators
    BY <2>1, <2>2, <2>3 DEF sub_balance, AccountType
  <2> QED BY <2>2, <2>4, <2>5 DEF RowIn
<1>3. ASSUME NEW o \in Account, NEW q \in Deposit, on_transfer(o, q)
      PROVE  Same(accounts', accounts) /\ UNCHANGED <<delegation, rdelegation>>
  <2>1. token_to_vesting(q, balance) \in Nat
    BY <1>0, Conversion, BoundsAssumption
  <2> QED BY <1>0, <1>3, <2>1, CreditRows DEF on_transfer
<1>4. ASSUME NEW o1 \in Account, NEW o2 \in Account, NEW q1 \in Deposit,
             NEW q2 \in Deposit, on_bulk_transfer(o1, q1, o2, q2)
      PROVE  Same(accounts', accounts) /\ UNCHANGED <<delegation, rdelegation>>
  <2> DEFINE c1 == token_to_vesting(q1, balance)
             c2 == token_to_vesting(q2, balance)
             mid == add_balance(accounts, o1, c1)
  <2>1. c1 \in Nat /\ c2 \in Nat
    BY <1>0, Conversion, BoundsAssumption
  <2>2. /\ accounts' = add_balance(mid, o2, c2)
        /\ UNCHANGED <<delegation, rdelegation>>
    BY <1>4 DEF on_bulk_transfer
  <2> HIDE DEF c1, c2
  <2>3. IsTable(mid, Account, AccountType) /\ Same(mid, accounts)
    <3>1. IsTable(mid, Account, AccountType)
      BY <1>0, <2>1, AddBalance
    <3>2. Same(mid, accounts)
      BY <1>0, <2>1, CreditRows
    <3> QED BY <3>1, <3>2
  <2> HIDE DEF mid
  <2>4. Same(accounts', mid)
    BY <2>1, <2>2, <2>3, CreditRows
  <2> QED BY <2>2, <2>3, <2>4
<1>5. ASSUME NEW o \in Account, NEW q \in 1..MaxSupply, retire(o, q)
      PROVE  Same(accounts', accounts) /\ UNCHANGED <<delegation, rdelegation>>
  <2>1. /\ o \in DOMAIN accounts
        /\ accounts' = sub_balance(accounts, o, q, TRUE)
        /\ UNCHANGED <<delegation, rdelegation>>
    BY <1>5 DEF retire
  <2>3. accounts[o] \in AccountType
    BY <1>0, <2>1
  <2>4. /\ DOMAIN accounts' = DOMAIN accounts
        /\ \A y \in DOMAIN accounts \ {o} : accounts'[y] = accounts[y]
    BY <2>1 DEF sub_balance
  <2>5. /\ accounts'[o].delegated = accounts[o].delegated
        /\ accounts'[o].received = accounts[o].received
        /\ accounts'[o].delegators = accounts[o].delegators
    BY <2>1, <2>3 DEF sub_balance, AccountType
  <2> QED BY <2>1, <2>4, <2>5 DEF RowIn
<1>6. ASSUME NEW o \in Account, NEW q \in Limit, unlocklimit(o, q)
      PROVE  Same(accounts', accounts) /\ UNCHANGED <<delegation, rdelegation>>
  <2>1. /\ o \in DOMAIN accounts /\ accounts[o] \in AccountType
        /\ accounts' = [accounts EXCEPT ![o].unlocked_limit = q]
        /\ UNCHANGED <<delegation, rdelegation>>
    BY <1>0, <1>6 DEF unlocklimit
  <2>2. /\ DOMAIN accounts' = DOMAIN accounts
        /\ \A y \in DOMAIN accounts \ {o} : accounts'[y] = accounts[y]
    BY <2>1
  <2>3. /\ accounts'[o].delegated = accounts[o].delegated
        /\ accounts'[o].received = accounts[o].received
        /\ accounts'[o].delegators = accounts[o].delegators
    BY <2>1 DEF AccountType
  <2> QED BY <2>1, <2>2, <2>3 DEF RowIn
<1>7. Same(accounts', accounts) /\ UNCHANGED <<delegation, rdelegation>>
  BY <1>1, <1>2, <1>3, <1>4, <1>5, <1>6
<1> QED BY <1>7, BooksKept

\* Who holds no received power counts no delegator.
LEMMA CloseBooks ==
  ASSUME DelegationInv, IInv', NEW o \in Account, close(o)
  PROVE  DelegationInv'
<1>1. /\ o \in DOMAIN accounts /\ accounts[o].delegated = 0
      /\ accounts[o].received = 0 /\ accounts' = Drop(accounts, o)
      /\ UNCHANGED <<delegation, rdelegation>>
  BY DEF close
<1>2. /\ accounts[o].received = ToIn(delegation, o)
      /\ accounts[o].delegators = CountIn(DOMAIN delegation, o)
  BY <1>1, RecordFacts DEF BooksOf, RowIn
<1>3. \A d \in DOMAIN delegation : d[2] # o
  <2> SUFFICES ASSUME NEW d \in DOMAIN delegation, d[2] = o PROVE FALSE
    OBVIOUS
  <2> DEFINE f == [c \in DOMAIN delegation |->
                     IF c[2] = o THEN delegation[c].quantity ELSE 0]
  <2>1. /\ DOMAIN f = DOMAIN delegation /\ \A c \in DOMAIN f : f[c] \in Nat
        /\ f[d] > 0
    BY RecordFacts
  <2> HIDE DEF f
  <2>2. f[d] <= Total(f) /\ Total(f) \in Nat
    BY <2>1, TotalPart, TotalNat, RecordFacts
  <2>3. Total(f) = 0
    BY <1>1, <1>2 DEF ToIn, f
  <2> QED BY <2>1, <2>2, <2>3
<1>4. accounts[o].delegators = 0
  <2>1. {d \in DOMAIN delegation : d[2] = o} = {}
    BY <1>3
  <2> QED BY <1>2, <2>1, FS_EmptySet DEF CountIn
<1>5. \A x \in Account :
        /\ RowIn(accounts', x).delegated = RowIn(accounts, x).delegated
        /\ RowIn(accounts', x).received = RowIn(accounts, x).received
        /\ RowIn(accounts', x).delegators = RowIn(accounts, x).delegators
  BY <1>1, <1>4 DEF RowIn, Drop, NewRow
<1> QED BY <1>1, <1>5, BooksKept

\* What is delegated is added on both sides and to the record.
LEMMA DelegateBooks ==
  ASSUME DelegationInv, IInv', NEW from \in Account, NEW to \in Account,
         NEW q \in 1..MaxSupply, NEW charge \in ChargeLevel,
         delegate(from, to, q, charge)
  PROVE  DelegationInv'
<1> DEFINE k == <<from, to>>
           exists == k \in DOMAIN delegation
<1>1. /\ q \in Nat /\ q > 0 /\ from # to
      /\ from \in DOMAIN accounts /\ to \in DOMAIN accounts
      /\ accounts[from] \in AccountType /\ accounts[to] \in AccountType
      /\ rdelegation' = rdelegation
  BY BoundsAssumption, RecordFacts DEF delegate
<1>2. /\ DOMAIN delegation' = DOMAIN delegation \union {k}
      /\ \A d \in DOMAIN delegation \ {k} :
           delegation'[d].quantity = delegation[d].quantity
      /\ delegation'[k].quantity =
           (IF exists THEN delegation[k].quantity ELSE 0) + q
  <2>1. CASE exists
    <3>1. delegation' = [delegation EXCEPT ![k].quantity = @ + q]
      BY <2>1 DEF delegate
    <3>2. DOMAIN delegation[k] = {"quantity", "min_delegation_time"}
      BY <2>1, RecordFacts
    <3> QED BY <2>1, <3>1, <3>2
  <2>2. CASE ~exists
    BY <1>1, <2>2, BoundsAssumption DEF delegate, Put
  <2> QED BY <2>1, <2>2
<1>3. /\ DOMAIN accounts' = DOMAIN accounts
      /\ \A y \in DOMAIN accounts \ {from, to} : accounts'[y] = accounts[y]
      /\ accounts'[from].delegated = accounts[from].delegated + q
      /\ accounts'[from].received = accounts[from].received
      /\ accounts'[from].delegators = accounts[from].delegators
      /\ accounts'[to].delegated = accounts[to].delegated
      /\ accounts'[to].received = accounts[to].received + q
      /\ accounts'[to].delegators =
           accounts[to].delegators + (IF exists THEN 0 ELSE 1)
  <2>1. accounts' = [accounts EXCEPT
          ![from].delegated = @ + q, ![to].received = @ + q,
          ![to].delegators = IF exists THEN @ ELSE @ + 1]
    BY DEF delegate
  <2> HIDE DEF exists
  <2>2. /\ DOMAIN accounts' = DOMAIN accounts
        /\ \A y \in DOMAIN accounts \ {from, to} : accounts'[y] = accounts[y]
    BY <2>1
  <2>3. accounts'[from] = [accounts[from] EXCEPT !.delegated = @ + q]
    BY <1>1, <2>1
  <2>4. accounts'[to] = [accounts[to] EXCEPT
                           !.received = @ + q,
                           !.delegators = IF exists THEN @ ELSE @ + 1]
    BY <1>1, <2>1
  <2>5. /\ accounts'[from].delegated = accounts[from].delegated + q
        /\ accounts'[from].received = accounts[from].received
        /\ accounts'[from].delegators = accounts[from].delegators
    BY <1>1, <2>3 DEF AccountType
  <2>6. /\ accounts'[to].delegated = accounts[to].delegated
        /\ accounts'[to].received = accounts[to].received + q
        /\ accounts'[to].delegators =
             accounts[to].delegators + (IF exists THEN 0 ELSE 1)
    BY <1>1, <2>4 DEF AccountType
  <2> QED BY <2>2, <2>5, <2>6
<1> HIDE DEF k
<1>4. /\ \A o : ByIn(delegation', o) =
                  ByIn(delegation, o) + (IF o = from THEN q ELSE 0)
      /\ \A o : ToIn(delegation', o) =
                  ToIn(delegation, o) + (IF o = to THEN q ELSE 0)
      /\ \A o : ByIn(delegation, o) \in Int /\ ToIn(delegation, o) \in Int
  <2>1. q \in Int /\ IsFiniteSet(DOMAIN delegation)
        /\ \A d \in DOMAIN delegation : delegation[d].quantity \in Int
    BY <1>1, RecordFacts
  <2> QED BY <1>2, <2>1, DelegationPut DEF k
<1>5. \A o : /\ CountIn(DOMAIN delegation', o) = CountIn(DOMAIN delegation, o)
                  + (IF o = to /\ ~exists THEN 1 ELSE 0)
             /\ CountIn(DOMAIN delegation, o) \in Nat
  <2>1. \A o : CountIn(DOMAIN delegation, o) \in Nat
    <3>1. ASSUME NEW o PROVE CountIn(DOMAIN delegation, o) \in Nat
      <4>1. IsFiniteSet({d \in DOMAIN delegation : d[2] = o})
        BY RecordFacts, FS_Subset
      <4> QED BY <4>1, FS_CardinalityType DEF CountIn
    <3> QED BY <3>1
  <2>2. CASE exists
    <3>1. DOMAIN delegation' = DOMAIN delegation
      BY <1>2, <2>2
    <3> QED BY <2>1, <2>2, <3>1
  <2>3. CASE ~exists
    <3>1. \A o : CountIn(DOMAIN delegation \union {k}, o) =
                   CountIn(DOMAIN delegation, o) + (IF o = to THEN 1 ELSE 0)
      BY <2>3, RecordFacts, CountPut DEF k
    <3> QED BY <1>2, <2>1, <2>3, <3>1
  <2> QED BY <2>2, <2>3
<1>6. BooksOf(accounts', delegation', rdelegation')
  <2> SUFFICES ASSUME NEW o \in Account
               PROVE  /\ RowIn(accounts', o).delegated =
                           ByIn(delegation', o) + BackIn(rdelegation, o)
                      /\ RowIn(accounts', o).received = ToIn(delegation', o)
                      /\ RowIn(accounts', o).delegators =
                           CountIn(DOMAIN delegation', o)
    BY <1>1 DEF BooksOf
  <2>1. /\ RowIn(accounts, o).delegated =
             ByIn(delegation, o) + BackIn(rdelegation, o)
        /\ RowIn(accounts, o).received = ToIn(delegation, o)
        /\ RowIn(accounts, o).delegators = CountIn(DOMAIN delegation, o)
        /\ BackIn(rdelegation, o) \in Int
    <3>1. BackIn(rdelegation, o) \in Int
      BY RecordFacts, BackInt
    <3> QED BY <3>1, RecordFacts DEF BooksOf
  <2>2. /\ RowIn(accounts', o).delegated =
             RowIn(accounts, o).delegated + (IF o = from THEN q ELSE 0)
        /\ RowIn(accounts', o).received =
             RowIn(accounts, o).received + (IF o = to THEN q ELSE 0)
        /\ RowIn(accounts', o).delegators = RowIn(accounts, o).delegators
             + (IF o = to /\ ~exists THEN 1 ELSE 0)
    <3> HIDE DEF exists
    <3>1. CASE o \in DOMAIN accounts
      <4>1. accounts[o] \in AccountType
        BY <3>1, RecordFacts
      <4>2. /\ RowIn(accounts', o) = accounts'[o]
            /\ RowIn(accounts, o) = accounts[o]
            /\ accounts[o].delegated \in Int /\ accounts[o].received \in Int
            /\ accounts[o].delegators \in Int
        BY <1>3, <3>1, <4>1 DEF RowIn, AccountType
      <4> QED BY <1>1, <1>3, <3>1, <4>2
    <3>2. CASE o \notin DOMAIN accounts
      BY <1>1, <1>3, <3>2 DEF RowIn, NewRow
    <3> QED BY <3>1, <3>2
  <2> HIDE DEF exists
  <2> QED BY <1>1, <1>4, <1>5, <2>1, <2>2
<1>7. DelegationBooks'
  BY <1>6 DEF DelegationBooks, BooksOf, RowIn, ByIn, ToIn, BackIn, CountIn,
              DelegatedBy, DelegatedTo, ReturningTo
<1>8. IsFiniteSet(DOMAIN delegation') /\ IsFiniteSet(DOMAIN rdelegation')
  <2>1. IsFiniteSet(DOMAIN delegation')
    BY <1>2, RecordFacts, FS_AddElement
  <2> QED BY <1>1, <2>1, RecordFacts
<1> QED BY <1>7, <1>8 DEF DelegationInv

\* What is taken back, or added by a negative quantity, leaves or reaches the
\* recipient and its record at once, and the delegator when it matures.
LEMMA UndelegateBooks ==
  ASSUME DelegationInv, IInv', NEW from \in Account, NEW to \in Account,
         NEW q \in (-MaxAmount)..MaxAmount, NEW id \in ReturnId,
         undelegate(from, to, q, id)
  PROVE  DelegationInv'
<1> DEFINE k == <<from, to>>
           erasing == delegation[k].quantity = q
<1>1. /\ q \in Int /\ k \in DOMAIN delegation
      /\ to \in DOMAIN accounts /\ accounts[to] \in AccountType
      /\ delegation[k].quantity \in Nat
  BY WidthAssumption, RecordFacts DEF undelegate
<1>2. /\ DOMAIN accounts' = DOMAIN accounts
      /\ \A y \in DOMAIN accounts \ {to} : accounts'[y] = accounts[y]
      /\ accounts'[to].delegated = accounts[to].delegated
      /\ accounts'[to].received = accounts[to].received - q
      /\ accounts'[to].delegators =
           accounts[to].delegators - (IF erasing THEN 1 ELSE 0)
  <2>1. accounts' = [accounts EXCEPT
          ![to].received = @ - q,
          ![to].delegators = IF erasing THEN @ - 1 ELSE @]
    BY DEF undelegate, take_back
  <2> HIDE DEF erasing
  <2>2. /\ DOMAIN accounts' = DOMAIN accounts
        /\ \A y \in DOMAIN accounts \ {to} : accounts'[y] = accounts[y]
    BY <2>1
  <2>3. accounts'[to] = [accounts[to] EXCEPT
                           !.received = @ - q,
                           !.delegators = IF erasing THEN @ - 1 ELSE @]
    BY <1>1, <2>1
  <2>4. /\ accounts'[to].delegated = accounts[to].delegated
        /\ accounts'[to].received = accounts[to].received - q
        /\ accounts'[to].delegators =
             accounts[to].delegators - (IF erasing THEN 1 ELSE 0)
    BY <1>1, <2>3 DEF AccountType
  <2> QED BY <2>2, <2>4
<1>3. /\ \A d \in DOMAIN delegation : delegation[d].quantity \in Int
      /\ IsFiniteSet(DOMAIN delegation) /\ IsFiniteSet(DOMAIN rdelegation)
      /\ \A o : CountIn(DOMAIN delegation, o) \in Nat
  <2>1. ASSUME NEW o PROVE CountIn(DOMAIN delegation, o) \in Nat
    <3>1. IsFiniteSet({d \in DOMAIN delegation : d[2] = o})
      BY RecordFacts, FS_Subset
    <3> QED BY <3>1, FS_CardinalityType DEF CountIn
  <2> QED BY <2>1, RecordFacts
<1>4. /\ \A o : ByIn(delegation', o) =
                  ByIn(delegation, o) - (IF o = from THEN q ELSE 0)
      /\ \A o : ToIn(delegation', o) =
                  ToIn(delegation, o) - (IF o = to THEN q ELSE 0)
      /\ \A o : ByIn(delegation, o) \in Int /\ ToIn(delegation, o) \in Int
      /\ \A o : CountIn(DOMAIN delegation', o) = CountIn(DOMAIN delegation, o)
                  - (IF o = to /\ erasing THEN 1 ELSE 0)
      /\ IsFiniteSet(DOMAIN delegation')
  <2>0. \A o : ByIn(delegation, o) \in Int /\ ToIn(delegation, o) \in Int
    BY <1>3, SumsInt
  <2>1. CASE erasing
    <3>1. /\ DOMAIN delegation' = DOMAIN delegation \ {k}
          /\ \A d \in DOMAIN delegation' : delegation'[d] = delegation[d]
      BY <2>1 DEF undelegate, Drop
    <3>2. /\ \A o : ByIn(delegation', o) = ByIn(delegation, o)
                      - (IF o = from THEN delegation[k].quantity ELSE 0)
          /\ \A o : ToIn(delegation', o) = ToIn(delegation, o)
                      - (IF o = to THEN delegation[k].quantity ELSE 0)
      BY <1>1, <1>3, <3>1, DelegationDrop
    <3>3. \A o : CountIn(DOMAIN delegation', o) =
                   CountIn(DOMAIN delegation, o) - (IF o = to THEN 1 ELSE 0)
      BY <1>1, <1>3, <3>1, CountDrop
    <3>4. IsFiniteSet(DOMAIN delegation')
      BY <1>3, <3>1, FS_RemoveElement
    <3> QED BY <2>0, <2>1, <3>2, <3>3, <3>4
  <2>2. CASE ~erasing
    <3>1. delegation' = [delegation EXCEPT ![k].quantity = @ - q]
      BY <2>2 DEF undelegate
    <3>2. DOMAIN delegation[k] = {"quantity", "min_delegation_time"}
      BY <1>1, RecordFacts
    <3> DEFINE n == 0 - q
    <3>3. /\ n \in Int /\ DOMAIN delegation' = DOMAIN delegation
          /\ \A d \in DOMAIN delegation \ {k} : delegation'[d] = delegation[d]
          /\ delegation'[k].quantity = delegation[k].quantity - q
          /\ delegation'[k].quantity = delegation[k].quantity + n
      BY <1>1, <3>1, <3>2
    <3> HIDE DEF n
    <3>4. /\ DOMAIN delegation' = DOMAIN delegation \union {k}
          /\ \A d \in DOMAIN delegation \ {k} :
               delegation'[d].quantity = delegation[d].quantity
          /\ delegation'[k].quantity =
               (IF k \in DOMAIN delegation THEN delegation[k].quantity ELSE 0)
                 + n
      BY <1>1, <3>3
    <3>5. /\ \A o : ByIn(delegation', o) =
                      ByIn(delegation, o) + (IF o = from THEN n ELSE 0)
          /\ \A o : ToIn(delegation', o) =
                      ToIn(delegation, o) + (IF o = to THEN n ELSE 0)
      <4>1. /\ \A d \in DOMAIN delegation : delegation[d].quantity \in Int
            /\ IsFiniteSet(DOMAIN delegation) /\ n \in Int
        BY <1>3, <3>3
      <4> HIDE DEF k, erasing
      <4> QED BY <3>4, <4>1, DelegationPut DEF k
    <3>6. IsFiniteSet(DOMAIN delegation')
      BY <1>3, <3>3
    <3>7. /\ \A o : ByIn(delegation', o) =
                      ByIn(delegation, o) - (IF o = from THEN q ELSE 0)
          /\ \A o : ToIn(delegation', o) =
                      ToIn(delegation, o) - (IF o = to THEN q ELSE 0)
      BY <1>1, <2>0, <3>5 DEF n
    <3>8. \A o : CountIn(DOMAIN delegation', o) = CountIn(DOMAIN delegation, o)
                   - (IF o = to /\ erasing THEN 1 ELSE 0)
      BY <1>3, <2>2, <3>3
    <3> QED BY <2>0, <3>6, <3>7, <3>8
  <2> QED BY <2>1, <2>2
<1> HIDE DEF erasing
<1>5. /\ \A o : BackIn(rdelegation', o) =
                  BackIn(rdelegation, o) + (IF o = from THEN q ELSE 0)
      /\ \A o : BackIn(rdelegation, o) \in Int
      /\ IsFiniteSet(DOMAIN rdelegation')
  <2>1. /\ DOMAIN rdelegation' = DOMAIN rdelegation \union {id}
        /\ id \notin DOMAIN rdelegation
        /\ \A r \in DOMAIN rdelegation : rdelegation'[r] = rdelegation[r]
        /\ rdelegation'[id].quantity = q
        /\ rdelegation'[id].delegator = from
    <3>1. id \notin DOMAIN rdelegation
      <4>1. id \in Nat /\ \A r \in DOMAIN rdelegation : r < id
        BY WidthAssumption DEF undelegate, NextId
      <4> QED BY <4>1
    <3> QED BY <3>1 DEF undelegate, Put
  <2>2. /\ rdelegation'[id].quantity \in Int
        /\ \A r \in DOMAIN rdelegation : rdelegation[r].quantity \in Int
                                         /\ rdelegation'[r] = rdelegation[r]
    BY <1>1, <2>1, RecordFacts
  <2>3. \A o : /\ BackIn(rdelegation', o) = BackIn(rdelegation, o)
                    + (IF o = rdelegation'[id].delegator
                       THEN rdelegation'[id].quantity ELSE 0)
               /\ BackIn(rdelegation, o) \in Int
    BY <1>3, <2>1, <2>2, ReturnPut
  <2>4. IsFiniteSet(DOMAIN rdelegation')
    BY <1>3, <2>1, FS_AddElement
  <2> QED BY <2>1, <2>3, <2>4
<1>6. BooksOf(accounts', delegation', rdelegation')
  <2> SUFFICES ASSUME NEW o \in Account
               PROVE  /\ RowIn(accounts', o).delegated =
                           ByIn(delegation', o) + BackIn(rdelegation', o)
                      /\ RowIn(accounts', o).received = ToIn(delegation', o)
                      /\ RowIn(accounts', o).delegators =
                           CountIn(DOMAIN delegation', o)
    BY DEF BooksOf
  <2>1. /\ RowIn(accounts, o).delegated =
             ByIn(delegation, o) + BackIn(rdelegation, o)
        /\ RowIn(accounts, o).received = ToIn(delegation, o)
        /\ RowIn(accounts, o).delegators = CountIn(DOMAIN delegation, o)
    BY RecordFacts DEF BooksOf
  <2>2. /\ RowIn(accounts', o).delegated = RowIn(accounts, o).delegated
        /\ RowIn(accounts', o).received =
             RowIn(accounts, o).received - (IF o = to THEN q ELSE 0)
        /\ RowIn(accounts', o).delegators = RowIn(accounts, o).delegators
             - (IF o = to /\ erasing THEN 1 ELSE 0)
    <3>1. CASE o \in DOMAIN accounts
      <4>1. accounts[o] \in AccountType
        BY <3>1, RecordFacts
      <4>2. /\ RowIn(accounts', o) = accounts'[o]
            /\ RowIn(accounts, o) = accounts[o]
            /\ accounts[o].delegated \in Int /\ accounts[o].received \in Int
            /\ accounts[o].delegators \in Int
        BY <1>2, <3>1, <4>1 DEF RowIn, AccountType
      <4> QED BY <1>1, <1>2, <3>1, <4>2
    <3>2. CASE o \notin DOMAIN accounts
      BY <1>1, <1>2, <3>2 DEF RowIn, NewRow
    <3> QED BY <3>1, <3>2
  <2> QED BY <1>1, <1>3, <1>4, <1>5, <2>1, <2>2
<1>7. DelegationBooks'
  BY <1>6 DEF DelegationBooks, BooksOf, RowIn, ByIn, ToIn, BackIn, CountIn,
              DelegatedBy, DelegatedTo, ReturningTo
<1> QED BY <1>4, <1>5, <1>7 DEF DelegationInv

\* A return that matures settles the delegator's debt.
LEMMA ReturnBooks ==
  ASSUME DelegationInv, IInv', NEW id \in ReturnId, return_delegation(id)
  PROVE  DelegationInv'
<1> DEFINE a == rdelegation[id].delegator
           q == rdelegation[id].quantity
<1>1. /\ id \in DOMAIN rdelegation /\ q \in Int
      /\ a \in DOMAIN accounts /\ accounts[a] \in AccountType
      /\ delegation' = delegation
      /\ IsFiniteSet(DOMAIN rdelegation)
      /\ \A r \in DOMAIN rdelegation : rdelegation[r].quantity \in Int
  <2>1. id \in DOMAIN rdelegation
    BY DEF return_delegation, NextReturn, DelegationInv, IInv, RunSound
  <2>2. a \in DOMAIN accounts /\ delegation' = delegation
    BY DEF return_delegation, return_fails
  <2> QED BY <2>1, <2>2, RecordFacts
<1>2. /\ DOMAIN accounts' = DOMAIN accounts
      /\ \A y \in DOMAIN accounts \ {a} : accounts'[y] = accounts[y]
      /\ accounts'[a].delegated = accounts[a].delegated - q
      /\ accounts'[a].received = accounts[a].received
      /\ accounts'[a].delegators = accounts[a].delegators
  <2>1. accounts' = [accounts EXCEPT ![a].delegated = @ - q]
    BY DEF return_delegation
  <2> HIDE DEF a, q
  <2>2. /\ DOMAIN accounts' = DOMAIN accounts
        /\ \A y \in DOMAIN accounts \ {a} : accounts'[y] = accounts[y]
        /\ accounts'[a] = [accounts[a] EXCEPT !.delegated = @ - q]
    BY <1>1, <2>1
  <2>3. /\ accounts'[a].delegated = accounts[a].delegated - q
        /\ accounts'[a].received = accounts[a].received
        /\ accounts'[a].delegators = accounts[a].delegators
    BY <1>1, <2>2 DEF AccountType
  <2> QED BY <2>2, <2>3
<1>3. /\ DOMAIN rdelegation' = DOMAIN rdelegation \ {id}
      /\ \A r \in DOMAIN rdelegation' : rdelegation'[r] = rdelegation[r]
  BY DEF return_delegation, Drop
<1>4. \A o : /\ BackIn(rdelegation', o) =
                  BackIn(rdelegation, o) - (IF o = a THEN q ELSE 0)
             /\ BackIn(rdelegation, o) \in Int
  BY <1>1, <1>3, ReturnDrop
<1>5. IsFiniteSet(DOMAIN rdelegation')
  BY <1>1, <1>3, FS_RemoveElement
<1> HIDE DEF a, q
<1>6. BooksOf(accounts', delegation', rdelegation')
  <2> SUFFICES ASSUME NEW o \in Account
               PROVE  /\ RowIn(accounts', o).delegated =
                           ByIn(delegation, o) + BackIn(rdelegation', o)
                      /\ RowIn(accounts', o).received = ToIn(delegation, o)
                      /\ RowIn(accounts', o).delegators =
                           CountIn(DOMAIN delegation, o)
    BY <1>1 DEF BooksOf
  <2>1. /\ RowIn(accounts, o).delegated =
             ByIn(delegation, o) + BackIn(rdelegation, o)
        /\ RowIn(accounts, o).received = ToIn(delegation, o)
        /\ RowIn(accounts, o).delegators = CountIn(DOMAIN delegation, o)
        /\ ByIn(delegation, o) \in Int
    <3>1. /\ IsFiniteSet(DOMAIN delegation)
          /\ \A d \in DOMAIN delegation : delegation[d].quantity \in Int
      BY RecordFacts
    <3>2. ByIn(delegation, o) \in Int
      BY <3>1, SumsInt
    <3> QED BY <3>2, RecordFacts DEF BooksOf
  <2>2. /\ RowIn(accounts', o).delegated =
             RowIn(accounts, o).delegated - (IF o = a THEN q ELSE 0)
        /\ RowIn(accounts', o).received = RowIn(accounts, o).received
        /\ RowIn(accounts', o).delegators = RowIn(accounts, o).delegators
    <3>1. CASE o \in DOMAIN accounts
      <4>1. /\ RowIn(accounts', o) = accounts'[o]
            /\ RowIn(accounts, o) = accounts[o]
        BY <1>2, <3>1 DEF RowIn
      <4>2. accounts[o].delegated \in Int
        BY <3>1, RecordFacts DEF AccountType
      <4>3. CASE o = a
        BY <1>1, <1>2, <4>1, <4>2, <4>3
      <4>4. CASE o # a
        BY <1>2, <3>1, <4>1, <4>2, <4>4
      <4> QED BY <4>3, <4>4
    <3>2. CASE o \notin DOMAIN accounts
      BY <1>1, <1>2, <3>2 DEF RowIn, NewRow
    <3> QED BY <3>1, <3>2
  <2> QED BY <1>1, <1>4, <2>1, <2>2
<1>7. DelegationBooks'
  BY <1>6 DEF DelegationBooks, BooksOf, RowIn, ByIn, ToIn, BackIn, CountIn,
              DelegatedBy, DelegatedTo, ReturningTo
<1>8. IsFiniteSet(DOMAIN delegation')
  BY <1>1 DEF DelegationInv
<1> QED BY <1>5, <1>7, <1>8 DEF DelegationInv

\* What the loop's transaction found is saved, and stays as it was.
LEMMA SavedBooksStep ==
  ASSUME DelegationInv, SavedBooks, [Next]_vars
  PROVE  SavedBooks'
<1>1. CASE Starts
  <2>1. saved' = Snapshot /\ delegation' = delegation
    BY <1>1 DEF Starts, tables
  <2>2. saved'.rdelegation = rdelegation /\ saved'.accounts = accounts
    BY <2>1 DEF Snapshot
  <2> QED BY <2>1, <2>2, RecordFacts DEF SavedBooks
<1>2. CASE Inside
  BY <1>2 DEF Inside, SavedBooks
<1>3. CASE Calm'
  BY <1>3 DEF SavedBooks
<1>4. end_run \/ abort_run => Calm'
  BY DEF end_run, abort_run, Calm, Idle
<1> QED BY <1>1, <1>2, <1>3, <1>4, Phases DEF DelegationInv

\* An abort puts back balances and returns that agreed with the delegations.
LEMMA AbortBooks ==
  ASSUME DelegationInv, SavedBooks, IInv', abort_run
  PROVE  DelegationInv'
<1>1. /\ accounts' = saved.accounts /\ rdelegation' = saved.rdelegation
      /\ delegation' = delegation
  BY DEF abort_run
<1>2. /\ IsFiniteSet(DOMAIN saved.rdelegation)
      /\ BooksOf(saved.accounts, delegation, saved.rdelegation)
  BY AbortRuns DEF SavedBooks
<1>3. BooksOf(accounts', delegation', rdelegation')
  BY <1>1, <1>2
<1>4. DelegationBooks'
  BY <1>3 DEF DelegationBooks, BooksOf, RowIn, ByIn, ToIn, BackIn, CountIn,
              DelegatedBy, DelegatedTo, ReturningTo
<1> QED BY <1>1, <1>2, <1>4 DEF DelegationInv

\* Every step keeps balances and records together.
LEMMA DelegationStep ==
  ASSUME DelegationInv, SavedBooks, [Next]_vars
  PROVE  DelegationInv'
<1>0. IInv'
  BY IInvStep DEF DelegationInv
<1>1. CASE \/ create
           \/ \E p \in ParamSets : setparams(p)
           \/ \E q \in Deposit : issuer_transfer(q) \/ issuer_bulk_transfer(q)
           \/ procwaiting \/ deferred_procwaiting
           \/ begin_returns \/ end_run
           \/ Tick \/ DeferredLost
           \/ \E a \in Fickle : ToggleTokenRow(a)
           \/ \E o \in Account : stopwithdraw(o) \/ drop_withdrawal(o)
           \/ \E o, to \in Account, q \in 1..MaxSupply : withdraw(o, to, q)
           \/ UNCHANGED vars
  <2>1. UNCHANGED <<accounts, delegation, rdelegation>>
    BY <1>1 DEF create, setparams, issuer_transfer, issuer_bulk_transfer,
       procwaiting, deferred_procwaiting, begin_returns, end_run, Tick,
       DeferredLost, ToggleTokenRow, stopwithdraw, drop_withdrawal, withdraw,
       vars, tables
  <2> QED BY <1>0, <2>1, BooksKept
<1>2. CASE \/ \E o \in Account : open(o) \/ pay_withdrawal(o)
           \/ \E o \in Account, q \in Deposit : on_transfer(o, q)
           \/ \E o1, o2 \in Account, q1, q2 \in Deposit :
                on_bulk_transfer(o1, q1, o2, q2)
           \/ \E o \in Account, q \in 1..MaxSupply : retire(o, q)
           \/ \E o \in Account, q \in Limit : unlocklimit(o, q)
  BY <1>0, <1>2, SharesBooks
<1>3. CASE \E o \in Account : close(o)
  BY <1>0, <1>3, CloseBooks
<1>4. CASE \E from, to \in Account, q \in 1..MaxSupply, c \in ChargeLevel :
             delegate(from, to, q, c)
  BY <1>0, <1>4, DelegateBooks
<1>5. CASE \E from, to \in Account, q \in (-MaxAmount)..MaxAmount,
             id \in ReturnId : undelegate(from, to, q, id)
  BY <1>0, <1>5, UndelegateBooks
<1>6. CASE \E id \in ReturnId : return_delegation(id)
  BY <1>0, <1>6, ReturnBooks
<1>7. CASE abort_run
  BY <1>0, <1>7, AbortBooks
<1> QED BY <1>1, <1>2, <1>3, <1>4, <1>5, <1>6, <1>7 DEF Next, Step, RunStep

\* At first there are no records.
LEMMA InitDelegation == Init => DelegationInv /\ SavedBooks
<1> SUFFICES ASSUME Init PROVE DelegationInv /\ SavedBooks
  OBVIOUS
<1>1. DOMAIN accounts = {} /\ DOMAIN delegation = {} /\ DOMAIN rdelegation = {}
  BY DEF Init, EmptyTable
<1>2. \A o : ByIn(delegation, o) = 0 /\ ToIn(delegation, o) = 0
             /\ BackIn(rdelegation, o) = 0
  <2> TAKE o
  <2> DEFINE f == [d \in DOMAIN delegation |->
                     IF d[1] = o THEN delegation[d].quantity ELSE 0]
             g == [d \in DOMAIN delegation |->
                     IF d[2] = o THEN delegation[d].quantity ELSE 0]
             h == [r \in DOMAIN rdelegation |->
                     IF rdelegation[r].delegator = o
                     THEN rdelegation[r].quantity ELSE 0]
  <2>1. DOMAIN f = {} /\ DOMAIN g = {} /\ DOMAIN h = {}
    BY <1>1
  <2> HIDE DEF f, g, h
  <2>2. Total(f) = 0 /\ Total(g) = 0 /\ Total(h) = 0
    BY <2>1, TotalEmpty
  <2> QED BY <2>2 DEF ByIn, ToIn, BackIn, f, g, h
<1>3. \A o : CountIn(DOMAIN delegation, o) = 0
  <2> TAKE o
  <2>1. {d \in DOMAIN delegation : d[2] = o} = {}
    BY <1>1
  <2> QED BY <2>1, FS_EmptySet DEF CountIn
<1>4. BooksOf(accounts, delegation, rdelegation)
  BY <1>1, <1>2, <1>3 DEF BooksOf, RowIn, NewRow
<1>5. SavedBooks
  BY DEF Init, Idle, Calm, SavedBooks
<1> QED BY <1>1, <1>4, <1>5, BooksAre, FS_EmptySet, InitIInv
        DEF DelegationInv

\* Balances and records agree in every reachable state.
LEMMA DelegationInvariance == Spec => [](DelegationInv /\ SavedBooks)
<1>1. DelegationInv /\ SavedBooks /\ [Next]_vars
        => (DelegationInv /\ SavedBooks)'
  BY DelegationStep, SavedBooksStep
<1> QED BY <1>1, InitDelegation, PTL DEF Spec

\* For any accounts, delegations, returns and amounts, negative returns and
\* aborted loops among them, what each account is said to have delegated and
\* received, and the number of its delegators, are what the records of
\* delegation and return add up to.
THEOREM BooksStayBalanced == Spec => []DelegationBooks
<1>1. DelegationInv => DelegationBooks
  BY DEF DelegationInv
<1> QED BY <1>1, DelegationInvariance, PTL

----------------------------------------------------------------------------
(* What can abort the payout loop *)

\* A withdrawal of the loop is whole, and only grown can make it overdraw.
LEMMA PayoutHolds ==
  ASSUME IInv, run.phase = "withdraws", NEW o \in run.todo
  PROVE  /\ o \in DOMAIN withdrawal
         /\ ~must_not_happen(o)
         /\ available_vesting(accounts[o]) + grown[o] >= to_send(o)
<1>1. o \in DOMAIN withdrawal
  BY DEF IInv, RunSound
<1>2. /\ o \in DOMAIN accounts
      /\ withdrawal[o].withdraw_rate <= withdrawal[o].to_withdraw
      /\ to_send(o) \in Nat /\ to_send(o) > 0
      /\ to_send(o) <= accounts[o].vesting
      /\ accounts[o].delegated + to_send(o) <= accounts[o].vesting + grown[o]
      /\ withdrawal[o] \in WithdrawalType
  BY <1>1, WithdrawalFacts
<1>3. /\ accounts[o].vesting \in Nat /\ accounts[o].delegated \in Nat
      /\ grown[o] \in Nat
  BY <1>2, AccountFacts
<1>4. available_vesting(accounts[o]) + grown[o] >= to_send(o)
  BY <1>2, <1>3 DEF available_vesting
<1>5. ~must_not_happen(o)
  BY <1>1, <1>2, <1>3
  DEF must_not_happen, IInv, WithdrawalsSound, WithdrawalType
<1> QED BY <1>1, <1>4, <1>5

\* A delegator all of whose returns are positive has delegated, in an account
\* that it cannot have closed, what each of them takes.
LEMMA ReturnHolds ==
  ASSUME DelegationInv, NEW id \in DOMAIN rdelegation,
         \A r \in DOMAIN rdelegation :
           rdelegation[r].delegator = rdelegation[id].delegator
             => rdelegation[r].quantity >= 0
  PROVE  ~return_fails(id)
<1> DEFINE a == rdelegation[id].delegator
           q == rdelegation[id].quantity
           f == [r \in DOMAIN rdelegation |->
                   IF rdelegation[r].delegator = a
                   THEN rdelegation[r].quantity ELSE 0]
           g == [d \in DOMAIN delegation |->
                   IF d[1] = a THEN delegation[d].quantity ELSE 0]
<1>1. rdelegation[id] \in ReturnType
  BY DEF DelegationInv, IInv, TypeOK, IsTable
<1>2. a \in Account /\ q \in Nat /\ q > 0
  <2>1. a \in Account /\ q \in Int \ {0}
    BY <1>1 DEF ReturnType
  <2> QED BY <2>1
<1>3. /\ DOMAIN f = DOMAIN rdelegation /\ f[id] = q
      /\ \A r \in DOMAIN f : f[r] \in Nat
      /\ DOMAIN g = DOMAIN delegation
      /\ \A d \in DOMAIN g : g[d] \in Nat
  BY RecordFacts
<1>4. RowIn(accounts, a).delegated = Total(g) + Total(f)
  BY <1>2, RecordFacts DEF BooksOf, ByIn, BackIn
<1> HIDE DEF a, q, f, g
<1>5. Total(g) \in Nat /\ Total(f) \in Nat /\ q <= Total(f)
  <2>1. IsFiniteSet(DOMAIN f) /\ IsFiniteSet(DOMAIN g)
    BY <1>3, RecordFacts
  <2> QED BY <1>3, <2>1, TotalNat, TotalPart
<1>6. a \in DOMAIN accounts
  <2> SUFFICES ASSUME a \notin DOMAIN accounts PROVE FALSE
    OBVIOUS
  <2>1. RowIn(accounts, a).delegated = 0
    BY DEF RowIn, NewRow
  <2> QED BY <1>2, <1>4, <1>5, <2>1
<1>7. /\ accounts[a].delegated >= q
      /\ accounts[a].delegated - q <= MaxAmount
  <2>1. accounts[a].delegated = Total(g) + Total(f)
    BY <1>4, <1>6 DEF RowIn
  <2>2. accounts[a].delegated \in Nat /\ accounts[a].delegated <= MaxAmount
    BY <1>6, AccountFacts DEF DelegationInv
  <2> QED BY <1>2, <1>5, <2>1, <2>2, WidthAssumption
<1>8. accounts[a].delegated \in Nat
  BY <1>6, AccountFacts DEF DelegationInv
<1> QED BY <1>2, <1>6, <1>7, <1>8, WidthAssumption DEF return_fails, a, q

\* For any accounts, parameters and amounts, the loop meets no withdrawal that
\* is broken; a payout overdraws by no more than matured negative returns have
\* grown what its account has delegated; and a check of a return fails for no
\* delegator but one that has a negative return pending.
THEOREM OnlyNegativeReturnsAbort == Spec => []AbortsNeedNegativeReturns
<1>1. DelegationInv => AbortsNeedNegativeReturns
  <2> SUFFICES ASSUME DelegationInv PROVE AbortsNeedNegativeReturns
    OBVIOUS
  <2>1. ASSUME run.phase = "withdraws", NEW o \in run.todo
        PROVE  /\ o \in DOMAIN withdrawal
               /\ ~must_not_happen(o)
               /\ available_vesting(accounts[o]) + grown[o] >= to_send(o)
    BY <2>1, PayoutHolds DEF DelegationInv
  <2>2. ASSUME run.phase = "returns", NEW id \in run.todo
        PROVE  /\ id \in DOMAIN rdelegation
               /\ return_fails(id) =>
                    \E r \in DOMAIN rdelegation :
                      /\ rdelegation[r].delegator = rdelegation[id].delegator
                      /\ rdelegation[r].quantity < 0
    <3>1. id \in DOMAIN rdelegation
      BY <2>2 DEF DelegationInv, IInv, RunSound
    <3>2. \A r \in DOMAIN rdelegation :
            rdelegation[r].quantity >= 0 \/ rdelegation[r].quantity < 0
      BY RecordFacts
    <3> QED BY <3>1, <3>2, ReturnHolds
  <2> QED BY <2>1, <2>2 DEF AbortsNeedNegativeReturns
<1> QED BY <1>1, DelegationInvariance, PTL
=============================================================================
