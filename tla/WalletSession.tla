---------------------------- MODULE WalletSession ----------------------------
(***************************************************************************)
(* The browser wallet: WalletSessionService over its connector and its     *)
(* session store, the WalletController that wraps it, and the state the    *)
(* React header shows of it.                                               *)
(*                                                                         *)
(* A click runs to the first answer it needs of the wallet provider; calls *)
(* of connect and disconnect whose answer is missing are counted, because  *)
(* the page lets several be under way.  The provider is external: it       *)
(* answers with the account that is selected in it, refuses, or takes its  *)
(* time.                                                                   *)
(***************************************************************************)
EXTENDS Integers

CONSTANTS
    Account, NoAccount,
    MaxCalls    \* bound on the calls under way

ASSUME AccountAssumption == NoAccount \notin Account
ASSUME CallsAssumption == MaxCalls \in Nat \ {0}

VARIABLES
    selected,   \* the account selected in the provider
    stored,     \* the session in localStorage, by its address
    session,    \* #session of the service
    controlled, \* #session of the controller
    sdk,        \* the connector holds the SDK
    loading,    \* connect calls that load the SDK
    asking,     \* connect calls that wait for the provider
    leaving,    \* disconnect calls that wait for the provider
    shown,      \* the address in the header
    connecting  \* whether its button is disabled

calls == <<loading, asking, leaving>>
wallet == <<selected, stored, session, controlled, sdk, calls, shown, connecting>>

WalletInit ==
    /\ selected \in Account
    /\ stored = NoAccount /\ session = NoAccount /\ controlled = NoAccount
    /\ sdk = FALSE
    /\ loading = 0 /\ asking = 0 /\ leaving = 0
    /\ shown = NoAccount /\ connecting = FALSE

Show(a) == shown' = a /\ connecting' = FALSE

\* The button is there while no address is shown.
Connect ==
    /\ shown = NoAccount /\ ~connecting
    /\ loading + asking + leaving < MaxCalls
    /\ connecting' = TRUE
    /\ IF sdk THEN asking' = asking + 1 /\ UNCHANGED loading
              ELSE loading' = loading + 1 /\ UNCHANGED asking
    /\ UNCHANGED <<selected, stored, session, controlled, sdk, leaving, shown>>

LoadSdk ==
    /\ loading > 0
    /\ loading' = loading - 1
    /\ asking' = asking + 1
    /\ sdk' = TRUE
    /\ UNCHANGED <<selected, stored, session, controlled, leaving, shown, connecting>>

\* The account is saved before it becomes the session.
FaultyConnected ==
    /\ asking > 0
    /\ asking' = asking - 1
    /\ session' = selected /\ controlled' = selected
    /\ Show(selected)
    /\ UNCHANGED <<selected, stored, sdk, loading, leaving>>
Connected ==
    /\ asking > 0
    /\ asking' = asking - 1
    /\ stored' = selected /\ session' = selected /\ controlled' = selected
    /\ Show(selected)
    /\ UNCHANGED <<selected, sdk, loading, leaving>>

\* The SDK does not load, or the user turns the request down.  The controller and
\* the header forget their session, the service keeps its own.
ConnectFails ==
    /\ \/ loading > 0 /\ loading' = loading - 1 /\ UNCHANGED asking
       \/ asking > 0 /\ asking' = asking - 1 /\ UNCHANGED loading
    /\ controlled' = NoAccount
    /\ Show(NoAccount)
    /\ UNCHANGED <<selected, stored, session, sdk, leaving>>

\* The service forgets the session before it asks the provider.
Disconnect ==
    /\ shown # NoAccount
    /\ loading + asking + leaving < MaxCalls
    /\ stored' = NoAccount /\ session' = NoAccount
    /\ leaving' = leaving + 1
    /\ UNCHANGED <<selected, controlled, sdk, loading, asking, shown, connecting>>

Disconnected ==
    /\ leaving > 0
    /\ leaving' = leaving - 1
    /\ sdk' = FALSE
    /\ controlled' = NoAccount
    /\ Show(NoAccount)
    /\ UNCHANGED <<selected, stored, session, loading, asking>>

\* The provider throws: the SDK and the controller's session stay.
DisconnectFails ==
    /\ leaving > 0
    /\ leaving' = leaving - 1
    /\ Show(NoAccount)
    /\ UNCHANGED <<selected, stored, session, controlled, sdk, loading, asking>>

SelectAccount(a) ==
    /\ selected # a
    /\ selected' = a
    /\ UNCHANGED <<stored, session, controlled, sdk, calls, shown, connecting>>

\* The page is loaded again.  Only localStorage is left, and the React app does
\* not restore from it.
ReloadWallet ==
    /\ session' = NoAccount /\ controlled' = NoAccount
    /\ sdk' = FALSE
    /\ loading' = 0 /\ asking' = 0 /\ leaving' = 0
    /\ Show(NoAccount)
    /\ UNCHANGED <<selected, stored>>

WalletNext ==
    \/ Connect \/ LoadSdk \/ Connected \/ ConnectFails
    \/ Disconnect \/ Disconnected \/ DisconnectFails
    \/ \E a \in Account : SelectAccount(a)

\* signTransaction reaches the provider with the account of the session.
CanSign == session # NoAccount /\ sdk

WalletTypeOK ==
    /\ selected \in Account
    /\ {stored, session, controlled, shown} \subseteq Account \cup {NoAccount}
    /\ sdk \in BOOLEAN /\ connecting \in BOOLEAN
    /\ {loading, asking, leaving} \subseteq Nat
    /\ loading + asking + leaving <= MaxCalls

\* What the header shows is what signs: while no disconnect is under way, the
\* address in the header is the service's session and the one that was saved,
\* although connects, disconnects and refusals overlap.
ShownIsSession ==
    shown # NoAccount /\ leaving = 0 => session = shown /\ stored = shown

=============================================================================
