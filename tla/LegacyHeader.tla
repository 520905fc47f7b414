---------------------------- MODULE LegacyHeader ----------------------------
(***************************************************************************)
(* The wallet slot of the legacy header: what WalletController keeps, the  *)
(* events it dispatches, and what the header renders on each.  Listeners   *)
(* run inside dispatch, so the slot shows the controller as it is at that  *)
(* moment.  The service behind the controller is that of WalletSession;    *)
(* the rest of the page is ProductStream.                                  *)
(***************************************************************************)
EXTENDS ProductStream

CONSTANTS
    Address, NoAddress,
    MaxDisconnects  \* bound on the disconnects under way

ASSUME AddressAssumption == NoAddress \notin Address

VARIABLES
    current,        \* #session, by its address
    isConnecting,
    lastError,      \* whether there is one
    slot,           \* what is rendered: an address, or the button and an error
    connects,       \* calls of connect that wait for the provider
    disconnects     \* calls of disconnect that do

headerVars == <<current, isConnecting, lastError, slot, connects, disconnects>>

\* renderWallet.
Rendered(address, connecting, error) ==
    IF address # NoAddress THEN [address |-> address, disabled |-> FALSE, error |-> FALSE]
    ELSE [address |-> NoAddress, disabled |-> connecting, error |-> error]

\* mountApp, with its restore: no SDK is loaded yet, so that a stored session is
\* dropped; what is stored may also be no JSON.
HeaderInit ==
    /\ current = NoAddress /\ isConnecting = FALSE /\ lastError \in BOOLEAN
    /\ slot = Rendered(NoAddress, FALSE, lastError)
    /\ connects = 0 /\ disconnects = 0

\* wallet-connecting is dispatched after the state is entered.
ClickConnect ==
    /\ slot.address = NoAddress /\ ~slot.disabled
    /\ isConnecting' = TRUE /\ lastError' = FALSE
    /\ slot' = Rendered(current, TRUE, FALSE)
    /\ connects' = connects + 1
    /\ UNCHANGED <<current, disconnects>>

\* wallet-changed is dispatched with the session; finally leaves the state.
ConnectSucceeds(a) ==
    /\ connects > 0
    /\ current' = a
    /\ slot' = Rendered(a, TRUE, lastError)
    /\ isConnecting' = FALSE
    /\ connects' = connects - 1
    /\ UNCHANGED <<lastError, disconnects>>

\* wallet-error is dispatched in the catch, before finally: the button it renders is
\* the one of the connecting state, and no event follows.
ConnectRejected ==
    /\ connects > 0
    /\ current' = NoAddress /\ lastError' = TRUE
    /\ slot' = Rendered(NoAddress, TRUE, TRUE)
    /\ isConnecting' = FALSE
    /\ connects' = connects - 1
    /\ UNCHANGED disconnects

ClickDisconnect ==
    /\ slot.address # NoAddress
    /\ disconnects < MaxDisconnects
    /\ disconnects' = disconnects + 1
    /\ UNCHANGED <<current, isConnecting, lastError, slot, connects>>

Disconnects ==
    /\ disconnects > 0
    /\ disconnects' = disconnects - 1
    /\ current' = NoAddress /\ lastError' = FALSE
    /\ slot' = Rendered(NoAddress, isConnecting, FALSE)
    /\ UNCHANGED <<isConnecting, connects>>

\* The provider throws: nobody catches it and nothing is dispatched.
DisconnectRejected ==
    /\ disconnects > 0
    /\ disconnects' = disconnects - 1
    /\ UNCHANGED <<current, isConnecting, lastError, slot, connects>>

HeaderNext ==
    \/ ClickConnect \/ ConnectRejected \/ \E a \in Address : ConnectSucceeds(a)
    \/ ClickDisconnect \/ Disconnects \/ DisconnectRejected

----------------------------------------------------------------------------
(* Properties *)

\* The slot shows the controller's session and error, connects never overlap, and the
\* button is disabled while one is under way.  At other times it is disabled only after
\* a connect that failed, and nothing but a late disconnect enables it again.
SlotInStep ==
    /\ slot.address = current
    /\ current = NoAddress => slot.error = lastError
    /\ connects = IF isConnecting THEN 1 ELSE 0
    /\ isConnecting => current = NoAddress /\ slot.disabled
    /\ slot.disabled /\ ~isConnecting => lastError

\* The legacy page shows the search that was asked for last and the wallet as its
\* controller has it.
LegacyPageInStep == ResultsOfLatest /\ SlotInStep

=============================================================================
