------------------------------- MODULE Consoles -------------------------------
(***************************************************************************)
(* Interactive consoles: one-time tickets (kvm.rs console, serial_console,  *)
(* mint_ticket, redeem_ticket; lxc.rs console, redeem_console_ticket), the  *)
(* websocket endpoints that redeem them (api/vms.rs, api/containers.rs) and *)
(* the bridge between browser and guest (proxy_vnc, proxy_console,          *)
(* command.rs console_attach, and the broker's console streams).            *)
(*                                                                          *)
(* VNC displays and serial ptys are numbered by the host: libvirt gives a   *)
(* domain the lowest free number when it starts.  A ticket holds the number *)
(* that was resolved when it was minted; a container's console is named by  *)
(* the container.                                                           *)
(***************************************************************************)
EXTENDS Naturals, FiniteSets

CONSTANTS ConVms, ConCts,   \* guests
          Tickets,          \* ids that new_id may hand out
          TicketTtl,        \* TICKET_TTL in ticks
          MaxConTime, MaxStarts

VARIABLES display,    \* [guests -> host number of the running guest, or Off]
          tickets,    \* [Tickets -> ticket or NoTicket]
          issued,     \* tickets that have been handed out: the guest each was for, and when
          sessions,   \* [Tickets -> the bridge a ticket has opened]
          conNow, starts

convars == <<display, tickets, issued, sessions, conNow, starts>>

ConGuests == ConVms \cup ConCts
Off == 0
NoTicket == [guest |-> "none", kind |-> "none", addr |-> Off, expires |-> 0]
NotIssued == [guest |-> "none", at |-> 0]
NoSession == [pc |-> "none", guest |-> "none", kind |-> "none", addr |-> Off,
              reached |-> "none", count |-> 0, opened |-> 0, browser |-> "gone", far |-> "closed"]

\* guests have names, and "none" stands for the absence of one
ASSUME ConAssumption == "none" \notin ConGuests /\ TicketTtl \in Nat

Kinds(g) == IF g \in ConVms THEN {"vnc", "serial"} ELSE {"container"}

ConInit ==
    /\ display = [g \in ConGuests |-> Off]
    /\ tickets = [t \in Tickets |-> NoTicket]
    /\ issued = [t \in Tickets |-> NotIssued]
    /\ sessions = [t \in Tickets |-> NoSession]
    /\ conNow = 0 /\ starts = 0

\* external: a guest starts on the lowest free display, and stops
GuestStarts(g) ==
    /\ display[g] = Off /\ starts < MaxStarts
    /\ starts' = starts + 1
    /\ LET inUse == {display[h] : h \in ConVms}
           free == {n \in 1..(Cardinality(ConVms) + 1) : n \notin inUse}
       IN display' = [display EXCEPT ![g] = CHOOSE n \in free : \A k \in free : n <= k]
    /\ UNCHANGED <<tickets, issued, sessions, conNow>>

\* external: what the guest's end of an open bridge sees when the guest stops
GuestStops(g) ==
    /\ display[g] # Off
    /\ display' = [display EXCEPT ![g] = Off]
    /\ sessions' = [t \in Tickets |->
                      IF sessions[t].reached = g THEN [sessions[t] EXCEPT !.far = "closed"]
                      ELSE sessions[t]]
    /\ UNCHANGED <<tickets, issued, conNow, starts>>

\* mint_ticket: expired tickets are dropped, the new one is inserted
Mint(g, kind) ==
    /\ display[g] # Off
    /\ \E t \in {x \in Tickets : issued[x] = NotIssued} :
         /\ tickets' = [x \in Tickets |->
                          IF x = t THEN [guest |-> g, kind |-> kind, addr |-> display[g],
                                         expires |-> conNow + TicketTtl]
                          ELSE IF tickets[x].expires > conNow THEN tickets[x] ELSE NoTicket]
         /\ issued' = [issued EXCEPT ![t] = [guest |-> g, at |-> conNow]]
    /\ UNCHANGED <<display, sessions, conNow, starts>>

\* mistake: a ticket is taken as long as it is in the map, from which the next mint drops it
Redeemable_Expired(t, g) == tickets[t].guest = g

\* the match of redeem_ticket and redeem_console_ticket; VMs and containers have their own maps
Redeemable(t, g) ==
    /\ tickets[t].guest = g
    /\ tickets[t].expires > conNow

\* tickets.remove
Consumed(t) == [tickets EXCEPT ![t] = NoTicket]

\* console_ws, serial_console_ws: a ticket of the other kind is consumed and refused
RedeemWrongKind(t, g, kind) ==
    /\ g \in ConVms /\ kind \in Kinds(g)
    /\ Redeemable(t, g) /\ tickets[t].kind # kind
    /\ tickets' = Consumed(t)
    /\ UNCHANGED <<display, issued, sessions, conNow, starts>>

Redeem(t, g, kind) ==
    /\ kind \in Kinds(g)
    /\ Redeemable(t, g) /\ tickets[t].kind = kind
    /\ tickets' = Consumed(t)
    /\ sessions' = [sessions EXCEPT ![t] =
                      [NoSession EXCEPT !.pc = "attach", !.guest = g, !.kind = kind,
                         !.addr = tickets[t].addr, !.count = sessions[t].count + 1,
                         !.opened = conNow, !.browser = "open"]]
    /\ UNCHANGED <<display, issued, conNow, starts>>

\* who answers at the address the ticket holds
Listener(a) == {g \in ConVms : display[g] = a}

\* TcpStream::connect, console_attach: whoever has the number now, if anyone
Attach(t) ==
    /\ sessions[t].pc = "attach" /\ sessions[t].kind # "container"
    /\ \E g \in Listener(sessions[t].addr) :
         sessions' = [sessions EXCEPT ![t].pc = "bridge", ![t].reached = g, ![t].far = "open"]
    /\ UNCHANGED <<display, tickets, issued, conNow, starts>>

\* lxc_console_attach: lxc-console on the container of that name
AttachContainer(t) ==
    /\ sessions[t].pc = "attach" /\ sessions[t].kind = "container"
    /\ display[sessions[t].guest] # Off
    /\ sessions' = [sessions EXCEPT ![t].pc = "bridge", ![t].far = "open",
                                    ![t].reached = sessions[t].guest]
    /\ UNCHANGED <<display, tickets, issued, conNow, starts>>

\* nobody answers: the browser's socket is closed
AttachFails(t) ==
    /\ sessions[t].pc = "attach"
    /\ \/ sessions[t].kind # "container" /\ Listener(sessions[t].addr) = {}
       \/ sessions[t].kind = "container" /\ display[sessions[t].guest] = Off
    /\ sessions' = [sessions EXCEPT ![t].pc = "ended", ![t].browser = "gone"]
    /\ UNCHANGED <<display, tickets, issued, conNow, starts>>

BrowserCloses(t) ==
    /\ sessions[t].pc = "bridge" /\ sessions[t].browser = "open"
    /\ sessions' = [sessions EXCEPT ![t].browser = "gone"]
    /\ UNCHANGED <<display, tickets, issued, conNow, starts>>

\* select!: one pump at its end ends the bridge
BridgeDone(s) == s.browser = "gone" \/ s.far = "closed"

\* the halves are dropped: the browser's socket and the broker connection close
BridgeEnds(t) ==
    /\ sessions[t].pc = "bridge" /\ BridgeDone(sessions[t])
    /\ sessions' = [sessions EXCEPT ![t].pc = IF sessions[t].far = "open" THEN "detach" ELSE "ended",
                                    ![t].browser = "gone"]
    /\ UNCHANGED <<display, tickets, issued, conNow, starts>>

\* the broker's loop notices at the next output, which it cannot send, or at the idle
\* deadline, and kills what it holds
BrokerDetaches(t) ==
    /\ sessions[t].pc = "detach"
    /\ sessions' = [sessions EXCEPT ![t].pc = "ended", ![t].far = "closed"]
    /\ UNCHANGED <<display, tickets, issued, conNow, starts>>

ConTick ==
    /\ conNow < MaxConTime
    /\ conNow' = conNow + 1
    /\ UNCHANGED <<display, tickets, issued, sessions, starts>>

BridgeStep(t) == Attach(t) \/ AttachContainer(t) \/ AttachFails(t) \/ BridgeEnds(t) \/ BrokerDetaches(t)

ConNext ==
    \/ \E g \in ConGuests : GuestStarts(g) \/ GuestStops(g)
    \/ \E g \in ConGuests : \E k \in Kinds(g) : Mint(g, k)
    \/ \E t \in Tickets, g \in ConGuests : \E k \in Kinds(g) :
         RedeemWrongKind(t, g, k) \/ Redeem(t, g, k)
    \/ \E t \in Tickets : BridgeStep(t) \/ BrowserCloses(t)
    \/ ConTick

ConSpec == ConInit /\ [][ConNext]_convars

-----------------------------------------------------------------------------
(* A ticket opens at most one bridge, for the guest it was minted for and   *)
(* less than TICKET_TTL after it was minted, whatever the order of mints,   *)
(* redemptions and restarts of guests; and once it has, it is gone ("One-   *)
(* time: the ticket is removed on success", kvm.rs redeem_ticket).          *)
TicketOpensOnce ==
    \A t \in Tickets : sessions[t].count > 0 =>
        /\ sessions[t].count = 1
        /\ sessions[t].guest = issued[t].guest
        /\ sessions[t].opened < issued[t].at + TicketTtl
        /\ tickets[t] = NoTicket
=============================================================================
