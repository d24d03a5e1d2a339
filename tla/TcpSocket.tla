------------------------------ MODULE TcpSocket ------------------------------
(***************************************************************************)
(* The library's TCP socket as the MotionBuilder device uses it: created,  *)
(* connected to a host that may have several addresses or made to listen   *)
(* for clients, destroyed, and created again.                              *)
(***************************************************************************)
EXTENDS Integers, Sequences, SequencesExt, FiniteSets

CONSTANTS
    MaxAddresses,  \* the most addresses a host has
    MaxSockets     \* bound: sockets made

ASSUME SocketAssumption == MaxAddresses \in Nat \ {0} /\ MaxSockets \in Nat

VARIABLES
    m_socket,   \* SOCKET_NULL, INVALID_SOCKET, or the number of a socket
    made,       \* sockets made so far
    openSocks,  \* those the process has open
    current,    \* Connect: the address to try; 0 outside Connect
    host,       \* whether each address of the host takes the connection
    failures,   \* how often Connect has thrown
    listening,  \* is the socket listening?
    mClients    \* the device's: sockets of connections it took

connecting == <<current, host, failures>>
sockVars   == <<m_socket, made, openSocks, connecting, listening, mClients>>

SocketNull    == 0
InvalidSocket == -1

HasSocket == m_socket \notin {SocketNull, InvalidSocket}
Kept      == openSocks \ {m_socket}

SockInit ==
    /\ m_socket = SocketNull /\ made = 0 /\ openSocks = {} /\ failures = 0
    /\ current = 0 /\ host = <<>> /\ listening = FALSE /\ mClients = <<>>

\* MUTANT: the socket it has is not destroyed.
CreateSocketOver ==
    /\ current = 0 /\ made < MaxSockets /\ made' = made + 1
    /\ m_socket' = made' /\ openSocks' = openSocks \cup {made'}
    /\ listening' = FALSE /\ UNCHANGED <<connecting, mClients>>

\* Destroys the socket it has, and makes another, which may fail.
CreateSocket ==
    /\ current = 0 /\ made < MaxSockets /\ made' = made + 1
    /\ \/ m_socket' = made' /\ openSocks' = Kept \cup {m_socket'}
       \/ m_socket' = InvalidSocket /\ openSocks' = Kept
    /\ listening' = FALSE /\ UNCHANGED <<connecting, mClients>>

\* After a send that failed, or when the device stops.
DestroySocket ==
    /\ current = 0 /\ HasSocket
    /\ openSocks' = Kept /\ m_socket' = SocketNull
    /\ listening' = FALSE /\ UNCHANGED <<made, connecting, mClients>>

\* The host's addresses are looked up; if none is found nothing happens.
Connect ==
    /\ current = 0 /\ HasSocket /\ ~listening
    /\ \E n \in 1 .. MaxAddresses : host' \in [1 .. n -> BOOLEAN]
    /\ current' = 1 /\ UNCHANGED <<m_socket, made, openSocks, failures, listening, mClients>>

Connected ==
    /\ current # 0 /\ host[current] /\ current' = 0
    /\ UNCHANGED <<m_socket, made, openSocks, host, failures, listening, mClients>>

\* Whether there is another address, and which, is asked of the first.
TryNext ==
    /\ current # 0 /\ ~host[current] /\ Len(host) > 1 /\ current' = 2
    /\ UNCHANGED <<m_socket, made, openSocks, host, failures, listening, mClients>>

\* The socket is forgotten, not closed.
Refused ==
    /\ current # 0 /\ ~host[current] /\ Len(host) = 1 /\ current' = 0
    /\ m_socket' = InvalidSocket /\ failures' = failures + 1
    /\ UNCHANGED <<made, openSocks, host, listening, mClients>>

\* A Listen that throws, because the port cannot be had, leaves the socket.
Listen ==
    /\ current = 0 /\ HasSocket /\ ~listening /\ listening' = TRUE
    /\ UNCHANGED <<m_socket, made, openSocks, connecting, mClients>>

\* Each notification takes one connection, if there is one.
Accept ==
    /\ listening /\ made < MaxSockets /\ made' = made + 1
    /\ openSocks' = openSocks \cup {made'} /\ mClients' = Append(mClients, made')
    /\ UNCHANGED <<m_socket, connecting, listening>>

\* A client whose frame could not be written is closed and forgotten.  The others
\* stay, over the stop and start of the device too.
ClientBreaks(i) ==
    /\ listening
    /\ openSocks' = openSocks \ {mClients[i]} /\ mClients' = RemoveAt(mClients, i)
    /\ UNCHANGED <<m_socket, made, connecting, listening>>

SockNext ==
    \/ CreateSocket \/ DestroySocket \/ Connect \/ Connected \/ TryNext \/ Refused
    \/ Listen \/ Accept \/ \E i \in DOMAIN mClients : ClientBreaks(i)

SockSpec == SockInit /\ [][SockNext]_sockVars

-----------------------------------------------------------------------------
\* The third address of a host is never tried: with a second that refuses,
\* Connect goes on for ever.
SockTypeOK ==
    /\ m_socket \in {SocketNull, InvalidSocket} \cup openSocks
    /\ openSocks \subseteq 1 .. made /\ made <= MaxSockets
    /\ current \in 0 .. 2 /\ (current # 0 => HasSocket /\ current <= Len(host))
    /\ listening => HasSocket

\* Through any series of starts, failed connections, clients that come and go and
\* destroyed sockets, what the process has open is the one socket the object
\* knows, those of the device's clients, each once, and one more for each Connect
\* that threw, which nothing can close any more.
OnlyFailedConnectsLeak ==
    /\ ToSet(mClients) \subseteq openSocks \ {m_socket}
    /\ Cardinality(ToSet(mClients)) = Len(mClients)
    /\ Cardinality(openSocks \ ({m_socket} \cup ToSet(mClients))) = failures

=============================================================================
