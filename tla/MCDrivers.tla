----------------------------- MODULE MCDrivers -----------------------------
(***************************************************************************)
(* The drivers of pubsub, checked in one run: in each behaviour one of     *)
(* Delivery, Kafka, RabbitTopic and Sends is at work, and the others are   *)
(* in a state in which they have nothing left to do.                       *)
(***************************************************************************)
EXTENDS Delivery, Kafka, RabbitTopic, Sends

\* The messages of each partition.
MCLength(p) == IF p = 1 THEN 2 ELSE 1

DeliveryRests ==
    /\ driver = "none" /\ lazy = FALSE /\ queue = {} /\ leases = {} /\ held = {}
    /\ acks = {} /\ nacks = {} /\ acked = Msgs /\ gone = Msgs /\ failed = FALSE /\ ch = 0
    /\ chState = "nil" /\ tag = 0 /\ delc = {} /\ misdirected = FALSE /\ nacked = 0 /\ late = 0 /\ faults = 0

KafkaRests ==
    /\ committed = [p \in Partitions |-> Length(p)] /\ marked = committed /\ pos = committed
    /\ sess = FALSE /\ owned = {} /\ claims = {} /\ taken = NoMsg /\ unacked = << >>
    /\ heldAt = {} /\ acksAt = {} /\ closeCh = TRUE /\ rebalances = MaxRebalances
    /\ ackedOffs = UNION {{p} \X (0..Length(p) - 1) : p \in Partitions}

RabbitRests ==
    /\ mu = None /\ tch = 0 /\ notify = 0 /\ opened = 0 /\ closedChs = {}
    /\ events = [k \in Channels |-> << >>]
    /\ pc = [c \in Calls |-> "returned"] /\ chOf = [c \in Calls |-> 0] /\ next = [c \in Calls |-> 1]
    /\ reader = [c \in Calls |-> "none"] /\ nAcks = [c \in Calls |-> 0]
    /\ errs = [c \in Calls |-> FALSE] /\ perr = [c \in Calls |-> FALSE] /\ cancelled = {}
    /\ accepted = {} /\ result = [c \in Calls |-> "error"] /\ abandoned = {}
    /\ sendFaults = MaxSendFaults

SendsRests ==
    /\ sender = "none" /\ phase = "returned" /\ cur = 1 /\ before = {} /\ sent = {}
    /\ flying = {} /\ after = {} /\ sendResult = "error"

DriversInit ==
    \/ Init /\ KafkaRests /\ RabbitRests /\ SendsRests
    \/ DeliveryRests /\ KafkaInit /\ RabbitRests /\ SendsRests
    \/ DeliveryRests /\ KafkaRests /\ RabbitInit /\ SendsRests
    \/ DeliveryRests /\ KafkaRests /\ RabbitRests /\ SendsInit

DriversNext ==
    \/ Next /\ UNCHANGED <<kvars, rvars, sendsVars>>
    \/ KafkaNext /\ UNCHANGED <<vars, rvars, sendsVars>>
    \/ RabbitNext /\ UNCHANGED <<vars, kvars, sendsVars>>
    \/ SendsNext /\ UNCHANGED <<vars, kvars, rvars>>

DriversSpec ==
    /\ DriversInit /\ [][DriversNext]_<<vars, kvars, rvars, sendsVars>>
    /\ Fairness /\ KafkaFairness /\ RabbitFairness

=============================================================================
