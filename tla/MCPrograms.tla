----------------------------- MODULE MCPrograms ------------------------------
(* The repository's two programs and the pool: a behaviour is one of cmd/shortener, one of cmd/reset
   or one of a user of cmd/reset/pool, and the variables of the others rest. *)
EXTENDS Application, ResetGenerator

TheGiven ==
    {[flags |-> f, env |-> e, keys |-> k, file |-> c] :
        f \in {{}, {"DatabaseDSN"}},
        e \in SUBSET {"FileStoragePath", "DatabaseDSN", "SessionKey"},
        k \in SUBSET {"DatabaseDSN", "ServerAddr", "SessionKey"},
        c \in {"absent", "good", "malformed"}}

TheShapes ==
    {<<>>} \cup {<<c>> : c \in Constructors}
    \cup {<<"ptr", "ptr">>, <<"ptr", "slice">>, <<"array", "ptr">>, <<"map", "slice">>}

VARIABLE program

ShortenerRests == given = NotGiven /\ main = "exited" /\ NothingBuilt
GeneratorRests ==
    /\ directory = "empty" /\ field = [of |-> <<>>, base |-> Named("int", "basic", FALSE)]
    /\ annotated = FALSE /\ generated = Absent /\ PoolInit

EitherInit ==
    \/ program = "shortener" /\ Init /\ GeneratorRests
    \/ program = "reset" /\ GenInit /\ ShortenerRests
    \/ program = "pool" /\ GeneratorRests /\ ShortenerRests
EitherNext ==
    \/ program = "shortener" /\ Next /\ UNCHANGED <<program, genvars>>
    \/ program = "reset" /\ GenNext /\ UNCHANGED <<program, vars>>
    \/ program = "pool" /\ PoolNext /\ UNCHANGED <<program, vars>>

(* The fairness is that of the shortener; nobody has to edit, generate or use the pool. *)
EitherSpec == EitherInit /\ [][EitherNext]_<<program, vars, genvars>> /\ Fairness
=============================================================================
