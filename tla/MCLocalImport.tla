--------------------------- MODULE MCLocalImport ---------------------------
(* A tree in which two directories have one name, one is ignored, one is   *)
(* too deep below the first root but not below the second, and one below   *)
(* both.  One server, and an address where there is none.                  *)
EXTENDS LocalImport, TLC

CONSTANTS h1, h2, user, db

Top == "/" Shop == "/shop" Old == "/old" OldShop == "/old/shop" Archive == "/archive" Deep == "/old/shop/deep"
Tree == {Top, Shop, Old, OldShop, Archive, Deep}
Parents ==
  (Top :> Top) @@ (Shop :> Top) @@ (Old :> Top) @@ (OldShop :> Old) @@ (Archive :> Top)
  @@ (Deep :> OldShop)
Names ==
  (Top :> "") @@ (Shop :> "shop") @@ (Old :> "old") @@ (OldShop :> "shop")
  @@ (Archive :> "archive") @@ (Deep :> "deep")
RootDirs == <<Top, "/gone", Old>>

Server1 == [driver |-> "mysql", host |-> h1, port |-> 3306]
Known   == {Server1}

EnvShop == <<Shop, ".env">>
EnvOldShop == <<OldShop, ".env">>
EnvArchive == <<Archive, ".env">>
EnvDeep == <<Deep, ".env">>
DbEnv == <<Shop, "db.env">>
Compose == <<Shop, "docker-compose.yml">>
Paths == {EnvShop, EnvOldShop, EnvArchive, EnvDeep, DbEnv, Compose}

Whole(h) == [DB_HOST |-> h, DB_USER |-> user]
Half     == [MYSQL_HOST |-> h1, DB_HOST |-> Blank, MYSQL_USER |-> user]
NoPort   == [DB_HOST |-> h1, DB_USER |-> user, DB_PORT |-> Bad]
Service1(files) == [name |-> db, environment |-> [DB_HOST |-> h2, DB_USER |-> Blank],
                    env_file |-> files]
Service2 == [name |-> user, environment |-> [DB_PORT |-> Bad], env_file |-> <<>>]

Described == {Service1(<<DbEnv>>), Service1(<<>>), Service2}

Disk(contents) == [f \in Paths |-> IF f \in DOMAIN contents THEN contents[f] ELSE Missing]
Start1 == Disk((EnvShop :> Whole(h2)) @@ (EnvOldShop :> Whole(h1)) @@ (EnvArchive :> Whole(h1))
               @@ (EnvDeep :> Whole(h2)))
Start2 == Disk((Compose :> <<Service2, Service1(<<DbEnv>>)>>) @@ (DbEnv :> Half)
               @@ (EnvArchive :> NoPort))
Start3 == Disk((Compose :> Unreadable) @@ (EnvOldShop :> Whole(h1)))
Start4 == Disk((EnvShop :> [DB_PORT |-> Bad]) @@ (EnvOldShop :> NoPort))
Starts == {Start1, Start2, Start3, Start4}

Changes ==
  (EnvShop :> {Whole(h1)}) @@ (EnvOldShop :> {Missing}) @@ (EnvArchive :> {}) @@ (EnvDeep :> {})
  @@ (DbEnv :> {Missing}) @@ (Compose :> {Missing, <<Service1(<<>>)>>})

(* On MySQL 8 nothing yet, or all there is; all there is elsewhere; what   *)
(* is required, with a latest log that is no JSON.                         *)
Install(present, upper, bad) == [tables |-> present, upperCase |-> upper, garbled |-> bad]
Installed == {Install({}, TRUE, FALSE), Install(Tables, TRUE, FALSE),
              Install(Tables, FALSE, FALSE), Install(Required, FALSE, TRUE)}

Given == {[scheme |-> "mysql", host |-> h1, port |-> Blank],
          [scheme |-> "postgres", host |-> h1, port |-> Blank]}
=============================================================================
