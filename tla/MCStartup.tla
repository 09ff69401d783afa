----------------------------- MODULE MCStartup -----------------------------
(* Constants and symmetry for checking Startup. *)
EXTENDS Startup, TLC

CONSTANTS s1, s2, d1

TwoStarters == {s1, s2}
OneDelivery == {d1}

CoreTables == {Table(t) : t \in {"nodes", "tacs", "messages", "deliveries", "tab_routes"}}

\* Nothing; the first release; one before tacs had names; and this one, without auto_enter.
First  == CoreTables \cup {Table("node_tokens")}
Middle == CoreTables \cup {Quarantine, TacIndex, Column("tacs", "prev_tac_id")}
            \cup (Added \ {Column("nodes", "is_program"), Column("tab_routes", "host_id"),
                           Column("tab_routes", "provenance_verified"),
                           Column("tab_routes", "auto_enter")})
Recent == Items \ {Table("node_tokens"), Column("tacs", "prev_tac_id"),
                   Column("tab_routes", "auto_enter")}

OldLedgers == {{}, First, Middle, Recent}
=============================================================================
