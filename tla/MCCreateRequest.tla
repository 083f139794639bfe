-------------------------- MODULE MCCreateRequest --------------------------
(* Limits above, at and below the defaults, a limit that is not in whole     *)
(* cores, a disabled limit and a port range that ends before it starts.      *)
EXTENDS CreateRequest

MCConfigs == {[cpu |-> 8000, memory |-> 16384, ttl |-> 1440, first |-> 2200, last |-> 2399],
              [cpu |-> 1000, memory |-> 512, ttl |-> 60, first |-> 2200, last |-> 2200],
              [cpu |-> 1500, memory |-> 4096, ttl |-> 480, first |-> 2200, last |-> 2100],
              [cpu |-> 2000, memory |-> 0, ttl |-> 480, first |-> 2200, last |-> 2201]}

MCValues == [source |-> {"", "builtin_image", "image_ref", "dockerfile", "nixpacks", "other"},
             ref    |-> {"", " ", "text"},
             repo   |-> {"", " ", "url"},
             keys   |-> {{}, {""}, {"word"}, {"key one"}, {"", "key one", "key two"}},
             port   |-> {Blank, Junk, -5, 0, 2199, 2200, 2201},
             http   |-> {"", " ", "proxy"},
             https  |-> {"", "other proxy"},
             cores  |-> {Blank, Junk, -1, 0, 1, 2, 9},
             millis |-> {500, 1000, 1500},
             memory |-> {Blank, Junk, -1, 1, 512, 16385},
             ttl    |-> {Blank, 0, 61, 1440, 1441}]
=============================================================================
