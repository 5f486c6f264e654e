----------------------------- MODULE MCRoutines -----------------------------
(***************************************************************************)
(* All the routines of the tables.                                         *)
(***************************************************************************)
EXTENDS SysdepsUnix, SysdepsUtil, SysdepsWin, DaemonRoutines, LibraryRoutines

Code ==
  [ dbus_open_socket |-> dbus_open_socket,
    dbus_close |-> dbus_close,
    dbus_read |-> dbus_read,
    dbus_connect_unix_socket |-> dbus_connect_unix_socket,
    dbus_listen_unix_socket |-> dbus_listen_unix_socket,
    dbus_connect_tcp_socket |-> dbus_connect_tcp_socket,
    dbus_listen_tcp_socket |-> dbus_listen_tcp_socket,
    write_credentials_byte |-> write_credentials_byte,
    dbus_read_credentials_socket |-> dbus_read_credentials_socket,
    dbus_check_dir_is_private_to_user |-> dbus_check_dir_is_private_to_user,
    fill_user_info_from_passwd |-> fill_user_info_from_passwd,
    fill_user_info |-> fill_user_info,
    dbus_credentials_add_from_current_process |-> dbus_credentials_add_from_current_process,
    dbus_parse_uid |-> dbus_parse_uid,
    dbus_file_get_contents |-> dbus_file_get_contents,
    dbus_string_save_to_file |-> dbus_string_save_to_file,
    dbus_make_file_world_readable |-> dbus_make_file_world_readable,
    dbus_create_file_exclusively |-> dbus_create_file_exclusively,
    dbus_delete_file |-> dbus_delete_file,
    dbus_create_directory |-> dbus_create_directory,
    dbus_concat_dir_and_file |-> dbus_concat_dir_and_file,
    dbus_generate_random_bytes |-> dbus_generate_random_bytes,
    dbus_set_fd_nonblocking |-> dbus_set_fd_nonblocking,
    dbus_full_duplex_pipe |-> dbus_full_duplex_pipe,
    dbus_get_autolaunch_address |-> dbus_get_autolaunch_address,
    dbus_get_standard_session_servicedirs |-> dbus_get_standard_session_servicedirs,
    dbus_get_standard_system_servicedirs |-> dbus_get_standard_system_servicedirs,
    dbus_append_keyring_directory_for_credentials |-> dbus_append_keyring_directory_for_credentials,
    dbus_become_daemon |-> dbus_become_daemon,
    dbus_write_pid_file |-> dbus_write_pid_file,
    dbus_write_pid_to_file_and_pipe |-> dbus_write_pid_to_file_and_pipe,
    dbus_change_to_daemon_user |-> dbus_change_to_daemon_user,
    dbus_delete_directory |-> dbus_delete_directory,
    dbus_user_at_console |-> dbus_user_at_console,
    dbus_stat |-> dbus_stat,
    dbus_directory_open |-> dbus_directory_open,
    dbus_directory_get_next_file |-> dbus_directory_get_next_file,
    fill_user_info_from_group |-> fill_user_info_from_group,
    fill_group_info |-> fill_group_info,
    dbus_command_for_pid |-> dbus_command_for_pid,
    dbus_get_environment |-> dbus_get_environment,
    dbus_setenv |-> dbus_setenv,
    dbus_split_paths_and_append |-> dbus_split_paths_and_append,
    dbus_user_database_lookup |-> dbus_user_database_lookup,
    dbus_user_database_lookup_group |-> dbus_user_database_lookup_group,
    init_system_db |-> init_system_db,
    dbus_username_from_current_process |-> dbus_username_from_current_process,
    dbus_homedir_from_current_process |-> dbus_homedir_from_current_process,
    dbus_homedir_from_username |-> dbus_homedir_from_username,
    dbus_homedir_from_uid |-> dbus_homedir_from_uid,
    dbus_credentials_add_from_user |-> dbus_credentials_add_from_user,
    dbus_get_group_id |-> dbus_get_group_id,
    dbus_get_user_id_and_primary_group |-> dbus_get_user_id_and_primary_group,
    dbus_groups_from_uid |-> dbus_groups_from_uid,
    dbus_is_console_user |-> dbus_is_console_user,
    dbus_user_database_new |-> dbus_user_database_new,
    dbus_dup_string_array |-> dbus_dup_string_array,
    dbus_read_uuid_file_without_creating |-> dbus_read_uuid_file_without_creating,
    dbus_create_uuid_file_exclusively |-> dbus_create_uuid_file_exclusively,
    dbus_read_uuid_file |-> dbus_read_uuid_file,
    dbus_get_local_machine_uuid_encoded |-> dbus_get_local_machine_uuid_encoded,
    win_file_open |-> win_file_open,
    win_file_close |-> win_file_close,
    win_file_read |-> win_file_read,
    win_read_socket |-> win_read_socket,
    win_pipe_write |-> win_pipe_write,
    win_pipe_close |-> win_pipe_close,
    win_close_socket |-> win_close_socket,
    win_set_fd_nonblocking |-> win_set_fd_nonblocking,
    win_full_duplex_pipe |-> win_full_duplex_pipe,
    win_connect_tcp_socket |-> win_connect_tcp_socket,
    win_listen_tcp_socket |-> win_listen_tcp_socket,
    win_send_credentials_socket |-> win_send_credentials_socket,
    win_read_credentials_socket |-> win_read_credentials_socket,
    win_concat_dir_and_file |-> win_concat_dir_and_file,
    win_file_get_contents |-> win_file_get_contents,
    win_string_save_to_file |-> win_string_save_to_file,
    win_create_file_exclusively |-> win_create_file_exclusively,
    win_create_directory |-> win_create_directory,
    win_delete_file |-> win_delete_file,
    pseudorandom_generate_random_bytes |-> pseudorandom_generate_random_bytes,
    win_win_utf8_to_utf16 |-> win_win_utf8_to_utf16,
    win_win_utf16_to_utf8 |-> win_win_utf16_to_utf8,
    win_win_account_to_sid |-> win_win_account_to_sid,
    win_getsid |-> win_getsid,
    win_credentials_add_from_current_process |-> win_credentials_add_from_current_process,
    win_append_user_from_current_process |-> win_append_user_from_current_process,
    win_write_pid_file |-> win_write_pid_file,
    win_write_pid_to_file_and_pipe |-> win_write_pid_to_file_and_pipe,
    win_user_at_console |-> win_user_at_console,
    win_delete_directory |-> win_delete_directory,
    win_file_exists |-> win_file_exists,
    win_stat |-> win_stat,
    win_directory_open |-> win_directory_open,
    win_directory_get_next_file |-> win_directory_get_next_file,
    win_get_standard_session_servicedirs |-> win_get_standard_session_servicedirs,
    win_get_config_file_name |-> win_get_config_file_name,
    win_append_keyring_directory_for_credentials |-> win_append_keyring_directory_for_credentials,
    server_get_context |-> server_get_context,
    setup_server |-> setup_server,
    process_config_first_time_only |-> process_config_first_time_only,
    process_config_every_time |-> process_config_every_time,
    process_config_postinit |-> process_config_postinit,
    bus_context_new |-> bus_context_new,
    bus_context_reload_config |-> bus_context_reload_config,
    bus_driver_send_welcome_message |-> bus_driver_send_welcome_message,
    bus_driver_handle_list_services |-> bus_driver_handle_list_services,
    bus_driver_handle_list_activatable_services |-> bus_driver_handle_list_activatable_services,
    create_unique_client_name |-> create_unique_client_name,
    bus_driver_handle_release_service |-> bus_driver_handle_release_service,
    bus_driver_handle_service_exists |-> bus_driver_handle_service_exists,
    bus_driver_handle_activate_service |-> bus_driver_handle_activate_service,
    send_ack_reply |-> send_ack_reply,
    bus_driver_handle_update_activation_environment |-> bus_driver_handle_update_activation_environment,
    bus_driver_handle_get_service_owner |-> bus_driver_handle_get_service_owner,
    bus_driver_handle_list_queued_owners |-> bus_driver_handle_list_queued_owners,
    bus_driver_handle_get_connection_unix_user |-> bus_driver_handle_get_connection_unix_user,
    bus_driver_handle_get_connection_unix_process_id |-> bus_driver_handle_get_connection_unix_process_id,
    bus_driver_handle_get_adt_audit_session_data |-> bus_driver_handle_get_adt_audit_session_data,
    bus_driver_handle_get_connection_selinux_security_context |-> bus_driver_handle_get_connection_selinux_security_context,
    bus_driver_handle_reload_config |-> bus_driver_handle_reload_config,
    bus_driver_handle_get_id |-> bus_driver_handle_get_id,
    write_args_for_direction |-> write_args_for_direction,
    bus_driver_generate_introspect_string |-> bus_driver_generate_introspect_string,
    bus_driver_handle_introspect |-> bus_driver_handle_introspect,
    bus_driver_handle_message |-> bus_driver_handle_message,
    copy_address_with_guid_appended |-> copy_address_with_guid_appended,
    dbus_server_init_base |-> dbus_server_init_base,
    protected_change_watch |-> protected_change_watch,
    protected_change_timeout |-> protected_change_timeout,
    dbus_server_listen |-> dbus_server_listen,
    dbus_server_disconnect |-> dbus_server_disconnect,
    dbus_server_get_id |-> dbus_server_get_id,
    dbus_server_set_new_connection_function |-> dbus_server_set_new_connection_function,
    dbus_server_set_watch_functions |-> dbus_server_set_watch_functions,
    dbus_server_set_timeout_functions |-> dbus_server_set_timeout_functions,
    dbus_server_set_auth_mechanisms |-> dbus_server_set_auth_mechanisms,
    dbus_server_set_data |-> dbus_server_set_data,
    handle_new_client_fd_and_unlock |-> handle_new_client_fd_and_unlock,
    socket_handle_watch |-> socket_handle_watch,
    dbus_server_new_for_socket |-> dbus_server_new_for_socket,
    dbus_server_new_for_tcp_socket |-> dbus_server_new_for_tcp_socket,
    dbus_server_listen_socket |-> dbus_server_listen_socket,
    dbus_server_listen_platform_specific |-> dbus_server_listen_platform_specific,
    dbus_server_new_for_domain_socket |-> dbus_server_new_for_domain_socket,
    get_from_env |-> get_from_env,
    init_connections_unlocked |-> init_connections_unlocked,
    ensure_bus_data |-> ensure_bus_data,
    internal_bus_get |-> internal_bus_get,
    dbus_bus_register |-> dbus_bus_register,
    dbus_bus_set_unique_name |-> dbus_bus_set_unique_name,
    dbus_bus_get_unique_name |-> dbus_bus_get_unique_name,
    dbus_bus_get_unix_user |-> dbus_bus_get_unix_user,
    dbus_bus_request_name |-> dbus_bus_request_name,
    dbus_bus_release_name |-> dbus_bus_release_name,
    dbus_bus_get_id |-> dbus_bus_get_id,
    dbus_bus_name_has_owner |-> dbus_bus_name_has_owner,
    dbus_bus_start_service_by_name |-> dbus_bus_start_service_by_name,
    send_no_return_values |-> send_no_return_values,
    dbus_bus_remove_match |-> dbus_bus_remove_match,
    dbus_babysitter_new |-> dbus_babysitter_new,
    dbus_spawn_async_with_babysitter |-> dbus_spawn_async_with_babysitter,
    bus_config_parser_new |-> bus_config_parser_new,
    bus_config_parser_start_element |-> bus_config_parser_start_element,
    bus_config_parser_content |-> bus_config_parser_content,
    desktop_file_for_name |-> desktop_file_for_name,
    clear_environment |-> clear_environment,
    check_permissions |-> check_permissions,
    check_service_name |-> check_service_name,
    get_parameters_for_service |-> get_parameters_for_service,
    switch_user |-> switch_user,
    exec_for_correct_user |-> exec_for_correct_user,
    check_bus_name |-> check_bus_name,
    get_correct_parser |-> get_correct_parser,
    launch_bus_name |-> launch_bus_name,
    check_dbus_user |-> check_dbus_user,
    run_launch_helper |-> run_launch_helper,
    unescape_string |-> unescape_string,
    new_section |-> new_section,
    parse_section_start |-> parse_section_start,
    parse_key_value |-> parse_key_value,
    bus_desktop_file_load |-> bus_desktop_file_load,
    bus_desktop_file_get_string |-> bus_desktop_file_get_string,
    xml_text_start_element |-> xml_text_start_element,
    bus_config_load |-> bus_config_load,
    avc_alloc_lock |-> avc_alloc_lock,
    bus_selinux_pre_init |-> bus_selinux_pre_init,
    bus_selinux_full_init |-> bus_selinux_full_init,
    bus_selinux_allows_send |-> bus_selinux_allows_send,
    bus_selinux_append_context |-> bus_selinux_append_context,
    bus_connection_read_selinux_context |-> bus_connection_read_selinux_context,
    bus_selinux_init_connection_id |-> bus_selinux_init_connection_id,
    bus_selinux_id_table_insert |-> bus_selinux_id_table_insert,
    bus_selinux_shutdown |-> bus_selinux_shutdown,
    dbus_connection_preallocate_send_unlocked |-> dbus_connection_preallocate_send_unlocked,
    dbus_connection_preallocate_send |-> dbus_connection_preallocate_send,
    dbus_connection_free_preallocated_send |-> dbus_connection_free_preallocated_send,
    dbus_connection_send_preallocated_and_unlock |-> dbus_connection_send_preallocated_and_unlock,
    dbus_connection_send_preallocated |-> dbus_connection_send_preallocated,
    dbus_connection_send_unlocked_no_update |-> dbus_connection_send_unlocked_no_update,
    dbus_connection_send_and_unlock |-> dbus_connection_send_and_unlock,
    dbus_connection_send |-> dbus_connection_send,
    generate_local_error_message |-> generate_local_error_message,
    free_outgoing_message |-> free_outgoing_message,
    dbus_connection_do_iteration_unlocked |-> dbus_connection_do_iteration_unlocked,
    dbus_connection_flush |-> dbus_connection_flush,
    dbus_connection_read_write_dispatch |-> dbus_connection_read_write_dispatch,
    dbus_connection_get_dispatch_status |-> dbus_connection_get_dispatch_status,
    dbus_connection_borrow_message |-> dbus_connection_borrow_message,
    dbus_connection_return_message |-> dbus_connection_return_message,
    dbus_connection_steal_borrowed_message |-> dbus_connection_steal_borrowed_message,
    dbus_connection_pop_message_link_unlocked |-> dbus_connection_pop_message_link_unlocked,
    dbus_connection_pop_message_unlocked |-> dbus_connection_pop_message_unlocked,
    dbus_connection_failed_pop |-> dbus_connection_failed_pop,
    dbus_connection_pop_message |-> dbus_connection_pop_message,
    dbus_connection_peer_filter_unlocked_no_update |-> dbus_connection_peer_filter_unlocked_no_update,
    flatten_path |-> flatten_path,
    dbus_object_tree_list_registered_and_unlock |-> dbus_object_tree_list_registered_and_unlock,
    handle_default_introspect_and_unlock |-> handle_default_introspect_and_unlock,
    dbus_connection_ref_unlocked |-> dbus_connection_ref_unlocked,
    dbus_message_filter_ref |-> dbus_message_filter_ref,
    dbus_message_filter_unref |-> dbus_message_filter_unref,
    dbus_connection_close_possibly_shared |-> dbus_connection_close_possibly_shared,
    dbus_connection_close_if_only_one_ref |-> dbus_connection_close_if_only_one_ref,
    close_connection_on_shutdown |-> close_connection_on_shutdown,
    shared_connections_shutdown |-> shared_connections_shutdown,
    dbus_connection_get_is_connected |-> dbus_connection_get_is_connected,
    dbus_connection_get_is_authenticated |-> dbus_connection_get_is_authenticated,
    dbus_connection_get_is_anonymous |-> dbus_connection_get_is_anonymous,
    dbus_connection_set_exit_on_disconnect |-> dbus_connection_set_exit_on_disconnect,
    dbus_connection_get_socket |-> dbus_connection_get_socket,
    dbus_connection_set_allow_anonymous |-> dbus_connection_set_allow_anonymous,
    dbus_connection_set_route_peer_messages |-> dbus_connection_set_route_peer_messages,
    dbus_connection_get_data |-> dbus_connection_get_data,
    dbus_connection_set_max_message_size |-> dbus_connection_set_max_message_size,
    dbus_connection_get_max_message_size |-> dbus_connection_get_max_message_size,
    dbus_connection_set_max_received_size |-> dbus_connection_set_max_received_size,
    dbus_connection_get_max_received_size |-> dbus_connection_get_max_received_size,
    dbus_connection_get_outgoing_size |-> dbus_connection_get_outgoing_size,
    dbus_connection_get_server_id |-> dbus_connection_get_server_id,
    dbus_connection_get_unix_user |-> dbus_connection_get_unix_user,
    dbus_connection_get_unix_process_id |-> dbus_connection_get_unix_process_id,
    dbus_connection_get_adt_audit_session_data |-> dbus_connection_get_adt_audit_session_data,
    dbus_connection_get_windows_user |-> dbus_connection_get_windows_user,
    dbus_connection_set_wakeup_main_function |-> dbus_connection_set_wakeup_main_function,
    dbus_connection_set_dispatch_status_function |-> dbus_connection_set_dispatch_status_function,
    dbus_connection_set_unix_user_function |-> dbus_connection_set_unix_user_function,
    dbus_connection_set_windows_user_function |-> dbus_connection_set_windows_user_function,
    dbus_connection_set_data |-> dbus_connection_set_data,
    connection_change_watch |-> connection_change_watch,
    dbus_connection_set_watch_functions |-> dbus_connection_set_watch_functions,
    dbus_connection_set_timeout_functions |-> dbus_connection_set_timeout_functions,
    dbus_connection_add_filter |-> dbus_connection_add_filter,
    dbus_connection_remove_filter |-> dbus_connection_remove_filter,
    dbus_connection_try_register_object_path |-> dbus_connection_try_register_object_path,
    dbus_connection_try_register_fallback |-> dbus_connection_try_register_fallback,
    dbus_connection_register_object_path |-> dbus_connection_register_object_path,
    dbus_connection_register_fallback |-> dbus_connection_register_fallback,
    dbus_connection_unregister_object_path |-> dbus_connection_unregister_object_path,
    dbus_connection_get_object_path_data |-> dbus_connection_get_object_path_data,
    dbus_connection_list_registered |-> dbus_connection_list_registered ]
=============================================================================
